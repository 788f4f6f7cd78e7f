---------------------------- MODULE MemoryProofs ----------------------------
(***************************************************************************)
(* Theorems about physical pages and page tables, and about the lock layer *)
(* that guards them, for any set of processes, of pages, of table entries, *)
(* of harts and of locks.                                                  *)
(*                                                                         *)
(* First the spin locks.  The properties of SpinLock are not inductive:    *)
(* mutual exclusion says nothing of the hart that has won the test-and-set *)
(* and not yet written lock->cpu, nor of the one that has cleared it and   *)
(* not yet freed the word.  IInv adds who is in possession of each lock    *)
(* word (Possesses), when lock->cpu is written, what noff counts in the    *)
(* middle of a call (Pending), and that an interrupted push_off resumes as *)
(* it was.                                                                 *)
(*                                                                         *)
(* Then the pages.  PagesApart says nothing of a page that a thread has    *)
(* taken and not yet linked, nor of one that it still has to give back.    *)
(* MemoryInv gives each such use a name (Claims) and the pages it stands   *)
(* for (Has): the free list, what a thread has in hand, a trapframe, the   *)
(* frame at an address of a root, the tables of a root.  Any two of these  *)
(* claims are apart (Apart), and below each root is a tree (Tree).  What a *)
(* thread is about to do is its Task: it serves the process that called,   *)
(* makes one (Makes) or reaps one (Reaps), and no two have the same root   *)
(* or the same child (Alone).  A step then only has to say to which claim  *)
(* a page moves: the lemmas Keeps, Moves and their like do the rest.  All  *)
(* of it is for forks that do not overlap (~Overlap): with one slot given  *)
(* away twice two threads would have the same child.  A thread that spins  *)
(* after a panic keeps what it has in hand.                                *)
(*                                                                         *)
(* Last, what a process finds in its memory.  ViewInv adds what a root     *)
(* shows: its areas hold pages that are filled (FilledAt), a process that  *)
(* runs has its trampoline and its registers (Equipped), and a thread in   *)
(* the middle of a mapping finds nothing yet where it maps (Laid).  Then a *)
(* step leaves what everybody finds as it is (Still), or changes it for    *)
(* one process (OnlySees), which started, mapped, read, unmapped or ended. *)
(***************************************************************************)
EXTENDS SpinLock, Memory, FiniteSetTheorems, SequenceTheorems, WellFoundedInduction, TLAPS

-----------------------------------------------------------------------------
(* Spin locks *)

\* The hart has the lock word: it holds the lock, or is about to or just did
Possesses(c, l) ==
    l \in held[c] \/ (pc[c] \in {"setcpu", "unlock"} /\ arg[c] = l)

\* The hart has called push_off for a lock it does not hold (yet, or any more)
\* or for curproc
Pending(c) ==
    \/ pc[c] \in {"spin", "setcpu", "unlock", "pop", "panic acquire",
                  "panic pop_off", "panic pop_off - interruptible"}
    \/ pc[c] \in {"locked", "cpu"} /\ fn[c] = "acquire"

\* Which call a hart at each pc is in
CallOK(c) ==
    /\ pc[c] \in {"spin", "setcpu"} => fn[c] = "acquire"
    /\ pc[c] \in {"clearcpu", "unlock"} => fn[c] = "release"
    /\ pc[c] \in {"locked", "cpu"} => fn[c] \in {"acquire", "release"}
    /\ pc[c] \in {"locked", "cpu", "spin", "setcpu", "clearcpu", "unlock",
                  "panic acquire", "panic release"} => arg[c] \in Lock
    /\ pc[c] = "off" /\ fn[c] = "acquire" => arg[c] \in Lock
    /\ pc[c] = "off" => fn[c] \in {"acquire", "curproc"}
    /\ saved[c].pc = "off" => /\ saved[c].fn \in {"acquire", "curproc"}
                              /\ saved[c].fn = "acquire" => saved[c].arg \in Lock

\* What holding has established where its answer is acted on
Answered(c) ==
    /\ pc[c] \in {"spin", "setcpu", "unlock", "panic release"} => arg[c] \notin held[c]
    /\ pc[c] \in {"clearcpu", "panic acquire"} => arg[c] \in held[c]

WordInv ==
    /\ \A c \in CPU : \A l \in Lock : Possesses(c, l) => locked[l]
    /\ \A c, d \in CPU : \A l \in Lock : Possesses(c, l) /\ Possesses(d, l) => c = d
    /\ \A c \in CPU : \A l \in Lock : (owner[l] = c) <=> (l \in held[c])

DepthInv ==
    \A c \in CPU :
        /\ IsFiniteSet(held[c])
        /\ noff[c] = Cardinality(held[c]) + IF Pending(c) THEN 1 ELSE 0

MaskInv ==
    \A c \in CPU :
        /\ noff[c] > 0 => ~sie[c]
        /\ pc[c] = "off" => old[c] = sie[c]
        /\ inIntr[c] /\ saved[c].pc = "off" => saved[c].old = TRUE
        /\ pc[c] # "panic pop_off - interruptible"

CallInv == \A c \in CPU : CallOK(c) /\ Answered(c)

IInv == TypeOK /\ CallInv /\ WordInv /\ DepthInv /\ MaskInv

\* Every step keeps the types.
LEMMA StepType ==
    ASSUME IInv, NEW c \in CPU, Step(c)
    PROVE  TypeOK'
<1> USE DEF TypeOK, locks, frame, PCs, Panics, Fns, Frames
<1>0. TypeOK
  BY DEF IInv
<1>1. ASSUME NEW l \in Lock, CallAcquire(c, l) PROVE TypeOK'
  BY <1>0, <1>1 DEF CallAcquire, EnterPushOff, Resume, At
<1>2. ASSUME NEW l \in Lock, CallRelease(c, l) PROVE TypeOK'
  BY <1>0, <1>2 DEF CallRelease, Resume, At
<1>3. CASE CallCurproc(c)
  BY <1>0, <1>3 DEF CallCurproc, EnterPushOff, Resume, At
<1>4. CASE PushOff(c)
  <2>0. noff \in [CPU -> Nat] /\ noff' = [noff EXCEPT ![c] = @ + 1]
    BY <1>0, <1>4 DEF PushOff
  <2>1. noff' \in [CPU -> Nat]
    BY <2>0
  <2>2. intena' \in [CPU -> BOOLEAN]
    BY <1>0, <1>4 DEF PushOff
  <2>3. pc' \in [CPU -> PCs] /\ sie' \in [CPU -> BOOLEAN]
    BY <1>0, <1>4 DEF PushOff, Goto
  <2> QED
    BY <1>0, <1>4, <2>1, <2>2, <2>3 DEF PushOff
<1>5. CASE ReadLocked(c)
  BY <1>0, <1>5 DEF ReadLocked, At, Goto, AfterHolding
<1>6. CASE ReadCpu(c)
  BY <1>0, <1>6 DEF ReadCpu, At, Goto, AfterHolding
<1>7. CASE TestAndSet(c)
  BY <1>0, <1>7 DEF TestAndSet, At, Goto
<1>8. CASE SetCpu(c)
  BY <1>0, <1>8 DEF SetCpu, At, IInv, CallInv, CallOK, Return, Resume, NoFrame
<1>9. CASE ClearCpu(c)
  BY <1>0, <1>9 DEF ClearCpu, At, Goto
<1>10. CASE Unlock(c)
  BY <1>0, <1>10 DEF Unlock, At, Goto
<1>11. CASE PopOff(c)
  <2>0. IsFiniteSet(held[c]) /\ noff[c] = Cardinality(held[c]) + 1
    BY <1>11 DEF PopOff, At, IInv, DepthInv, Pending
  <2>1. noff[c] - 1 \in Nat
    BY <2>0, FS_CardinalityType
  <2>2. noff' \in [CPU -> Nat] /\ sie' \in [CPU -> BOOLEAN]
    BY <1>0, <1>11, <2>1 DEF PopOff
  <2>3. /\ pc' \in [CPU -> PCs]
        /\ fn' \in [CPU -> Fns]
        /\ arg' \in [CPU -> Lock \cup {NoLock}]
        /\ old' \in [CPU -> BOOLEAN]
    BY <1>0, <1>11 DEF PopOff, Goto, Return, Resume, NoFrame
  <2> QED
    BY <1>0, <1>11, <2>2, <2>3 DEF PopOff
<1>12. CASE IntrOn(c)
  BY <1>0, <1>12 DEF IntrOn, At
<1>13. CASE Interrupt(c)
  BY <1>0, <1>13 DEF Interrupt, At, Return, Resume, NoFrame
<1>14. CASE IntrReturn(c)
  BY <1>0, <1>14 DEF IntrReturn, At, Resume, NoFrame
<1> QED
  BY <1>0, <1>1, <1>2, <1>3, <1>4, <1>5, <1>6, <1>7, <1>8, <1>9, <1>10, <1>11, <1>12, <1>13,
     <1>14 DEF Step

\* Every step keeps the control structure of the calls.
LEMMA StepCall ==
    ASSUME IInv, NEW c \in CPU, Step(c)
    PROVE  CallInv'
<1> USE DEF CallInv, CallOK, Answered
<1>0. TypeOK /\ CallInv
  BY DEF IInv
<1> SUFFICES ASSUME NEW d \in CPU PROVE CallOK(d)' /\ Answered(d)'
  OBVIOUS
<1>1. ASSUME NEW l \in Lock, CallAcquire(c, l) PROVE CallOK(d)' /\ Answered(d)'
  BY <1>0, <1>1 DEF CallAcquire, EnterPushOff, Resume, At, TypeOK, locks, frame
<1>2. ASSUME NEW l \in Lock, CallRelease(c, l) PROVE CallOK(d)' /\ Answered(d)'
  BY <1>0, <1>2 DEF CallRelease, Resume, At, TypeOK, locks, frame
<1>3. CASE CallCurproc(c)
  BY <1>0, <1>3 DEF CallCurproc, EnterPushOff, Resume, At, TypeOK, locks, frame
<1>4. CASE PushOff(c)
  BY <1>0, <1>4 DEF PushOff, Goto, At, TypeOK, locks, frame
<1>5. CASE ReadLocked(c)
  <2>1. arg[c] \in Lock /\ (~locked[arg[c]] => arg[c] \notin held[c])
    BY <1>0, <1>5 DEF ReadLocked, At, IInv, WordInv, Possesses
  <2>2. \/ pc' = [pc EXCEPT ![c] = "cpu"]
        \/ /\ ~locked[arg[c]] /\ fn[c] = "acquire"
           /\ pc' = [pc EXCEPT ![c] = "spin"]
        \/ /\ ~locked[arg[c]] /\ fn[c] # "acquire"
           /\ pc' = [pc EXCEPT ![c] = "panic release"]
    BY <1>5 DEF ReadLocked, AfterHolding, Goto
  <2> QED
    BY <1>0, <1>5, <2>1, <2>2 DEF ReadLocked, At, TypeOK, locks, frame
<1>6. CASE ReadCpu(c)
  <2>1. arg[c] \in Lock /\ (owner[arg[c]] = c <=> arg[c] \in held[c])
    BY <1>0, <1>6 DEF ReadCpu, At, IInv, WordInv
  <2>2. \/ /\ owner[arg[c]] = c /\ fn[c] = "acquire"
           /\ pc' = [pc EXCEPT ![c] = "panic acquire"]
        \/ /\ owner[arg[c]] # c /\ fn[c] = "acquire"
           /\ pc' = [pc EXCEPT ![c] = "spin"]
        \/ /\ owner[arg[c]] = c /\ fn[c] # "acquire"
           /\ pc' = [pc EXCEPT ![c] = "clearcpu"]
        \/ /\ owner[arg[c]] # c /\ fn[c] # "acquire"
           /\ pc' = [pc EXCEPT ![c] = "panic release"]
    BY <1>6 DEF ReadCpu, AfterHolding, Goto
  <2> QED
    BY <1>0, <1>6, <2>1, <2>2 DEF ReadCpu, At, TypeOK, locks, frame
<1>7. CASE TestAndSet(c)
  BY <1>0, <1>7 DEF TestAndSet, Goto, At, TypeOK, frame
<1>8. CASE SetCpu(c)
  BY <1>0, <1>8 DEF SetCpu, Return, Resume, NoFrame, At, TypeOK, frame
<1>9. CASE ClearCpu(c)
  BY <1>0, <1>9 DEF ClearCpu, Goto, At, TypeOK, frame
<1>10. CASE Unlock(c)
  BY <1>0, <1>10 DEF Unlock, Goto, At, TypeOK, frame
<1>11. CASE PopOff(c)
  <2>1. CASE sie[c] \/ noff[c] > 1
    BY <1>0, <1>11, <2>1 DEF PopOff, Goto, At, TypeOK, locks, frame
  <2>2. CASE ~(sie[c] \/ noff[c] > 1)
    <3>1. /\ pc' = [pc EXCEPT ![c] = "run"] /\ fn' = [fn EXCEPT ![c] = "none"]
          /\ arg' = [arg EXCEPT ![c] = NoLock] /\ held' = held /\ saved' = saved
      BY <1>11, <2>2 DEF PopOff, Return, Resume, NoFrame, locks, frame
    <3>2. CASE d = c
      BY <1>0, <3>1, <3>2 DEF TypeOK
    <3>3. CASE d # c
      BY <1>0, <3>1, <3>3 DEF TypeOK
    <3> QED
      BY <3>2, <3>3
  <2> QED
    BY <2>1, <2>2
<1>12. CASE IntrOn(c)
  BY <1>0, <1>12 DEF IntrOn, At, TypeOK, locks, frame
<1>13. CASE Interrupt(c)
  BY <1>0, <1>13 DEF Interrupt, Return, Resume, NoFrame, At, TypeOK, locks
<1>14. CASE IntrReturn(c)
  BY <1>0, <1>14 DEF IntrReturn, Resume, NoFrame, At, TypeOK, locks, Frames
<1> QED
  BY <1>1, <1>2, <1>3, <1>4, <1>5, <1>6, <1>7, <1>8, <1>9, <1>10, <1>11, <1>12,
     <1>13, <1>14 DEF Step

\* Every step keeps the lock words: one possessor, and lock->cpu names it.
LEMMA StepWord ==
    ASSUME IInv, NEW c \in CPU, Step(c)
    PROVE  WordInv'
<1>0. TypeOK /\ WordInv /\ CallOK(c) /\ Answered(c)
  BY DEF IInv, CallInv
<1>1. CASE TestAndSet(c)
  <2>1. arg[c] \in Lock
    BY <1>0, <1>1 DEF TestAndSet, At, CallOK
  <2>2. CASE locked[arg[c]]
    BY <1>0, <1>1, <2>1, <2>2 DEF TestAndSet, Goto, At, TypeOK, WordInv, Possesses
  <2>3. CASE ~locked[arg[c]]
    <3>1. \A d \in CPU : \A l \in Lock :
             Possesses(d, l)' <=> Possesses(d, l) \/ (d = c /\ l = arg[c])
      BY <1>0, <1>1, <2>1, <2>3 DEF TestAndSet, Goto, At, TypeOK, Possesses
    <3>2. \A l \in Lock : locked'[l] <=> (locked[l] \/ l = arg[c])
      BY <1>0, <1>1, <2>1 DEF TestAndSet, TypeOK
    <3>3. owner' = owner /\ held' = held
      BY <1>1 DEF TestAndSet
    <3>4. \A d \in CPU : ~Possesses(d, arg[c])
      BY <1>0, <2>1, <2>3 DEF WordInv
    <3> QED
      BY <1>0, <2>1, <3>1, <3>2, <3>3, <3>4 DEF WordInv
  <2> QED
    BY <2>2, <2>3
<1>2. CASE SetCpu(c)
  <2>1. arg[c] \in Lock /\ Possesses(c, arg[c])
    BY <1>0, <1>2 DEF SetCpu, At, CallOK, Possesses
  <2>2. \A d \in CPU : \A l \in Lock : Possesses(d, l)' <=> Possesses(d, l)
    BY <1>0, <1>2, <2>1 DEF SetCpu, Return, Resume, NoFrame, At, TypeOK, Possesses
  <2>3. \A d \in CPU : \A l \in Lock :
           l \in held'[d] <=> l \in held[d] \/ (d = c /\ l = arg[c])
    BY <1>0, <1>2, <2>1 DEF SetCpu, TypeOK
  <2>4. \A l \in Lock : owner'[l] = IF l = arg[c] THEN c ELSE owner[l]
    BY <1>0, <1>2 DEF SetCpu, TypeOK
  <2>5. \A d \in CPU : arg[c] \in held[d] => d = c
    BY <1>0, <2>1 DEF WordInv, Possesses
  <2>6. locked' = locked
    BY <1>2 DEF SetCpu
  <2> QED
    BY <1>0, <2>1, <2>2, <2>3, <2>4, <2>5, <2>6 DEF WordInv
<1>3. CASE ClearCpu(c)
  <2>1. arg[c] \in Lock /\ arg[c] \in held[c]
    BY <1>0, <1>3 DEF ClearCpu, At, CallOK, Answered
  <2>2. \A d \in CPU : \A l \in Lock : Possesses(d, l)' <=> Possesses(d, l)
    BY <1>0, <1>3, <2>1 DEF ClearCpu, Goto, At, TypeOK, Possesses
  <2>3. \A d \in CPU : \A l \in Lock :
           l \in held'[d] <=> l \in held[d] /\ ~(d = c /\ l = arg[c])
    BY <1>0, <1>3, <2>1 DEF ClearCpu, TypeOK
  <2>4. \A l \in Lock : owner'[l] = IF l = arg[c] THEN NoCpu ELSE owner[l]
    BY <1>0, <1>3 DEF ClearCpu, TypeOK
  <2>5. \A d \in CPU : arg[c] \in held[d] => d = c
    BY <1>0, <2>1 DEF WordInv, Possesses
  <2>6. locked' = locked
    BY <1>3 DEF ClearCpu
  <2> QED
    BY <1>0, <2>1, <2>2, <2>3, <2>4, <2>5, <2>6, NullAssumption DEF WordInv
<1>4. CASE Unlock(c)
  <2>1. arg[c] \in Lock /\ Possesses(c, arg[c]) /\ arg[c] \notin held[c]
    BY <1>0, <1>4 DEF Unlock, At, CallOK, Answered, Possesses
  <2>2. \A d \in CPU : \A l \in Lock :
           Possesses(d, l)' <=> Possesses(d, l) /\ ~(d = c /\ l = arg[c])
    BY <1>0, <1>4, <2>1 DEF Unlock, Goto, At, TypeOK, Possesses
  <2>3. \A l \in Lock : locked'[l] <=> (locked[l] /\ l # arg[c])
    BY <1>0, <1>4, <2>1 DEF Unlock, TypeOK
  <2>4. owner' = owner /\ held' = held
    BY <1>4 DEF Unlock
  <2> QED
    BY <1>0, <2>1, <2>2, <2>3, <2>4 DEF WordInv
<1>5. ASSUME ~TestAndSet(c), ~SetCpu(c), ~ClearCpu(c), ~Unlock(c)
      PROVE  WordInv'
  <2>1. locked' = locked /\ owner' = owner /\ held' = held
    BY <1>5 DEF Step, CallAcquire, CallRelease, CallCurproc, EnterPushOff, PushOff,
                ReadLocked, ReadCpu, PopOff, IntrOn, Interrupt, IntrReturn, locks
  <2>2. \A d \in CPU : d # c => pc'[d] = pc[d] /\ arg'[d] = arg[d]
    BY <1>0, <1>5 DEF Step, CallAcquire, CallRelease, CallCurproc, EnterPushOff,
                PushOff, ReadLocked, ReadCpu, PopOff, IntrOn, Interrupt, IntrReturn,
                Goto, Return, Resume, TypeOK
  <2>3. pc[c] \notin {"setcpu", "unlock"} /\ pc'[c] \notin {"setcpu", "unlock"}
    <3>1. CASE ReadLocked(c) \/ ReadCpu(c)
      BY <1>0, <3>1 DEF ReadLocked, ReadCpu, AfterHolding, Goto, At, TypeOK
    <3>2. CASE PopOff(c) \/ PushOff(c) \/ IntrOn(c)
      BY <1>0, <3>2 DEF PopOff, PushOff, IntrOn, Goto, Return, Resume, NoFrame, At, TypeOK
    <3>3. CASE Interrupt(c)
      BY <1>0, <3>3 DEF Interrupt, Return, Resume, NoFrame, TypeOK
    <3>4. CASE IntrReturn(c)
      BY <1>0, <3>4 DEF IntrReturn, Resume, At, TypeOK, Frames
    <3>5. CASE CallCurproc(c) \/ \E l \in Lock : CallAcquire(c, l) \/ CallRelease(c, l)
      BY <1>0, <3>5 DEF CallAcquire, CallRelease, CallCurproc, EnterPushOff, Resume,
                        At, TypeOK
    <3> QED
      BY <1>5, <3>1, <3>2, <3>3, <3>4, <3>5 DEF Step
  <2>4. \A d \in CPU : \A l \in Lock : Possesses(d, l)' <=> Possesses(d, l)
    BY <2>1, <2>2, <2>3 DEF Possesses
  <2> QED
    BY <1>0, <2>1, <2>4 DEF WordInv
<1> QED
  BY <1>1, <1>2, <1>3, <1>4, <1>5

\* A hart's step leaves what is private to the other harts alone.
LEMMA StepOthers ==
    ASSUME TypeOK, NEW c \in CPU, Step(c), NEW d \in CPU, d # c
    PROVE  /\ pc'[d] = pc[d] /\ fn'[d] = fn[d] /\ held'[d] = held[d]
           /\ noff'[d] = noff[d] /\ sie'[d] = sie[d] /\ intena'[d] = intena[d]
           /\ old'[d] = old[d] /\ inIntr'[d] = inIntr[d] /\ saved'[d] = saved[d]
<1> USE DEF TypeOK, locks, frame, Goto, Return, Resume
<1>1. ASSUME NEW l \in Lock, CallAcquire(c, l) \/ CallRelease(c, l) PROVE
           /\ pc'[d] = pc[d] /\ fn'[d] = fn[d] /\ held'[d] = held[d]
           /\ noff'[d] = noff[d] /\ sie'[d] = sie[d] /\ intena'[d] = intena[d]
           /\ old'[d] = old[d] /\ inIntr'[d] = inIntr[d] /\ saved'[d] = saved[d]
  BY <1>1 DEF CallAcquire, CallRelease, EnterPushOff
<1>2. CASE CallCurproc(c) \/ PushOff(c)
  BY <1>2 DEF CallCurproc, EnterPushOff, PushOff
<1>3. CASE ReadLocked(c) \/ ReadCpu(c) \/ TestAndSet(c)
  BY <1>3 DEF ReadLocked, ReadCpu, TestAndSet
<1>4. CASE SetCpu(c) \/ ClearCpu(c) \/ Unlock(c)
  BY <1>4 DEF SetCpu, ClearCpu, Unlock
<1>5. CASE PopOff(c)
  <2>1. CASE sie[c] \/ noff[c] > 1
    BY <1>5, <2>1 DEF PopOff
  <2>2. CASE ~(sie[c] \/ noff[c] > 1)
    BY <1>5, <2>2 DEF PopOff
  <2> QED
    BY <2>1, <2>2
<1>6. CASE Interrupt(c) \/ IntrReturn(c) \/ IntrOn(c)
  BY <1>6 DEF Interrupt, IntrReturn, IntrOn
<1> QED
  BY <1>1, <1>2, <1>3, <1>4, <1>5, <1>6 DEF Step

\* Every step keeps noff equal to the number of push_offs the hart has open.
LEMMA StepDepth ==
    ASSUME IInv, NEW c \in CPU, Step(c)
    PROVE  DepthInv'
<1> DEFINE Open(d) == Cardinality(held[d]) + IF Pending(d) THEN 1 ELSE 0
<1>0. TypeOK /\ DepthInv /\ CallOK(c) /\ Answered(c)
  BY DEF IInv, CallInv
<1>1. ASSUME NEW d \in CPU, d # c
      PROVE  IsFiniteSet(held'[d]) /\ noff'[d] = Open(d)'
  BY <1>0, <1>1, StepOthers DEF DepthInv, Pending
<1>2. IsFiniteSet(held[c]) /\ noff[c] = Open(c) /\ Cardinality(held[c]) \in Nat
  BY <1>0, FS_CardinalityType DEF DepthInv
<1>3. IsFiniteSet(held'[c]) /\ noff'[c] = Open(c)'
  <2>1. CASE SetCpu(c)
    <3>1. arg[c] \notin held[c] /\ held'[c] = held[c] \cup {arg[c]} /\ noff'[c] = noff[c]
      BY <1>0, <2>1 DEF SetCpu, At, Answered, TypeOK
    <3>2. Pending(c) /\ ~Pending(c)'
      BY <1>0, <2>1 DEF SetCpu, At, Pending, Return, Resume, NoFrame, TypeOK
    <3>3. /\ IsFiniteSet(held'[c])
          /\ Cardinality(held'[c]) = Cardinality(held[c]) + 1
      <4>1. IsFiniteSet(held[c])
        BY <1>2
      <4>2. /\ IsFiniteSet(held[c] \cup {arg[c]})
            /\ Cardinality(held[c] \cup {arg[c]}) =
                 IF arg[c] \in held[c] THEN Cardinality(held[c]) ELSE Cardinality(held[c]) + 1
        BY ONLY <4>1, FS_AddElement
      <4> QED
        BY ONLY <3>1, <4>2
    <3> QED
      BY <1>2, <3>1, <3>2, <3>3
  <2>2. CASE ClearCpu(c)
    <3>1. arg[c] \in held[c] /\ held'[c] = held[c] \ {arg[c]} /\ noff'[c] = noff[c]
      BY <1>0, <2>2 DEF ClearCpu, At, Answered, TypeOK
    <3>2. ~Pending(c) /\ Pending(c)'
      BY <1>0, <2>2 DEF ClearCpu, At, CallOK, Pending, Goto, TypeOK
    <3>3. /\ IsFiniteSet(held'[c])
          /\ Cardinality(held'[c]) = Cardinality(held[c]) - 1
      <4>1. IsFiniteSet(held[c])
        BY <1>2
      <4>2. /\ IsFiniteSet(held[c] \ {arg[c]})
            /\ Cardinality(held[c] \ {arg[c]}) =
                 IF arg[c] \in held[c] THEN Cardinality(held[c]) - 1 ELSE Cardinality(held[c])
        BY ONLY <4>1, FS_RemoveElement
      <4> QED
        BY ONLY <3>1, <4>2
    <3> QED
      BY <1>2, <3>1, <3>2, <3>3
  <2>3. CASE PushOff(c)
    <3>1. held' = held /\ noff'[c] = noff[c] + 1
      BY <1>0, <2>3 DEF PushOff, TypeOK, locks
    <3>2. ~Pending(c) /\ Pending(c)'
      BY <1>0, <2>3 DEF PushOff, At, Pending, Goto, TypeOK
    <3> QED
      BY <1>2, <3>1, <3>2
  <2>4. CASE PopOff(c)
    <3>1. held' = held /\ Pending(c)
      BY <2>4 DEF PopOff, At, Pending, locks
    <3>2. CASE sie[c] \/ noff[c] > 1
      <4>1. Pending(c)' /\ noff' = noff
        BY <1>0, <2>4, <3>2 DEF PopOff, At, Pending, Goto, TypeOK
      <4> QED
        BY <1>2, <3>1, <4>1
    <3>3. CASE ~(sie[c] \/ noff[c] > 1)
      <4>1. ~Pending(c)' /\ noff'[c] = noff[c] - 1
        BY <1>0, <2>4, <3>3 DEF PopOff, Return, Resume, NoFrame, Pending, TypeOK
      <4> QED
        BY <1>2, <3>1, <4>1
    <3> QED
      BY <3>2, <3>3
  <2>5. ASSUME ~SetCpu(c), ~ClearCpu(c), ~PushOff(c), ~PopOff(c)
        PROVE  held'[c] = held[c] /\ noff'[c] = noff[c] /\ (Pending(c)' <=> Pending(c))
    <3> USE DEF TypeOK, locks, frame, At, Pending
    <3>1. CASE CallCurproc(c) \/ \E l \in Lock : CallAcquire(c, l) \/ CallRelease(c, l)
      <4>1. held' = held /\ noff' = noff /\ pc[c] = "run"
        BY <3>1 DEF CallAcquire, CallRelease, CallCurproc, EnterPushOff
      <4>2. \/ pc'[c] = "off"
            \/ pc'[c] = "locked" /\ fn'[c] = "release"
        BY <1>0, <3>1 DEF CallAcquire, CallRelease, CallCurproc, EnterPushOff, Resume
      <4> QED
        BY ONLY <4>1, <4>2 DEF Pending
    <3>2. CASE ReadLocked(c) \/ ReadCpu(c)
      BY <1>0, <3>2 DEF ReadLocked, ReadCpu, AfterHolding, Goto, CallOK
    <3>3. CASE TestAndSet(c) \/ Unlock(c) \/ IntrOn(c)
      BY <1>0, <3>3 DEF TestAndSet, Unlock, IntrOn, Goto
    <3>4. CASE Interrupt(c)
      BY <1>0, <3>4 DEF Interrupt, Return, Resume, NoFrame
    <3>5. CASE IntrReturn(c)
      BY <1>0, <3>5 DEF IntrReturn, Resume, Frames
    <3> QED
      BY <2>5, <3>1, <3>2, <3>3, <3>4, <3>5 DEF Step
  <2> QED
    BY <1>2, <2>1, <2>2, <2>3, <2>4, <2>5
<1> QED
  BY <1>1, <1>3 DEF DepthInv

\* Every step keeps interrupts masked while a push_off is open.
LEMMA StepMask ==
    ASSUME IInv, NEW c \in CPU, Step(c)
    PROVE  MaskInv'
<1> DEFINE Masked(d) ==
        /\ noff[d] > 0 => ~sie[d]
        /\ pc[d] = "off" => old[d] = sie[d]
        /\ inIntr[d] /\ saved[d].pc = "off" => saved[d].old = TRUE
        /\ pc[d] # "panic pop_off - interruptible"
<1>0. TypeOK /\ DepthInv /\ MaskInv
  BY DEF IInv
<1>1. ASSUME NEW d \in CPU, d # c PROVE Masked(d)'
  BY <1>0, <1>1, StepOthers DEF MaskInv
<1>2. /\ Masked(c) /\ Cardinality(held[c]) \in Nat
      /\ noff[c] = Cardinality(held[c]) + IF Pending(c) THEN 1 ELSE 0
  BY <1>0, FS_CardinalityType DEF MaskInv, DepthInv
<1>3. Masked(c)'
  <2> USE DEF TypeOK, locks, frame, At
  <2>1. CASE CallCurproc(c) \/ \E l \in Lock : CallAcquire(c, l) \/ CallRelease(c, l)
    <3>1. /\ noff' = noff /\ sie' = sie /\ inIntr' = inIntr /\ saved' = saved
          /\ pc'[c] \in {"off", "locked"}
      BY <1>0, <2>1 DEF CallAcquire, CallRelease, CallCurproc, EnterPushOff, Resume
    <3>2. pc'[c] = "off" => old'[c] = sie[c]
      BY <1>0, <2>1 DEF CallAcquire, CallRelease, CallCurproc, EnterPushOff, Resume
    <3> QED
      BY <1>2, <3>1, <3>2
  <2>2. CASE PushOff(c)
    BY <1>0, <1>2, <2>2 DEF PushOff, Goto
  <2>3. CASE ReadLocked(c) \/ ReadCpu(c)
    BY <1>0, <1>2, <2>3 DEF ReadLocked, ReadCpu, AfterHolding, Goto
  <2>4. CASE TestAndSet(c) \/ SetCpu(c) \/ ClearCpu(c) \/ Unlock(c)
    BY <1>0, <1>2, <2>4 DEF TestAndSet, SetCpu, ClearCpu, Unlock, Goto, Return,
                            Resume, NoFrame
  <2>5. CASE PopOff(c)
    <3>0. Pending(c)
      BY <2>5 DEF PopOff, Pending
    <3>a. noff[c] = Cardinality(held[c]) + 1
      BY <1>2, <3>0
    <3>b. Cardinality(held[c]) \in Nat
      BY <1>2
    <3>c. noff[c] > 0
      BY <3>a, <3>b
    <3>1. noff[c] > 0 /\ ~sie[c]
      BY <1>2, <3>c
    <3>2. CASE noff[c] > 1
      BY <1>0, <1>2, <2>5, <3>1, <3>2 DEF PopOff, Goto
    <3>3. CASE ~(noff[c] > 1)
      <4>1. noff[c] = 1
        BY <1>0, <3>1, <3>3
      <4>2. noff'[c] = 0 /\ pc'[c] = "run" /\ inIntr' = inIntr /\ saved' = saved
        BY <1>0, <2>5, <3>1, <4>1 DEF PopOff, Return, Resume, NoFrame
      <4>3. (pc[c] = "off" => old[c] = sie[c])'
        BY <4>2
      <4>4. (inIntr[c] /\ saved[c].pc = "off" => saved[c].old = TRUE)'
        BY <1>2, <4>2
      <4>5. (noff[c] > 0 => ~sie[c])'
        BY <4>2
      <4> QED
        BY <4>2, <4>3, <4>4, <4>5
    <3> QED
      BY <3>2, <3>3
  <2>6. CASE IntrOn(c)
    BY <1>0, <1>2, <2>6 DEF IntrOn
  <2>7. CASE Interrupt(c)
    BY <1>0, <1>2, <2>7 DEF Interrupt, Return, Resume, NoFrame
  <2>8. CASE IntrReturn(c)
    <3>1. noff[c] = 0
      BY <1>2, <2>8, FS_EmptySet DEF IntrReturn, Pending
    <3>2. noff' = noff /\ sie'[c] = TRUE /\ inIntr'[c] = FALSE
      BY <1>0, <2>8 DEF IntrReturn
    <3>3. pc'[c] = saved[c].pc /\ old'[c] = saved[c].old /\ inIntr[c]
      BY <1>0, <2>8 DEF IntrReturn, Resume
    <3>4. saved[c].pc \in {"run", "off"}
      BY <1>0 DEF Frames
    <3>5. (pc[c] = "off" => old[c] = sie[c])'
      BY <1>2, <3>2, <3>3
    <3>6. (noff[c] > 0 => ~sie[c])'
      BY <3>1, <3>2
    <3> QED
      BY <3>2, <3>3, <3>4, <3>5, <3>6
  <2> QED
    BY <2>1, <2>2, <2>3, <2>4, <2>5, <2>6, <2>7, <2>8 DEF Step
<1> QED
  BY <1>1, <1>3 DEF MaskInv

-----------------------------------------------------------------------------
LEMMA InitIInv == Init => IInv
<1> SUFFICES ASSUME Init PROVE IInv
  OBVIOUS
<1>1. TypeOK
  BY DEF Init, TypeOK, NoFrame, PCs, Fns, Frames
<1>2. CallInv
  BY DEF Init, CallInv, CallOK, Answered, NoFrame
<1>3. WordInv
  BY NullAssumption DEF Init, WordInv, Possesses
<1>4. DepthInv
  BY FS_EmptySet DEF Init, DepthInv, Pending
<1>5. MaskInv
  BY DEF Init, MaskInv, NoFrame
<1> QED
  BY <1>1, <1>2, <1>3, <1>4, <1>5 DEF IInv

LEMMA NextIInv == IInv /\ [Next]_vars => IInv'
<1> SUFFICES ASSUME IInv, [Next]_vars PROVE IInv'
  OBVIOUS
<1>1. ASSUME NEW c \in CPU, Step(c) PROVE IInv'
  BY <1>1, StepType, StepCall, StepWord, StepDepth, StepMask DEF IInv
<1>2. CASE UNCHANGED vars
  <2> USE <1>2 DEF vars, locks, frame
  <2>1. TypeOK' /\ CallInv'
    BY DEF IInv, TypeOK, CallInv, CallOK, Answered
  <2>2. WordInv'
    BY DEF IInv, WordInv, Possesses
  <2>3. DepthInv'
    BY DEF IInv, DepthInv, Pending
  <2>4. MaskInv'
    BY DEF IInv, MaskInv
  <2> QED
    BY <2>1, <2>2, <2>3, <2>4 DEF IInv
<1> QED
  BY <1>1, <1>2 DEF Next

\* The strengthened invariant holds of the lock layer.
THEOREM Inductive == Spec => []IInv
  BY InitIInv, NextIInv, PTL DEF Spec

\* Every hart and every lock is always in a state of its type.
THEOREM TypeCorrect == Spec => []TypeOK
<1>1. IInv => TypeOK
  BY DEF IInv
<1> QED
  BY <1>1, Inductive, PTL

\* acquire/release give mutual exclusion: no lock is held by two harts.
THEOREM Exclusion == Spec => []MutualExclusion
<1>1. IInv => MutualExclusion
  BY DEF IInv, TypeOK, WordInv, Possesses, MutualExclusion
<1> QED
  BY <1>1, Inductive, PTL

\* holding answers exactly, although it reads the two words one after the other:
\* the two panics that rest on it come only from a lock misused by its caller,
\* and a hart never spins on a lock that it holds itself.
THEOREM HoldingIsExact == Spec => []HoldingExact
<1>1. IInv => HoldingExact
  BY DEF IInv, CallInv, Answered, HoldingExact, At
<1> QED
  BY <1>1, Inductive, PTL

\* No interrupt reaches a hart that holds or waits for a spin lock, and cpu->noff is the
\* depth of push_off nesting its comment says it is.
THEOREM Masked == Spec => []InterruptsOff
<1>1. IInv => InterruptsOff
  <2> SUFFICES ASSUME IInv, NEW c \in CPU
               PROVE  /\ held[c] # {} \/ pc[c] \in {"spin", "setcpu", "unlock"} => ~sie[c]
                      /\ pc[c] # "panic pop_off - interruptible"
                      /\ pc[c] = "run" => noff[c] = Cardinality(held[c])
    BY DEF InterruptsOff, At
  <2>1. /\ IsFiniteSet(held[c]) /\ Cardinality(held[c]) \in Nat
        /\ noff[c] = Cardinality(held[c]) + IF Pending(c) THEN 1 ELSE 0
    BY FS_CardinalityType DEF IInv, DepthInv
  <2>2. held[c] # {} => Cardinality(held[c]) # 0
    BY <2>1, FS_EmptySet
  <2>3. pc[c] \in {"spin", "setcpu", "unlock"} => Pending(c)
    BY DEF Pending
  <2>4. held[c] # {} \/ pc[c] \in {"spin", "setcpu", "unlock"} => noff[c] > 0
    BY <2>1, <2>2, <2>3
  <2>5. pc[c] = "run" => noff[c] = Cardinality(held[c])
    BY <2>1 DEF Pending
  <2> QED
    BY <2>4, <2>5 DEF IInv, MaskInv
<1> QED
  BY <1>1, Inductive, PTL

\* The outermost push_off records the SIE it clears, whatever handler ran between
\* its read of SIE and its intr_off.
THEOREM IntenaRecords == Spec => IntenaIsBefore
<1>1. IInv /\ [Next]_vars =>
        [\A c \in CPU : noff[c] = 0 /\ noff'[c] = 1 => intena'[c] = sie[c]]_vars
  <2> SUFFICES ASSUME IInv, NEW c \in CPU, Step(c),
                      NEW d \in CPU, noff[d] = 0, noff'[d] = 1
               PROVE  intena'[d] = sie[d]
    BY DEF Next
  <2>1. TypeOK /\ MaskInv
    BY DEF IInv
  <2>2. d = c
    BY <2>1, StepOthers
  <2>3. CASE PushOff(c)
    BY <2>1, <2>2, <2>3 DEF PushOff, At, TypeOK, MaskInv
  <2>4. CASE PopOff(c)
    <3>1. noff' = noff \/ noff' = [noff EXCEPT ![c] = @ - 1]
      BY <2>4 DEF PopOff
    <3>2. noff[c] = 0 /\ noff'[c] = 1 /\ noff \in [CPU -> Nat]
      BY <2>1, <2>2 DEF TypeOK
    <3> QED
      BY <3>1, <3>2
  <2>5. CASE ~PushOff(c) /\ ~PopOff(c)
    <3>1. noff' = noff
      BY <2>5 DEF Step, CallAcquire, CallRelease, CallCurproc, EnterPushOff,
         ReadLocked, ReadCpu, TestAndSet, SetCpu, ClearCpu, Unlock, IntrOn, Interrupt,
         IntrReturn
    <3> QED
      BY <3>1
  <2> QED
    BY <2>3, <2>4, <2>5
<1> QED
  BY <1>1, Inductive, PTL DEF Spec, IntenaIsBefore

-----------------------------------------------------------------------------
(* Page tables as trees *)

VAs == UserVas \cup {TRAPFRAME, TRAMPOLINE}

\* The tables below a root
Sub(pg) == {entry[pg][i].to : i \in Idx} \ {NULL}

Low(r) == UNION {Sub(q) : q \in Sub(r)}
TablesOf(r) == {r} \cup Sub(r) \cup Low(r)

\* r and what is below it is a tree
Inner(pg) == pg \in Pages /\ \A i \in Idx : entry[pg][i].to # Trampoline

Forks(pg) == \A i, j \in Idx :
    entry[pg][i].to = entry[pg][j].to /\ entry[pg][i].to # NULL => i = j

Tree(r) ==
    /\ Inner(r) /\ Forks(r)
    /\ \A q \in Sub(r) : Inner(q) /\ Forks(q)
    /\ \A q, s \in Sub(r) : q # s => Sub(q) \cap Sub(s) = {}
    /\ r \notin Sub(r) /\ r \notin Low(r) /\ Sub(r) \cap Low(r) = {}

\* What a thread has in hand: the page it has just taken, those it has to give back, and
\* the one it has taken for an area until that is mapped
Hand(t) ==
    LET inHand == IF loc[t].child = "none" /\ at[t] # "mapped" THEN {loc[t].pa} ELSE {}
    IN ({loc[t].new} \cup ToSet(loc[t].todo) \cup inHand) \ {NULL}

\* Where a thread is in proc_pagetable, MapPages and kfree
Making == {"trapframe", "Uvmcreate", "root", "nopage"}
Mapping == {"map", "link", "mapped", "unmapped"}
Freeing == {"kfree", "push", "kfreed"}
Entry == [to : 0..Trampoline, leaf : BOOLEAN]

\* walk without its loop: the first table, the second, the third
LEMMA WalkIs ==
    ASSUME NEW root, NEW va
    PROVE  LET e2 == entry[root][PX(2, va)]
               e1 == entry[e2.to][PX(1, va)]
           IN Walk(root, va) =
                IF ~IsTable(root) \/ e2 = Zero THEN [table |-> root, level |-> 2]
                ELSE IF ~IsTable(e2.to) \/ e1 = Zero THEN [table |-> e2.to, level |-> 1]
                ELSE [table |-> e1.to, level |-> 0]
<1> DEFINE Turn(level, up) ==
             LET pte == entry[up.table][PX(level + 1, va)]
             IN IF up.level # level + 1 \/ ~IsTable(up.table) \/ pte = Zero THEN up
                ELSE [table |-> pte.to, level |-> level]
           Is(D) == D = [level \in 0..2 |-> IF level = 2 THEN [table |-> root, level |-> 2]
                                           ELSE Turn(level, D[level + 1])]
           Down == CHOOSE D : Is(D)
           W2 == [table |-> root, level |-> 2]
           W1 == Turn(1, W2)
           W0 == Turn(0, W1)
<1>1. Is([level \in 0..2 |-> IF level = 2 THEN W2 ELSE IF level = 1 THEN W1 ELSE W0])
  <2> HIDE DEF Turn
  <2> DEFINE D == [level \in 0..2 |-> IF level = 2 THEN W2 ELSE IF level = 1 THEN W1 ELSE W0]
  <2>1. D[0 + 1] = W1 /\ D[1 + 1] = W2
    OBVIOUS
  <2>2. \A level \in 0..2 : D[level] = IF level = 2 THEN W2 ELSE Turn(level, D[level + 1])
    BY <2>1
  <2> QED
    BY <2>2
<1>2. Is(Down)
  <2> HIDE DEF Is
  <2> QED
    BY <1>1
<1>3. Down[2] = W2 /\ Down[1] = Turn(1, Down[1 + 1]) /\ Down[0] = Turn(0, Down[0 + 1])
  <2> HIDE DEF Turn, Down
  <2> QED
    BY <1>2
<1>4. Walk(root, va) = Down[0]
  BY DEF Walk
<1>5. Down[0] = W0
  <2> HIDE DEF Turn, Down
  <2> QED
    BY <1>3
<1> HIDE DEF Down
<1> QED
  BY <1>4, <1>5

EntryInv ==
    /\ entry \in [Pages -> [Idx -> Entry]]
    /\ \A pg \in Pages : \A i \in Idx : entry[pg][i].to = NULL => entry[pg][i] = Zero

Good(r) == Tree(r) /\ \A pg \in TablesOf(r) : mem[pg] = "zeroes"
Tab1(r, va) == entry[r][PX(2, va)].to
Tab0(r, va) == entry[Tab1(r, va)][PX(1, va)].to

\* What the constants say of page numbers
LEMMA Numbers ==
    /\ NPages \in Nat \ {0} /\ Fan \in Nat /\ Fan > 1 /\ NULL = 0 /\ Trampoline = NPages + 1
    /\ \A pg \in Pages : /\ pg # NULL /\ pg # Trampoline /\ pg \in 0..Trampoline
                         /\ pg \in 0..NPages
    /\ Trampoline # NULL /\ Trampoline \notin Pages /\ NULL \notin Pages
    /\ 0..Trampoline = Pages \cup {NULL, Trampoline} /\ 0..NPages = Pages \cup {NULL}
  BY MemoryAssumption DEF Pages, NULL, Trampoline

\* Where an address leads in a table is an entry of it
LEMMA IndexIs == \A va \in VAs \cup {0} : \A level \in 0..2 : PX(level, va) \in Idx
<1>1. VAs \cup {0} \subseteq Int
  <2> DEFINE M == Fan * Fan * Fan
  <2>1. Fan * Fan \in Int
    BY Numbers
  <2>2. M \in Int
    BY <2>1, Numbers
  <2>3. /\ UserVas = Lowest..M - 3 /\ Lowest \in Nat
        /\ TRAMPOLINE = M - 1 /\ TRAPFRAME = TRAMPOLINE - 1
    <3> HIDE DEF M
    <3>1. TRAMPOLINE = M - 1
      BY DEF TRAMPOLINE, M
    <3> QED
      BY <2>2, <3>1, MemoryAssumption DEF TRAPFRAME, UserVas
  <2> HIDE DEF M
  <2> QED
    BY <2>2, <2>3 DEF VAs
<1>2. \A n \in Int : n % Fan \in Idx
  BY Numbers DEF Idx
<1>3. \A n \in Int : n \div Fan \in Int /\ n \div (Fan * Fan) \in Int /\ n \div 1 \in Int
  BY Numbers
<1> QED
  BY <1>1, <1>2, <1>3 DEF PX

\* The only entry that refers to nothing is zero
LEMMA ZeroIs == ASSUME EntryInv, NEW pg \in Pages, NEW i \in Idx
                PROVE  /\ entry[pg][i] = Zero <=> entry[pg][i].to = NULL
                       /\ entry[pg][i].to \in 0..Trampoline
<1>1. entry[pg][i] \in Entry
  BY DEF EntryInv
<1>2. Zero.to = NULL
  BY DEF Zero
<1>3. entry[pg][i].to = NULL => entry[pg][i] = Zero
  BY DEF EntryInv
<1> QED
  BY <1>1, <1>2, <1>3 DEF Entry

\* The tables on the way to an address
LEMMA TreeParts ==
    ASSUME NEW r, Tree(r), EntryInv, NEW va \in VAs
    PROVE  /\ r \in Pages /\ r \in TablesOf(r)
           /\ Tab1(r, va) \in Pages \cup {NULL}
           /\ Tab1(r, va) # NULL => Tab1(r, va) \in Sub(r) /\ Tab1(r, va) \in TablesOf(r)
                                    /\ Tab0(r, va) \in Pages \cup {NULL}
           /\ Tab1(r, va) # NULL /\ Tab0(r, va) # NULL =>
                Tab0(r, va) \in Low(r) /\ Tab0(r, va) \in TablesOf(r)
<1>1. PX(2, va) \in Idx /\ PX(1, va) \in Idx /\ PX(0, va) \in Idx
  BY IndexIs
<1>2. r \in Pages /\ r \in TablesOf(r)
  BY DEF Tree, Inner, TablesOf
<1>3. Tab1(r, va) \in Pages \cup {NULL}
  BY <1>1, <1>2, ZeroIs, Numbers DEF Tree, Inner, Tab1
<1>4. ASSUME Tab1(r, va) # NULL
      PROVE  /\ Tab1(r, va) \in Sub(r) /\ Tab1(r, va) \in TablesOf(r)
             /\ Tab0(r, va) \in Pages \cup {NULL}
             /\ Tab0(r, va) # NULL => Tab0(r, va) \in Low(r) /\ Tab0(r, va) \in TablesOf(r)
  <2>1. Tab1(r, va) \in Sub(r)
    BY <1>1, <1>4 DEF Sub, Tab1
  <2>2. Tab0(r, va) \in Pages \cup {NULL}
    BY <1>1, <1>3, <1>4, <2>1, ZeroIs, Numbers DEF Tree, Inner, Tab0
  <2>3. Tab0(r, va) # NULL => Tab0(r, va) \in Sub(Tab1(r, va))
    BY <1>1, <2>1 DEF Sub, Tab0
  <2> QED
    BY <2>1, <2>2, <2>3 DEF Low, TablesOf
<1> QED
  BY <1>2, <1>3, <1>4

WalkShape(r, va) ==
    /\ Walk(r, va) = IF Tab1(r, va) = NULL THEN [table |-> r, level |-> 2]
                     ELSE IF Tab0(r, va) = NULL THEN [table |-> Tab1(r, va), level |-> 1]
                     ELSE [table |-> Tab0(r, va), level |-> 0]
    /\ Lookup(r, va) = IF Tab1(r, va) = NULL \/ Tab0(r, va) = NULL THEN NULL
                       ELSE entry[Tab0(r, va)][PX(0, va)].to

\* walk in a tree ends at the last table on the way
LEMMA WalkTree ==
    ASSUME NEW r, Good(r), EntryInv, NEW va \in VAs
    PROVE  /\ Walk(r, va) = IF Tab1(r, va) = NULL THEN [table |-> r, level |-> 2]
                            ELSE IF Tab0(r, va) = NULL THEN [table |-> Tab1(r, va),
                                level |-> 1]
                            ELSE [table |-> Tab0(r, va), level |-> 0]
           /\ Lookup(r, va) = IF Tab1(r, va) = NULL \/ Tab0(r, va) = NULL THEN NULL
                              ELSE entry[Tab0(r, va)][PX(0, va)].to
<1>1. PX(2, va) \in Idx /\ PX(1, va) \in Idx /\ PX(0, va) \in Idx
  BY IndexIs
<1>2. Tree(r) /\ IsTable(r) /\ r # NULL
  BY TreeParts, Numbers DEF Good, IsTable
<1>3. Tab1(r, va) = NULL <=> entry[r][PX(2, va)] = Zero
  BY <1>1, <1>2, TreeParts, ZeroIs DEF Tab1
<1>4. Tab1(r, va) # NULL => /\ IsTable(Tab1(r, va))
                            /\ (Tab0(r, va) = NULL <=> entry[Tab1(r, va)][PX(1, va)] = Zero)
  BY <1>1, <1>2, TreeParts, ZeroIs DEF Tab0, Good, IsTable
<1>5. Tab1(r, va) # NULL /\ Tab0(r, va) # NULL => IsTable(Tab0(r, va))
  BY <1>2, TreeParts DEF Good, IsTable
<1>6. Walk(r, va) = IF Tab1(r, va) = NULL THEN [table |-> r, level |-> 2]
                    ELSE IF Tab0(r, va) = NULL THEN [table |-> Tab1(r, va), level |-> 1]
                    ELSE [table |-> Tab0(r, va), level |-> 0]
  BY <1>2, <1>3, <1>4, WalkIs DEF Tab1, Tab0
<1>7. Lookup(r, va) = IF Tab1(r, va) = NULL \/ Tab0(r, va) = NULL THEN NULL
                      ELSE entry[Tab0(r, va)][PX(0, va)].to
  <2>1. ~IsTable(NULL)
    BY Numbers DEF IsTable
  <2> QED
    BY <1>2, <1>4, <1>5, <2>1 DEF Lookup, To, Tab1, Tab0
<1> QED
  BY <1>6, <1>7

\* ... in this state and in the next
LEMMA WalkNow == EntryInv => \A r : Good(r) => \A va \in VAs : WalkShape(r, va)
  BY WalkTree DEF WalkShape

LEMMA WalkNext == (EntryInv => \A r : Good(r) => \A va \in VAs : WalkShape(r, va))'
  BY WalkNow, PTL

-----------------------------------------------------------------------------
(* Recursive functions *)

\* A set of numbers that is not empty has a least one
LEMMA Least == ASSUME NEW S, S \subseteq Nat, S # {} PROVE \E m \in S : \A k \in S : m <= k
<1>1. IsWellFoundedOn(OpToRel(<, Nat), Nat)
  BY NatLessThanWellFounded
<1>2. PICK m \in S : \A k \in S : ~ (<<k, m>> \in OpToRel(<, Nat))
  BY <1>1, WFMin
<1>3. \A k \in S : <<k, m>> \in OpToRel(<, Nat) <=> k < m
  BY DEF OpToRel
<1>4. ASSUME NEW k \in S PROVE m <= k
  <2>1. ~(k < m) /\ k \in Nat /\ m \in Nat
    BY <1>2, <1>3
  <2> QED
    BY <2>1
<1> QED
  BY <1>4

\* Induction over the numbers up to n
LEMMA UpTo == ASSUME NEW n \in Nat, NEW S, 0 \in S, \A k \in 0..n - 1 : k \in S => k + 1 \in S
              PROVE  0..n \subseteq S
<1> DEFINE T == 0..n \ S
<1> SUFFICES ASSUME T # {} PROVE FALSE
  OBVIOUS
<1>1. PICK m \in T : \A k \in T : m <= k
  <2>1. T \subseteq Nat
    OBVIOUS
  <2> HIDE DEF T
  <2> QED
    BY <2>1, Least
<1>2. m \in 1..n /\ m - 1 \in 0..n - 1 /\ m - 1 \notin T
  BY <1>1
<1> QED
  BY <1>1, <1>2

Flattens(f, s, n) == f = [i \in 1..n |-> IF i = 1 THEN s[i] ELSE f[i - 1] \o s[i]]

\* FlattenSeq is defined by recursion on the length of the sequence
LEMMA FlattenExists ==
    ASSUME NEW s, NEW n \in Nat
    PROVE  \E f : Flattens(f, s, n)
<1> DEFINE K == {k \in 0..n : \E f : Flattens(f, s, k)}
<1>1. 0 \in K
  <2>1. Flattens(<<>>, s, 0)
    BY DEF Flattens
  <2> QED
    BY <2>1
<1>2. ASSUME NEW k \in 0..n - 1, k \in K PROVE k + 1 \in K
  <2>1. PICK f : Flattens(f, s, k)
    BY <1>2
  <2>0. \A j \in 1..k : f[j] = IF j = 1 THEN s[j] ELSE f[j - 1] \o s[j]
    BY <2>1 DEF Flattens
  <2> DEFINE g == [i \in 1..k + 1 |-> IF i = 1 THEN s[i]
                                     ELSE IF i <= k THEN f[i] ELSE f[k] \o s[i]]
  <2>a. \A j \in 1..k + 1 : g[j] = IF j = 1 THEN s[j]
                                   ELSE IF j <= k THEN f[j] ELSE f[k] \o s[j]
    OBVIOUS
  <2>b. DOMAIN g = 1..k + 1 /\ g = [i \in 1..k + 1 |-> g[i]]
    OBVIOUS
  <2> HIDE DEF g
  <2>2. ASSUME NEW i \in 1..k + 1
        PROVE  g[i] = IF i = 1 THEN s[i] ELSE g[i - 1] \o s[i]
    <3>1. CASE i = 1
      BY <2>a, <3>1
    <3>2. CASE i # 1 /\ i <= k
      <4>1. i \in 1..k /\ i - 1 \in 1..k /\ i - 1 \in 1..k + 1
        BY <3>2
      <4>2. g[i] = f[i] /\ g[i - 1] = f[i - 1]
        BY <2>0, <2>a, <3>2, <4>1
      <4>3. f[i] = f[i - 1] \o s[i]
        BY <2>0, <3>2, <4>1
      <4> QED
        BY <3>2, <4>2, <4>3
    <3>3. CASE i # 1 /\ ~(i <= k)
      <4>1. i - 1 = k /\ k \in 1..k + 1 /\ k # 0
        BY <3>3
      <4>2. g[i] = f[k] \o s[i]
        BY <2>a, <3>3
      <4>3. g[k] = f[k]
        BY <2>0, <2>a, <4>1
      <4> QED
        BY <3>3, <4>1, <4>2, <4>3
    <3> QED
      BY <3>1, <3>2, <3>3
  <2>3. Flattens(g, s, k + 1)
    <3>1. g = [i \in 1..k + 1 |-> IF i = 1 THEN s[i] ELSE g[i - 1] \o s[i]]
      BY <2>2, <2>b
    <3> QED
      BY <3>1 DEF Flattens
  <2> QED
    BY <2>3
<1> HIDE DEF K
<1>3. 0..n \subseteq K
  BY <1>1, <1>2, UpTo
<1>4. n \in K
  BY <1>3
<1> QED
  BY <1>4 DEF K

\* ... and appends the sequences to each other
LEMMA FlattenIs ==
    ASSUME NEW s, Len(s) \in Nat \ {0}
    PROVE  \E f : Flattens(f, s, Len(s)) /\ FlattenSeq(s) = f[Len(s)]
<1> DEFINE f == CHOOSE f : f = [i \in 1..Len(s) |-> IF i = 1 THEN s[i] ELSE f[i - 1] \o s[i]]
<1>1. \E g : g = [i \in 1..Len(s) |-> IF i = 1 THEN s[i] ELSE g[i - 1] \o s[i]]
  BY FlattenExists DEF Flattens
<1>2. f = [i \in 1..Len(s) |-> IF i = 1 THEN s[i] ELSE f[i - 1] \o s[i]]
  BY <1>1
<1>3. FlattenSeq(s) = f[Len(s)]
  BY DEF FlattenSeq
<1> HIDE DEF f
<1> QED
  BY <1>2, <1>3 DEF Flattens

\* One sequence after another
LEMMA ConcatSets ==
    ASSUME NEW S, NEW a \in Seq(S), NEW b \in Seq(S)
    PROVE  /\ a \o b \in Seq(S) /\ ToSet(a \o b) = ToSet(a) \cup ToSet(b)
           /\ IsInjective(a) /\ IsInjective(b) /\ ToSet(a) \cap ToSet(b) = {} =>
                IsInjective(a \o b)
<1> DEFINE c == a \o b
<1>1. /\ c \in Seq(S) /\ DOMAIN c = 1..Len(a) + Len(b) /\ DOMAIN a = 1..Len(a)
      /\ DOMAIN b = 1..Len(b)
      /\ Len(a) \in Nat /\ Len(b) \in Nat
  OBVIOUS
<1>2. \A i \in 1..Len(a) + Len(b) : c[i] = IF i <= Len(a) THEN a[i] ELSE b[i - Len(a)]
  OBVIOUS
<1> HIDE DEF c
<1>3. ToSet(c) \subseteq ToSet(a) \cup ToSet(b)
  <2> SUFFICES ASSUME NEW i \in DOMAIN c PROVE c[i] \in ToSet(a) \cup ToSet(b)
    BY DEF ToSet
  <2>1. CASE i <= Len(a)
    BY <1>1, <1>2, <2>1 DEF ToSet
  <2>2. CASE ~(i <= Len(a))
    <3>1. i - Len(a) \in DOMAIN b /\ c[i] = b[i - Len(a)]
      BY <1>1, <1>2, <2>2
    <3> QED
      BY <3>1 DEF ToSet
  <2> QED
    BY <2>1, <2>2
<1>4. ToSet(a) \subseteq ToSet(c)
  BY <1>1, <1>2 DEF ToSet
<1>5. ToSet(b) \subseteq ToSet(c)
  <2> SUFFICES ASSUME NEW i \in 1..Len(b) PROVE b[i] \in ToSet(c)
    BY <1>1 DEF ToSet
  <2>1. i + Len(a) \in 1..Len(a) + Len(b) /\ ~(i + Len(a) <= Len(a))
        /\ (i + Len(a)) - Len(a) = i
    BY <1>1
  <2>2. i + Len(a) \in DOMAIN c /\ c[i + Len(a)] = b[i]
    BY <1>1, <1>2, <2>1
  <2> QED
    BY <2>2 DEF ToSet
<1>6. ASSUME IsInjective(a), IsInjective(b), ToSet(a) \cap ToSet(b) = {} PROVE IsInjective(c)
  <2> SUFFICES ASSUME NEW i \in DOMAIN c, NEW j \in DOMAIN c, c[i] = c[j], i < j PROVE FALSE
    BY <1>1 DEF IsInjective
  <2>1. CASE j <= Len(a)
    BY <1>1, <1>2, <1>6, <2>1 DEF IsInjective
  <2>2. CASE i > Len(a)
    <3>1. i - Len(a) \in DOMAIN b /\ j - Len(a) \in DOMAIN b /\ b[i - Len(a)] = b[j - Len(a)]
      BY <1>1, <1>2, <2>2
    <3> QED
      BY <1>1, <1>6, <3>1 DEF IsInjective
  <2>3. CASE i <= Len(a) /\ j > Len(a)
    <3>1. i \in DOMAIN a /\ j - Len(a) \in DOMAIN b /\ a[i] = b[j - Len(a)]
      BY <1>1, <1>2, <2>3
    <3>2. a[i] \in ToSet(a) /\ b[j - Len(a)] \in ToSet(b)
      BY <3>1 DEF ToSet
    <3> QED
      BY <1>6, <3>1, <3>2
  <2> QED
    BY <1>1, <2>1, <2>2, <2>3
<1> QED
  BY <1>1, <1>3, <1>4, <1>5, <1>6 DEF c

\* What is in the sequences is in the whole, once if they share nothing
LEMMA FlattenSets ==
    ASSUME NEW S, NEW n \in Nat \ {0}, NEW s \in [1..n -> Seq(S)]
    PROVE  /\ FlattenSeq(s) \in Seq(S)
           /\ ToSet(FlattenSeq(s)) = UNION {ToSet(s[i]) : i \in 1..n}
           /\ (/\ \A i \in 1..n : IsInjective(s[i])
               /\ \A i, j \in 1..n : i # j => ToSet(s[i]) \cap ToSet(s[j]) = {})
              => IsInjective(FlattenSeq(s))
<1> DEFINE Distinct == /\ \A i \in 1..n : IsInjective(s[i])
                       /\ \A i, j \in 1..n : i # j => ToSet(s[i]) \cap ToSet(s[j]) = {}
<1>1. Len(s) = n
  OBVIOUS
<1>2. PICK f : Flattens(f, s, n) /\ FlattenSeq(s) = f[n]
  BY <1>1, FlattenIs
<1>3. \A i \in 1..n : f[i] = IF i = 1 THEN s[i] ELSE f[i - 1] \o s[i]
  BY <1>2 DEF Flattens
<1> DEFINE Fits(k) == /\ f[k] \in Seq(S)
                      /\ ToSet(f[k]) = UNION {ToSet(s[i]) : i \in 1..k}
                      /\ Distinct => IsInjective(f[k])
           K == {k \in 0..n : k = 0 \/ Fits(k)}
<1>4. 0 \in K
  OBVIOUS
<1>5. ASSUME NEW k \in 0..n - 1, k \in K PROVE k + 1 \in K
  <2>1. k + 1 \in 1..n /\ s[k + 1] \in Seq(S)
    OBVIOUS
  <2>2. CASE k = 0
    <3>1. f[1] = s[1] /\ 1 \in 1..n
      BY <1>3
    <3>2. UNION {ToSet(s[i]) : i \in 1..1} = ToSet(s[1])
      OBVIOUS
    <3> QED
      BY <2>1, <2>2, <3>1, <3>2
  <2>3. CASE k # 0
    <3>1. Fits(k)
      BY <1>5, <2>3
    <3>2. f[k + 1] = f[k] \o s[k + 1]
      <4>1. (k + 1) - 1 = k /\ k + 1 # 1
        BY <2>3
      <4> QED
        BY <1>3, <2>1, <4>1
    <3>3. UNION {ToSet(s[i]) : i \in 1..k + 1}
               = (UNION {ToSet(s[i]) : i \in 1..k}) \cup ToSet(s[k + 1])
      <4>1. 1..k + 1 = 1..k \cup {k + 1}
        BY <2>1
      <4> QED
        BY <4>1
    <3>4. ASSUME Distinct PROVE ToSet(f[k]) \cap ToSet(s[k + 1]) = {}
      <4>1. \A i \in 1..k : i \in 1..n /\ i # k + 1
        OBVIOUS
      <4> QED
        BY <2>1, <3>1, <3>4, <4>1
    <3>5. Fits(k + 1)
      <4> HIDE DEF K
      <4>1. f[k] \in Seq(S) /\ ToSet(f[k]) = UNION {ToSet(s[i]) : i \in 1..k}
        BY <3>1
      <4>2. Distinct => IsInjective(f[k]) /\ IsInjective(s[k + 1])
        BY <2>1, <3>1
      <4> HIDE DEF Distinct
      <4>3. /\ f[k] \o s[k + 1] \in Seq(S)
            /\ ToSet(f[k] \o s[k + 1]) = ToSet(f[k]) \cup ToSet(s[k + 1])
            /\ Distinct => IsInjective(f[k] \o s[k + 1])
        BY <2>1, <3>4, <4>1, <4>2, ConcatSets
      <4> QED
        BY <3>2, <3>3, <4>1, <4>3
    <3> QED
      BY <2>1, <3>5
  <2> QED
    BY <2>2, <2>3
<1> HIDE DEF K
<1>6. 0..n \subseteq K
  BY <1>4, <1>5, UpTo
<1>7. n \in K /\ n # 0
  BY <1>6
<1> QED
  BY <1>2, <1>7 DEF K

-----------------------------------------------------------------------------
(* The tables that freewalk frees *)

\* What freewalk frees for a table: what is below it, then itself
Post(pg, B) == Append(FlattenSeq([i \in 1..Fan |-> IF entry[pg][i - 1] = Zero THEN <<>>
                                                   ELSE B[entry[pg][i - 1].to]]), pg)

\* A table and what is below it, in the order of freewalk
LEMMA PostIs ==
    ASSUME NEW pg, Inner(pg), Forks(pg), EntryInv, NEW B,
           \A q \in Sub(pg) : /\ B[q] \in Seq(Pages) /\ IsInjective(B[q])
                              /\ pg \notin ToSet(B[q]),
           \A q, u \in Sub(pg) : q # u => ToSet(B[q]) \cap ToSet(B[u]) = {}
    PROVE  /\ Post(pg, B) \in Seq(Pages) /\ IsInjective(Post(pg, B))
           /\ ToSet(Post(pg, B)) = {pg} \cup UNION {ToSet(B[q]) : q \in Sub(pg)}
<1> DEFINE s == [i \in 1..Fan |-> IF entry[pg][i - 1] = Zero THEN <<>>
                                  ELSE B[entry[pg][i - 1].to]]
<1>1. pg \in Pages /\ Fan \in Nat \ {0}
  BY Numbers DEF Inner
<1>2. \A i \in 1..Fan : i - 1 \in Idx
  BY Numbers DEF Idx
<1>3. \A i \in 1..Fan : entry[pg][i - 1] # Zero =>
        entry[pg][i - 1].to \in Sub(pg) /\ s[i] = B[entry[pg][i - 1].to]
  BY <1>1, <1>2, ZeroIs DEF Sub
<1>4. \A i \in 1..Fan : entry[pg][i - 1] = Zero => s[i] = <<>>
  OBVIOUS
<1>5. ToSet(<<>>) = {} /\ IsInjective(<<>>) /\ <<>> \in Seq(Pages)
  BY DEF ToSet, IsInjective
<1>6. s \in [1..Fan -> Seq(Pages)]
  <2>1. \A i \in 1..Fan : s[i] \in Seq(Pages)
    BY <1>3, <1>4, <1>5
  <2> QED
    BY <2>1
<1> HIDE DEF s
<1>7. \A i \in 1..Fan : IsInjective(s[i]) /\ pg \notin ToSet(s[i])
  BY <1>3, <1>4, <1>5
<1>8. \A i, j \in 1..Fan : i # j => ToSet(s[i]) \cap ToSet(s[j]) = {}
  <2> SUFFICES ASSUME NEW i \in 1..Fan, NEW j \in 1..Fan, i # j,
                      entry[pg][i - 1] # Zero, entry[pg][j - 1] # Zero
               PROVE  ToSet(s[i]) \cap ToSet(s[j]) = {}
    BY <1>4, <1>5
  <2>1. i - 1 \in Idx /\ j - 1 \in Idx /\ i - 1 # j - 1
    BY <1>2
  <2>2. entry[pg][i - 1].to # entry[pg][j - 1].to
    BY <1>1, <2>1, ZeroIs DEF Forks
  <2> QED
    BY <1>3, <2>2
<1>9. UNION {ToSet(s[i]) : i \in 1..Fan} = UNION {ToSet(B[q]) : q \in Sub(pg)}
  <2>1. ASSUME NEW q \in Sub(pg) PROVE \E i \in 1..Fan : s[i] = B[q]
    <3>1. PICK k \in Idx : entry[pg][k].to = q /\ q # NULL
      BY DEF Sub
    <3>2. k + 1 \in 1..Fan /\ (k + 1) - 1 = k
      BY Numbers DEF Idx
    <3>3. entry[pg][k] # Zero
      BY <1>1, <3>1, ZeroIs
    <3> QED
      BY <1>3, <3>1, <3>2, <3>3
  <2>2. ASSUME NEW i \in 1..Fan PROVE ToSet(s[i]) = {} \/ \E q \in Sub(pg) : s[i] = B[q]
    BY <1>3, <1>4, <1>5
  <2> QED
    BY <2>1, <2>2
<1>10. /\ FlattenSeq(s) \in Seq(Pages) /\ IsInjective(FlattenSeq(s))
       /\ ToSet(FlattenSeq(s)) = UNION {ToSet(B[q]) : q \in Sub(pg)}
  <2>1. /\ ToSet(FlattenSeq(s)) = UNION {ToSet(s[i]) : i \in 1..Fan}
        /\ FlattenSeq(s) \in Seq(Pages)
    BY <1>1, <1>6, FlattenSets
  <2>2. IsInjective(FlattenSeq(s))
    BY <1>1, <1>6, <1>7, <1>8, FlattenSets
  <2> QED
    BY <1>9, <2>1, <2>2
<1>11. pg \notin ToSet(FlattenSeq(s))
  BY <1>7, <1>9, <1>10
<1>12. <<pg>> \in Seq(Pages) /\ ToSet(<<pg>>) = {pg} /\ IsInjective(<<pg>>)
  <2>1. <<pg>> \in Seq(Pages) /\ DOMAIN <<pg>> = {1} /\ <<pg>>[1] = pg
    BY <1>1
  <2> QED
    BY <2>1 DEF ToSet, IsInjective
<1>13. Post(pg, B) = FlattenSeq(s) \o <<pg>>
  BY <1>1, <1>10, AppendIsConcat DEF Post, s
<1>14. ToSet(FlattenSeq(s)) \cap ToSet(<<pg>>) = {}
  BY <1>11, <1>12
<1>15. /\ FlattenSeq(s) \o <<pg>> \in Seq(Pages) /\ IsInjective(FlattenSeq(s) \o <<pg>>)
       /\ ToSet(FlattenSeq(s) \o <<pg>>) = ToSet(FlattenSeq(s)) \cup ToSet(<<pg>>)
  <2> DEFINE a == FlattenSeq(s)
             b == <<pg>>
  <2>1. a \in Seq(Pages) /\ IsInjective(a) /\ b \in Seq(Pages) /\ IsInjective(b)
        /\ ToSet(a) \cap ToSet(b) = {}
    BY <1>10, <1>12, <1>14
  <2> HIDE DEF a, b
  <2>2. /\ a \o b \in Seq(Pages) /\ IsInjective(a \o b)
        /\ ToSet(a \o b) = ToSet(a) \cup ToSet(b)
    BY <2>1, ConcatSets
  <2> QED
    BY <2>2 DEF a, b
<1> QED
  BY <1>10, <1>12, <1>13, <1>15

\* freewalk frees the tables of a root, each of them once
LEMMA TablesIs ==
    ASSUME NEW r, Tree(r), EntryInv
    PROVE  /\ Tables(r) \in Seq(Pages) /\ IsInjective(Tables(r))
           /\ ToSet(Tables(r)) = TablesOf(r)
<1> DEFINE B0 == [pg \in Pages |-> <<pg>>]
           B1 == [pg \in Pages |-> Post(pg, B0)]
           B2 == [pg \in Pages |-> Post(pg, B1)]
           Is(B) == B = [level \in 0..2 |-> [pg \in Pages |->
                      IF level = 0 THEN <<pg>> ELSE Post(pg, B[level - 1])]]
           B == CHOOSE B : Is(B)
<1>1. Is([level \in 0..2 |-> IF level = 0 THEN B0 ELSE IF level = 1 THEN B1 ELSE B2])
  <2> DEFINE D == [level \in 0..2 |-> IF level = 0 THEN B0 ELSE IF level = 1 THEN B1 ELSE B2]
  <2> HIDE DEF B1, B2
  <2>1. D[0] = B0 /\ D[1] = B1 /\ D[2] = B2
    OBVIOUS
  <2>2. D[1 - 1] = B0 /\ D[2 - 1] = B1
    BY <2>1
  <2> HIDE DEF D
  <2>3. \A level \in 0..2 : D[level] = [pg \in Pages |->
              IF level = 0 THEN <<pg>> ELSE Post(pg, D[level - 1])]
    <3>1. \A level \in 0..2 : level = 0 \/ level = 1 \/ level = 2
      OBVIOUS
    <3>2. D[0] = [pg \in Pages |-> IF 0 = 0 THEN <<pg>> ELSE Post(pg, D[0 - 1])]
      BY <2>1
    <3>3. D[1] = [pg \in Pages |-> IF 1 = 0 THEN <<pg>> ELSE Post(pg, D[1 - 1])]
      BY <2>1, <2>2 DEF B1
    <3>4. D[2] = [pg \in Pages |-> IF 2 = 0 THEN <<pg>> ELSE Post(pg, D[2 - 1])]
      BY <2>1, <2>2 DEF B2
    <3> QED
      BY <3>1, <3>2, <3>3, <3>4
  <2>4. D = [level \in 0..2 |-> D[level]]
    BY DEF D
  <2>5. Is(D)
    BY <2>3, <2>4
  <2> QED
    BY <2>5 DEF D
<1>2. Is(B)
  <2> HIDE DEF Is
  <2> QED
    BY <1>1
<1>3. Tables(r) = B[2][r]
  BY DEF Tables, Post
<1> HIDE DEF B
<1>4. B[2] = B2
  <2>1. B[0] = B0
    BY <1>2
  <2>2. B[1] = [pg \in Pages |-> Post(pg, B[1 - 1])]
    BY <1>2
  <2>3. B[2] = [pg \in Pages |-> Post(pg, B[2 - 1])]
    BY <1>2
  <2> QED
    BY <2>1, <2>2, <2>3
<1>5. r \in Pages /\ Inner(r) /\ Forks(r) /\ \A q \in Sub(r) :
          q \in Pages /\ Inner(q) /\ Forks(q)
  BY DEF Tree, Inner
<1>6. ASSUME NEW q \in Sub(r)
      PROVE  /\ B1[q] \in Seq(Pages) /\ IsInjective(B1[q])
             /\ ToSet(B1[q]) = {q} \cup Sub(q)
  <2>1. Sub(q) \subseteq Pages
    BY <1>5, ZeroIs, Numbers DEF Sub, Inner
  <2>2. \A u \in Sub(q) : /\ B0[u] = <<u>> /\ <<u>> \in Seq(Pages) /\ IsInjective(<<u>>)
                          /\ ToSet(<<u>>) = {u}
    <3> SUFFICES ASSUME NEW u \in Sub(q)
                 PROVE  /\ B0[u] = <<u>> /\ <<u>> \in Seq(Pages) /\ IsInjective(<<u>>)
                        /\ ToSet(<<u>>) = {u}
      OBVIOUS
    <3>1. <<u>> \in Seq(Pages) /\ DOMAIN <<u>> = {1} /\ <<u>>[1] = u /\ u \in Pages
      BY <2>1
    <3> QED
      BY <3>1 DEF ToSet, IsInjective
  <2>3. q \notin Sub(q)
    BY DEF Tree, Low
  <2>a. \A u \in Sub(q) : B0[u] \in Seq(Pages) /\ IsInjective(B0[u]) /\ q \notin ToSet(B0[u])
    BY <2>2, <2>3
  <2>b. \A u, v \in Sub(q) : u # v => ToSet(B0[u]) \cap ToSet(B0[v]) = {}
    <3>1. \A u \in Sub(q) : ToSet(B0[u]) = {u}
      BY <2>2
    <3> HIDE DEF B0
    <3> QED
      BY <3>1
  <2>c. UNION {ToSet(B0[u]) : u \in Sub(q)} = Sub(q)
    <3>1. \A u \in Sub(q) : ToSet(B0[u]) = {u}
      BY <2>2
    <3> HIDE DEF B0
    <3> QED
      BY <3>1
  <2> HIDE DEF B0
  <2>4. /\ Post(q, B0) \in Seq(Pages) /\ IsInjective(Post(q, B0))
        /\ ToSet(Post(q, B0)) = {q} \cup UNION {ToSet(B0[u]) : u \in Sub(q)}
    BY <1>5, <2>a, <2>b, PostIs
  <2>6. B1[q] = Post(q, B0)
    BY <1>5
  <2> QED
    BY <2>4, <2>c, <2>6
<1> HIDE DEF B1
<1>7. \A q \in Sub(r) : r \notin ToSet(B1[q])
  <2> SUFFICES ASSUME NEW q \in Sub(r) PROVE r # q /\ r \notin Sub(q)
    BY <1>6
  <2> QED
    BY DEF Tree, Low
<1>8. \A q, u \in Sub(r) : q # u => ToSet(B1[q]) \cap ToSet(B1[u]) = {}
  <2> SUFFICES ASSUME NEW q \in Sub(r), NEW u \in Sub(r), q # u
               PROVE  ({q} \cup Sub(q)) \cap ({u} \cup Sub(u)) = {}
    BY <1>6
  <2>1. Sub(q) \cap Sub(u) = {} /\ q \notin Sub(u) /\ u \notin Sub(q)
    BY DEF Tree, Low
  <2> QED
    BY <2>1
<1>9. /\ Post(r, B1) \in Seq(Pages) /\ IsInjective(Post(r, B1))
      /\ ToSet(Post(r, B1)) = {r} \cup UNION {ToSet(B1[q]) : q \in Sub(r)}
  BY <1>5, <1>6, <1>7, <1>8, PostIs
<1>10. {r} \cup UNION {ToSet(B1[q]) : q \in Sub(r)} = TablesOf(r)
  BY <1>6 DEF TablesOf, Low
<1>11. Tables(r) = Post(r, B1)
  BY <1>3, <1>4, <1>5
<1> QED
  BY <1>9, <1>10, <1>11

-----------------------------------------------------------------------------
(* Addresses *)

\* Multiples of F are F or more apart
LEMMA FarMultiple ==
    ASSUME NEW b \in Nat \ {0}, NEW k \in Int, k >= 1 PROVE b * k >= b
<1>1. b * k = b * (k - 1) + b /\ b * (k - 1) >= 0
  OBVIOUS
<1> QED
  BY <1>1

\* Division with remainder has one result
LEMMA OneDivision ==
    ASSUME NEW b \in Nat \ {0}, NEW q \in Int, NEW s \in 0..b - 1, NEW x \in Int, x = b * q + s
    PROVE  x \div b = q /\ x % b = s
<1> DEFINE p == x \div b
           r == x % b
<1>1. r \in 0..b - 1 /\ p \in Int /\ b * q + s = b * p + r
  OBVIOUS
<1> HIDE DEF p, r
<1>2. b * (q - p) = r - s /\ b * (p - q) = s - r
  BY <1>1
<1>3. ~(q - p >= 1)
  BY <1>1, <1>2, FarMultiple
<1>4. ~(p - q >= 1)
  BY <1>1, <1>2, FarMultiple
<1>5. q = p /\ r = s
  BY <1>1, <1>3, <1>4
<1> QED
  BY <1>5 DEF p, r

\* Different addresses differ in some index
LEMMA Paths ==
    ASSUME NEW va \in VAs, NEW vb \in VAs, \A level \in 0..2 : PX(level, va) = PX(level, vb)
    PROVE  va = vb
<1> DEFINE F == Fan
           FF == F * F
           G == FF * F
<1>1. F \in Nat \ {0} /\ FF \in Nat /\ G \in Nat
  BY MemoryAssumption
<1>2. ASSUME NEW n \in 0..G - 1
      PROVE  \E a, b, c \in 0..F - 1 : /\ n = F * (F * a + b) + c /\ PX(0, n) = c
                                       /\ PX(1, n) = b /\ PX(2, n) = a
  <2> DEFINE q == n \div F
             c == n % F
             a == q \div F
             b == q % F
  <2>1. q \in Int /\ c \in 0..F - 1 /\ n = F * q + c
    BY <1>1
  <2>2. a \in Int /\ b \in 0..F - 1 /\ q = F * a + b
    BY <1>1, <2>1
  <2>3. PX(0, n) = c /\ PX(1, n) = b
    <3>1. n \div 1 = n
      OBVIOUS
    <3> QED
      BY <3>1 DEF PX
  <2> HIDE DEF q, c, a, b
  <2>4. F * b + c \in 0..FF - 1
    <3>1. F * (F - 1 - b) >= 0 /\ F * b >= 0 /\ F * b \in Int
      BY <1>1, <2>2
    <3>2. F * (F - 1 - b) = FF - F - F * b
      BY <1>1, <2>2
    <3> QED
      BY <1>1, <2>1, <2>2, <3>1, <3>2
  <2>5. n = FF * a + (F * b + c)
    <3>1. F * q = F * (F * a) + F * b
      BY <1>1, <2>2
    <3>2. F * (F * a) = FF * a
      BY <1>1, <2>2
    <3> QED
      BY <1>1, <2>1, <2>2, <3>1, <3>2
  <2>6. n \div FF = a
    <3> HIDE DEF FF
    <3>1. FF \in Nat \ {0}
      BY <1>1, <2>4
    <3> QED
      BY <2>2, <2>4, <2>5, <3>1, OneDivision
  <2>7. a \in 0..F - 1
    <3>1. ~(a >= F)
      <4> SUFFICES ASSUME a >= F PROVE FALSE
        OBVIOUS
      <4>1. FF * (a - F) >= 0 /\ FF * (a - F) = FF * a - G /\ FF * a \in Int
        BY <1>1, <2>2
      <4> QED
        BY <1>1, <2>4, <2>5, <4>1
    <3>2. ~(a < 0)
      <4> SUFFICES ASSUME a < 0 PROVE FALSE
        OBVIOUS
      <4>1. FF * (-a - 1) >= 0 /\ FF * (-a - 1) = - (FF * a) - FF /\ FF * a \in Int
        BY <1>1, <2>2
      <4> QED
        BY <1>1, <2>4, <2>5, <4>1
    <3> QED
      BY <1>1, <2>2, <3>1, <3>2
  <2>8. PX(2, n) = a
    <3>1. a = F * 0 + a
      BY <1>1, <2>2
    <3>2. a % F = a
      BY <1>1, <2>2, <2>7, <3>1, OneDivision
    <3> QED
      BY <2>6, <3>2 DEF PX
  <2>9. n = F * (F * a + b) + c
    BY <2>1, <2>2
  <2> QED
    BY <2>1, <2>2, <2>3, <2>7, <2>8, <2>9
<1>3. VAs \subseteq 0..G - 1
  <2>1. /\ UserVas = Lowest..G - 3 /\ Lowest \in Nat
        /\ TRAMPOLINE = G - 1 /\ TRAPFRAME = TRAMPOLINE - 1
    <3>1. TRAMPOLINE = G - 1
      BY DEF TRAMPOLINE
    <3> HIDE DEF G
    <3> QED
      BY <1>1, <3>1, MemoryAssumption DEF TRAPFRAME, UserVas
  <2>2. G >= 2
    <3>1. FF = F * (F - 2) + F + F /\ F * (F - 2) >= 0 /\ F * (F - 2) \in Int
      BY <1>1, MemoryAssumption
    <3>2. FF >= 4
      BY <1>1, <3>1, MemoryAssumption
    <3>3. G = FF * (F - 1) + FF /\ FF * (F - 1) >= 0 /\ FF * (F - 1) \in Int
      BY <1>1, MemoryAssumption
    <3> QED
      BY <1>1, <3>2, <3>3
  <2> HIDE DEF G
  <2> QED
    BY <1>1, <2>1, <2>2 DEF VAs
<1>4. PX(0, va) = PX(0, vb) /\ PX(1, va) = PX(1, vb) /\ PX(2, va) = PX(2, vb)
  OBVIOUS
<1> HIDE DEF F, FF, G
<1> QED
  BY <1>2, <1>3, <1>4

-----------------------------------------------------------------------------

(* What the steps do to a tree of tables *)

\* Two ways to the same table are the same way
LEMMA OneWay ==
    ASSUME NEW r, Tree(r), EntryInv, NEW va \in VAs, NEW vb \in VAs,
           Tab1(r, va) # NULL, Tab1(r, vb) # NULL
    PROVE  /\ Tab1(r, va) = Tab1(r, vb) => PX(2, va) = PX(2, vb)
           /\ Tab0(r, va) = Tab0(r, vb) /\ Tab0(r, va) # NULL =>
                PX(2, va) = PX(2, vb) /\ PX(1, va) = PX(1, vb)
<1>1. \A level \in 0..2 : PX(level, va) \in Idx /\ PX(level, vb) \in Idx
  BY IndexIs
<1>2. Tab1(r, va) = Tab1(r, vb) => PX(2, va) = PX(2, vb)
  BY <1>1 DEF Tree, Forks, Tab1
<1>3. Tab1(r, va) \in Sub(r) /\ Tab1(r, vb) \in Sub(r)
  BY TreeParts
<1>4. ASSUME Tab0(r, va) = Tab0(r, vb), Tab0(r, va) # NULL PROVE Tab1(r, va) = Tab1(r, vb)
  <2>1. Tab0(r, va) \in Sub(Tab1(r, va)) /\ Tab0(r, vb) \in Sub(Tab1(r, vb))
    BY <1>1, <1>4 DEF Sub, Tab0
  <2> QED
    BY <1>3, <1>4, <2>1 DEF Tree
<1>5. ASSUME Tab0(r, va) = Tab0(r, vb), Tab0(r, va) # NULL, Tab1(r, va) = Tab1(r, vb)
      PROVE  PX(1, va) = PX(1, vb)
  <2>1. Forks(Tab1(r, va))
    BY <1>3 DEF Tree
  <2> QED
    BY <1>1, <1>5, <2>1 DEF Forks, Tab0
<1> QED
  BY <1>2, <1>4, <1>5

-----------------------------------------------------------------------------
(* Steps on page tables *)

Same(r) ==
    /\ Good(r)' /\ TablesOf(r)' = TablesOf(r)
    /\ \A va \in VAs : Walk(r, va)' = Walk(r, va) /\ Lookup(r, va)' = Lookup(r, va)

\* Who leaves the tables of r alone leaves r what it is
LEMMA SameTables ==
    ASSUME NEW r, Good(r), EntryInv, EntryInv',
           \A pg \in TablesOf(r) : entry'[pg] = entry[pg] /\ mem'[pg] = mem[pg]
    PROVE  Same(r)
<1>1. r \in TablesOf(r) /\ Sub(r) \subseteq TablesOf(r) /\ Low(r) \subseteq TablesOf(r)
  BY DEF TablesOf
<1>2. \A pg \in TablesOf(r) : /\ Sub(pg)' = Sub(pg) /\ (Inner(pg)' <=> Inner(pg))
                              /\ (Forks(pg)' <=> Forks(pg))
  BY DEF Sub, Inner, Forks
<1>3. Sub(r)' = Sub(r) /\ Low(r)' = Low(r)
  BY <1>1, <1>2 DEF Low
<1>4. TablesOf(r)' = TablesOf(r)
  BY <1>3 DEF TablesOf
<1>5. Tree(r)'
  <2>1. Tree(r)
    BY DEF Good
  <2> QED
    BY <1>1, <1>2, <1>3, <2>1 DEF Tree
<1>6. Good(r)'
  BY <1>4, <1>5 DEF Good
<1>7. ASSUME NEW va \in VAs PROVE Walk(r, va)' = Walk(r, va) /\ Lookup(r, va)' = Lookup(r, va)
  <2>1. WalkShape(r, va) /\ WalkShape(r, va)'
    BY <1>6, WalkNow, WalkNext
  <2>2. Tab1(r, va)' = Tab1(r, va)
    BY <1>1 DEF Tab1
  <2>3. Tab1(r, va) # NULL => Tab0(r, va)' = Tab0(r, va)
    BY <2>2, TreeParts DEF Tab0, Good
  <2>4. Tab1(r, va) # NULL /\ Tab0(r, va) # NULL => entry'[Tab0(r, va)] = entry[Tab0(r, va)]
    BY TreeParts DEF Good
  <2> QED
    BY <2>1, <2>2, <2>3, <2>4 DEF WalkShape
<1> QED
  BY <1>4, <1>6, <1>7 DEF Same

\* A root that has just been zeroed
LEMMA NewRoot ==
    ASSUME NEW r \in Pages, entry[r] = ZeroTable, mem[r] = "zeroes", EntryInv
    PROVE  /\ Good(r) /\ TablesOf(r) = {r}
           /\ \A va \in VAs : Lookup(r, va) = NULL
<1>1. \A i \in Idx : entry[r][i].to = NULL
  BY DEF ZeroTable, Zero
<1>2. Sub(r) = {} /\ Low(r) = {}
  BY <1>1 DEF Sub, Low
<1>3. TablesOf(r) = {r}
  BY <1>2 DEF TablesOf
<1>4. Tree(r)
  BY <1>1, <1>2, Numbers DEF Tree, Inner, Forks
<1>5. Good(r)
  BY <1>3, <1>4 DEF Good
<1>6. ASSUME NEW va \in VAs PROVE Lookup(r, va) = NULL
  <2>1. Tab1(r, va) = NULL
    BY <1>1, IndexIs DEF Tab1
  <2> QED
    BY <1>5, <2>1, WalkNow DEF WalkShape
<1> QED
  BY <1>3, <1>5, <1>6

\* An entry that was zero refers to x
LEMMA NewEntry ==
    ASSUME NEW t \in Pages, NEW i \in Idx, EntryInv, entry[t][i].to = NULL, NEW x \in Pages,
           x \notin Sub(t), entry'[t] = [entry[t] EXCEPT ![i] = [to |-> x, leaf |-> FALSE]]
    PROVE  /\ Sub(t)' = Sub(t) \cup {x} /\ (Forks(t) => Forks(t)') /\ (Inner(t) => Inner(t)')
           /\ \A j \in Idx : entry'[t][j].to = IF j = i THEN x ELSE entry[t][j].to
<1>1. DOMAIN entry[t] = Idx
  BY DEF EntryInv
<1>2. \A j \in Idx : entry'[t][j].to = IF j = i THEN x ELSE entry[t][j].to
  BY <1>1
<1>3. Sub(t)' = Sub(t) \cup {x}
  BY <1>2, Numbers DEF Sub
<1>4. \A j \in Idx : entry[t][j].to # NULL => entry[t][j].to \in Sub(t)
  BY DEF Sub
<1>5. Forks(t) => Forks(t)'
  BY <1>2, <1>4 DEF Forks
<1>6. Inner(t) => Inner(t)'
  BY <1>2, Numbers DEF Inner
<1> QED
  BY <1>2, <1>3, <1>5, <1>6

\* x becomes a table, at entry i of table t
Linked(x, t, i) ==
    /\ mem' = [mem EXCEPT ![x] = "zeroes"]
    /\ entry' = [entry EXCEPT ![x] = ZeroTable, ![t][i] = [to |-> x, leaf |-> FALSE]]

\* walk links a table that has just been zeroed
LEMMA LinkTree ==
    ASSUME NEW r, Good(r), EntryInv, NEW va \in VAs, NEW x \in Pages, x \notin TablesOf(r),
           Walk(r, va).level > 0, DOMAIN mem = Pages,
           NEW t, NEW i, t = Walk(r, va).table, i = PX(Walk(r, va).level, va), Linked(x, t, i)
    PROVE  /\ EntryInv' /\ Good(r)' /\ TablesOf(r)' = TablesOf(r) \cup {x}
           /\ \A vb \in VAs : Lookup(r, vb)' = Lookup(r, vb)
           /\ \A pg \in Pages : pg # x => mem'[pg] = mem[pg]
           /\ \A pg \in Pages : pg # x /\ pg \notin TablesOf(r) => entry'[pg] = entry[pg]
<1> DEFINE w == Walk(r, va)
           pte == [to |-> x, leaf |-> FALSE]
<1>0. t = w.table /\ i = PX(w.level, va)
  OBVIOUS
<1>1. Tree(r) /\ WalkShape(r, va)
  BY WalkNow DEF Good
<1>2. \/ /\ Tab1(r, va) = NULL /\ t = r /\ i = PX(2, va) /\ w.level = 2
      \/ /\ Tab1(r, va) # NULL /\ Tab0(r, va) = NULL /\ t = Tab1(r, va) /\ i = PX(1, va)
         /\ w.level = 1
  BY <1>0, <1>1 DEF WalkShape
<1>3. t \in Pages /\ t \in TablesOf(r) /\ i \in Idx /\ entry[t][i].to = NULL /\ t # x
  <2>1. r \in Pages /\ r \in TablesOf(r)
    BY <1>1, TreeParts
  <2>2. Tab1(r, va) # NULL => Tab1(r, va) \in Pages /\ Tab1(r, va) \in TablesOf(r)
    BY <1>1, TreeParts
  <2> QED
    BY <1>2, <2>1, <2>2, IndexIs DEF Tab1, Tab0
<1>4. entry' = [entry EXCEPT ![x] = ZeroTable, ![t][i] = pte]
  BY DEF Linked
<1> HIDE DEF w
<1>5. DOMAIN entry = Pages /\ \A pg \in Pages : DOMAIN entry[pg] = Idx
  BY DEF EntryInv
<1>6. /\ entry'[x] = ZeroTable /\ entry'[t] = [entry[t] EXCEPT ![i] = pte]
      /\ \A pg \in Pages : pg # x /\ pg # t => entry'[pg] = entry[pg]
      /\ DOMAIN entry' = Pages /\ entry' = [pg \in Pages |-> entry'[pg]]
  BY <1>3, <1>4, <1>5
<1>7. EntryInv'
  <2>1. pte \in Entry /\ pte.to = x /\ Zero \in Entry
    BY Numbers DEF Entry, Zero
  <2>2. \A pg \in Pages : entry'[pg] \in [Idx -> Entry]
    BY <1>3, <1>4, <1>5, <2>1 DEF EntryInv, ZeroTable
  <2>3. \A pg \in Pages : \A j \in Idx : entry'[pg][j].to = NULL => entry'[pg][j] = Zero
    <3> SUFFICES ASSUME NEW pg \in Pages, NEW j \in Idx, entry'[pg][j].to = NULL
                 PROVE  entry'[pg][j] = Zero
      OBVIOUS
    <3>1. CASE pg = x
      BY <1>6, <3>1 DEF ZeroTable
    <3>2. CASE pg = t
      <4>1. entry'[t][j] = IF j = i THEN pte ELSE entry[t][j]
        <5> HIDE DEF pte
        <5>1. DOMAIN entry[t] = Idx /\ entry'[t] = [entry[t] EXCEPT ![i] = pte]
          BY <1>3, <1>5, <1>6
        <5> QED
          BY <5>1
      <4>2. j # i
        BY <2>1, <3>2, <4>1, Numbers
      <4> QED
        BY <1>3, <3>2, <4>1, <4>2 DEF EntryInv
    <3>3. CASE pg # x /\ pg # t
      BY <1>6, <3>3 DEF EntryInv
    <3> QED
      BY <3>1, <3>2, <3>3
  <2> QED
    BY <1>6, <2>2, <2>3 DEF EntryInv
<1>8. \A pg \in Pages : mem'[pg] = IF pg = x THEN "zeroes" ELSE mem[pg]
  BY DEF Linked
<1>9. \A j \in Idx : entry'[x][j].to = NULL
  BY <1>6 DEF ZeroTable, Zero
<1>10. Sub(x)' = {} /\ Inner(x)' /\ Forks(x)'
  BY <1>9, Numbers DEF Sub, Inner, Forks
<1>11. r \in TablesOf(r) /\ Sub(r) \subseteq TablesOf(r) /\ Low(r) \subseteq TablesOf(r)
       /\ r \in Pages /\ Sub(r) \subseteq Pages
  BY <1>1 DEF TablesOf, Tree, Inner
<1>12. x \notin Sub(r) /\ x # r /\ x \notin Low(r)
  BY <1>11
<1>13. \A pg \in Pages : pg # x /\ pg # t =>
         Sub(pg)' = Sub(pg) /\ (Inner(pg)' <=> Inner(pg)) /\ (Forks(pg)' <=> Forks(pg))
  BY <1>6 DEF Sub, Inner, Forks
<1>14. x \notin Sub(t) =>
         /\ Sub(t)' = Sub(t) \cup {x} /\ (Forks(t) => Forks(t)') /\ (Inner(t) => Inner(t)')
         /\ \A j \in Idx : entry'[t][j].to = IF j = i THEN x ELSE entry[t][j].to
  BY <1>3, <1>4, <1>6, NewEntry
<1>15. CASE t = r /\ i = PX(2, va) /\ Tab1(r, va) = NULL
  <2>1. Sub(r)' = Sub(r) \cup {x} /\ Forks(r)' /\ Inner(r)'
        /\ \A j \in Idx : entry'[r][j].to = IF j = i THEN x ELSE entry[r][j].to
    BY <1>1, <1>12, <1>14, <1>15 DEF Tree
  <2>2. \A q \in Sub(r) : q # x /\ q # t /\ q \in Pages
    BY <1>1, <1>11, <1>12, <1>15 DEF Tree
  <2>3. \A q \in Sub(r) : Sub(q)' = Sub(q) /\ Inner(q)' /\ Forks(q)'
    BY <1>1, <1>13, <2>2 DEF Tree
  <2>4. Low(r)' = Low(r)
    BY <1>10, <2>1, <2>3 DEF Low
  <2>5. Tree(r)'
    <3>1. \A q, s \in Sub(r)' : q # s => Sub(q)' \cap Sub(s)' = {}
      BY <1>1, <1>10, <2>1, <2>3 DEF Tree
    <3>2. \A q \in Sub(r)' : Inner(q)' /\ Forks(q)'
      BY <1>10, <2>1, <2>3
    <3>3. r \notin Sub(r)' /\ r \notin Low(r)' /\ Sub(r)' \cap Low(r)' = {}
      BY <1>1, <1>12, <2>1, <2>4 DEF Tree
    <3> QED
      BY <2>1, <3>1, <3>2, <3>3 DEF Tree
  <2>6. TablesOf(r)' = TablesOf(r) \cup {x}
    BY <2>1, <2>4 DEF TablesOf
  <2>7. Good(r)'
    <3>1. \A pg \in TablesOf(r) : pg \in Pages
      BY <1>1, ZeroIs, Numbers DEF TablesOf, Low, Sub, Tree, Inner
    <3> QED
      BY <1>8, <2>5, <2>6, <3>1 DEF Good
  <2>8. ASSUME NEW vb \in VAs PROVE Lookup(r, vb)' = Lookup(r, vb)
    <3>1. WalkShape(r, vb) /\ WalkShape(r, vb)'
      BY <1>7, <2>7, WalkNow, WalkNext
    <3>2. PX(2, vb) \in Idx /\ PX(1, vb) \in Idx /\ PX(0, vb) \in Idx
      BY IndexIs
    <3>3. CASE PX(2, vb) = i
      <4>1. Tab1(r, vb) = NULL /\ Tab1(r, vb)' = x
        BY <1>15, <2>1, <3>2, <3>3 DEF Tab1
      <4>2. Tab0(r, vb)' = NULL
        BY <1>9, <3>2, <4>1 DEF Tab0
      <4> QED
        BY <3>1, <4>1, <4>2 DEF WalkShape
    <3>4. CASE PX(2, vb) # i
      <4>1. Tab1(r, vb)' = Tab1(r, vb)
        BY <2>1, <3>2, <3>4 DEF Tab1
      <4>2. ASSUME Tab1(r, vb) # NULL PROVE Tab0(r, vb)' = Tab0(r, vb)
        <5>1. Tab1(r, vb) \in Sub(r)
          BY <1>1, <4>2, TreeParts
        <5>2. entry'[Tab1(r, vb)] = entry[Tab1(r, vb)]
          BY <1>6, <2>2, <5>1
        <5> QED
          BY <4>1, <5>2 DEF Tab0
      <4>3. ASSUME Tab1(r, vb) # NULL, Tab0(r, vb) # NULL
            PROVE  entry'[Tab0(r, vb)] = entry[Tab0(r, vb)]
        <5>1. Tab0(r, vb) \in Low(r) /\ Tab0(r, vb) \in Pages
          BY <1>1, <4>3, TreeParts
        <5>2. Tab0(r, vb) # x /\ Tab0(r, vb) # t
          BY <1>1, <1>12, <1>15, <5>1 DEF Tree
        <5> QED
          BY <1>6, <5>1, <5>2
      <4> QED
        BY <3>1, <4>1, <4>2, <4>3 DEF WalkShape
    <3> QED
      BY <3>3, <3>4
  <2> QED
    BY <1>3, <1>6, <1>7, <1>8, <2>6, <2>7, <2>8
<1>16. CASE /\ t = Tab1(r, va) /\ i = PX(1, va) /\ Tab1(r, va) # NULL /\ Tab0(r, va) = NULL
  <2>1. t \in Sub(r) /\ x \notin Sub(t) /\ t # r
    BY <1>1, <1>12, <1>16, TreeParts DEF Low, Tree
  <2>2. Sub(t)' = Sub(t) \cup {x} /\ Forks(t)' /\ Inner(t)'
        /\ \A j \in Idx : entry'[t][j].to = IF j = i THEN x ELSE entry[t][j].to
    BY <1>1, <1>14, <2>1 DEF Tree
  <2>3. Sub(r)' = Sub(r) /\ Inner(r)' /\ Forks(r)' /\ entry'[r] = entry[r]
    BY <1>1, <1>6, <1>11, <1>12, <1>13, <2>1 DEF Tree
  <2>4. \A q \in Sub(r) : q # x /\ q \in Pages
    BY <1>11, <1>12
  <2>5. \A q \in Sub(r) : q # t => Sub(q)' = Sub(q) /\ Inner(q)' /\ Forks(q)'
    BY <1>1, <1>13, <2>4 DEF Tree
  <2>6. Low(r)' = Low(r) \cup {x}
    BY <2>1, <2>2, <2>3, <2>5 DEF Low
  <2>7. Tree(r)'
    <3>1. \A q, s \in Sub(r) : q # s => Sub(q)' \cap Sub(s)' = {}
      <4> SUFFICES ASSUME NEW q \in Sub(r), NEW s \in Sub(r), q # s
                   PROVE  Sub(q)' \cap Sub(s)' = {}
        OBVIOUS
      <4>1. Sub(q) \cap Sub(s) = {} /\ x \notin Sub(q) /\ x \notin Sub(s)
        BY <1>1, <1>12 DEF Tree, Low
      <4> QED
        BY <2>2, <2>5, <4>1
    <3>2. \A q \in Sub(r) : Inner(q)' /\ Forks(q)'
      BY <2>2, <2>5
    <3>3. r \notin Sub(r)' /\ r \notin Low(r)' /\ Sub(r)' \cap Low(r)' = {}
      BY <1>1, <1>12, <2>3, <2>6 DEF Tree
    <3> QED
      BY <2>3, <3>1, <3>2, <3>3 DEF Tree
  <2>8. TablesOf(r)' = TablesOf(r) \cup {x}
    BY <2>3, <2>6 DEF TablesOf
  <2>9. Good(r)'
    <3>1. \A pg \in TablesOf(r) : pg \in Pages
      BY <1>1, ZeroIs, Numbers DEF TablesOf, Low, Sub, Tree, Inner
    <3> QED
      BY <1>8, <2>7, <2>8, <3>1 DEF Good
  <2>10. ASSUME NEW vb \in VAs PROVE Lookup(r, vb)' = Lookup(r, vb)
    <3>1. WalkShape(r, vb) /\ WalkShape(r, vb)'
      BY <1>7, <2>9, WalkNow, WalkNext
    <3>2. PX(2, vb) \in Idx /\ PX(1, vb) \in Idx /\ PX(0, vb) \in Idx
      BY IndexIs
    <3>3. Tab1(r, vb)' = Tab1(r, vb)
      BY <2>3 DEF Tab1
    <3>4. CASE Tab1(r, vb) = t /\ PX(1, vb) = i
      <4>1. Tab0(r, vb) = NULL /\ Tab0(r, vb)' = x
        BY <1>3, <2>2, <3>2, <3>3, <3>4 DEF Tab0
      <4>2. entry'[Tab0(r, vb)'][PX(0, vb)].to = NULL
        BY <1>9, <3>2, <4>1
      <4> QED
        BY <3>1, <4>1, <4>2 DEF WalkShape
    <3>5. CASE ~(Tab1(r, vb) = t /\ PX(1, vb) = i)
      <4>1. ASSUME Tab1(r, vb) # NULL PROVE Tab0(r, vb)' = Tab0(r, vb)
        <5>1. Tab1(r, vb) \in Sub(r)
          BY <1>1, <4>1, TreeParts
        <5>2. Tab1(r, vb) # t => entry'[Tab1(r, vb)] = entry[Tab1(r, vb)]
          BY <1>6, <2>4, <5>1
        <5> QED
          BY <2>2, <3>2, <3>3, <3>5, <5>2 DEF Tab0
      <4>2. ASSUME Tab1(r, vb) # NULL, Tab0(r, vb) # NULL
            PROVE  entry'[Tab0(r, vb)] = entry[Tab0(r, vb)]
        <5>1. Tab0(r, vb) \in Low(r) /\ Tab0(r, vb) \in Pages
          BY <1>1, <4>2, TreeParts
        <5>2. Tab0(r, vb) # x /\ Tab0(r, vb) # t
          BY <1>1, <1>12, <2>1, <5>1 DEF Tree
        <5> QED
          BY <1>6, <5>1, <5>2
      <4> QED
        BY <3>1, <3>3, <4>1, <4>2 DEF WalkShape
    <3> QED
      BY <3>4, <3>5
  <2> QED
    BY <1>3, <1>6, <1>7, <1>8, <2>8, <2>9, <2>10
<1> QED
  BY <1>2, <1>15, <1>16

-----------------------------------------------------------------------------
(* The invariant *)

\* Where a thread can be, and where it has a page that it has just taken
Labels == {"user", "gone", "spins", "fault", "argv", "arg", "forks"} \cup Making \cup Mapping \cup Freeing
WithNew == {"trapframe", "root", "link", "fault", "arg"}
\* What a page is filled with, and the local variables of a thread
Fills == {"ones", "fives", "zeroes", "file", "string"} \cup Procs

Locals == [child : Procs \cup {"none"}, root : 0..NPages, va : VAs \cup {0},
           pa : 0..Trampoline, new : 0..NPages, todo : Seq(Pages), swapped : BOOLEAN]

Areas == [1..NOMMAPFILE -> [addr : Int, length : Int]]

\* The type invariant
Types ==
    /\ freelist \in Seq(Pages) /\ mem \in [Pages -> Fills] /\ EntryInv
    /\ state \in [Procs -> {"UNUSED", "RUNNABLE", "ZOMBIE"}]
    /\ trapframe \in [Procs -> 0..NPages] /\ pagetable \in [Procs -> 0..NPages]
    /\ areas \in [Procs -> Areas]
    /\ at \in [Threads -> Labels] /\ loc \in [Threads -> Locals]

\* What a thread has, by where it is
Shape(t) ==
    /\ loc[t].new # NULL <=> at[t] \in WithNew
    /\ loc[t].todo # <<>> => at[t] \in {"argv", "arg", "kfree", "push"}
    /\ at[t] = "push" => loc[t].todo # <<>> /\ mem[Head(loc[t].todo)] = "ones"
    /\ at[t] \in {"user", "gone", "spins"} => loc[t] = NoLocals
    /\ IsInjective(loc[t].todo) /\ loc[t].new \notin ToSet(loc[t].todo)
    /\ loc[t].new # NULL => loc[t].new # loc[t].pa

\* A thread in allocproc
Makes(t) ==
    LET l == loc[t] IN
    /\ state[l.child] = "UNUSED" /\ at[t] \in {"forks"} \cup Making \cup Mapping \cup Freeing
    /\ at[t] \in Freeing \cup Making => l.root = NULL
    /\ at[t] \in Freeing => l.va = TRAMPOLINE
    /\ at[t] \in {"forks"} \cup (Making \ {"trapframe"}) \cup Mapping => trapframe[l.child] # NULL
    /\ l.pa \in {NULL, Trampoline, trapframe[l.child]} /\ (at[t] \in Making => l.pa = NULL)
    /\ at[t] \in Mapping =>
        /\ l.root # NULL /\ \A p \in Procs : pagetable[p] # l.root
        /\ \/ l.va = TRAMPOLINE /\ l.pa = Trampoline
           \/ l.va = TRAPFRAME /\ l.pa = trapframe[l.child]
    /\ at[t] = "forks" =>
        /\ l.root # NULL /\ pagetable[l.child] = l.root
        /\ l.va = TRAPFRAME /\ l.pa = trapframe[l.child]

\* A thread in freeproc
Reaps(t) ==
    LET l == loc[t] IN
    /\ state[l.child] = "ZOMBIE" /\ trapframe[l.child] = NULL
    /\ at[t] \in Freeing /\ l.root = NULL /\ l.va \in {TRAPFRAME, 0} /\ l.pa = NULL
    /\ pagetable[l.child] = NULL <=> l.va = 0

\* A process in a page fault or in sys_execve
Serves(t) ==
    LET l == loc[t] IN
    /\ t \in Procs /\ l.root = pagetable[t] /\ l.swapped = FALSE
    /\ at[t] \in {"fault", "argv", "arg"} \cup Mapping \cup Freeing
    /\ at[t] \in Freeing \cup {"argv", "arg", "fault"} => l.pa = NULL
    /\ at[t] \in Freeing \cup {"argv", "arg"} => l.va = 0
    /\ at[t] \in {"fault"} \cup Mapping => l.va \in UserVas
    /\ at[t] \in Mapping => l.pa \in Pages
    /\ at[t] = "mapped" => Lookup(l.root, l.va) = l.pa

\* Which of these a thread is doing, and that walk still wants the table it has taken
Task(t) ==
    /\ at[t] \notin {"user", "gone", "spins"} =>
         IF loc[t].child = "none" THEN Serves(t) ELSE Makes(t) \/ Reaps(t)
    /\ at[t] = "link" => Walk(loc[t].root, loc[t].va).level > 0

\* Nobody else makes or reaps the same process, nor works on the same tables
Alone(t) ==
    loc[t].child # "none" =>
        \A u \in Threads : u # t => /\ loc[u].child # loc[t].child
                                    /\ loc[u].root = loc[t].root => loc[u].root = NULL

\* What a process has, by its state
Slot(p) ==
    /\ at[p] # "gone" <=> state[p] = "RUNNABLE"
    /\ state[p] = "RUNNABLE" => pagetable[p] # NULL /\ trapframe[p] # NULL
    /\ state[p] = "ZOMBIE" => \/ pagetable[p] # NULL /\ trapframe[p] # NULL
                              \/ \E t \in Threads : loc[t].child = p
    /\ \A q \in Procs : pagetable[p] = pagetable[q] /\ pagetable[p] # NULL => p = q

\* What a page can be used for, and the pages that are
Claims ==
    {<<"free", 0, 0>>} \cup ({"trapframe"} \X Procs \X {0}) \cup ({"hand"} \X Threads \X {0})
      \cup ({"table"} \X Pages \X {0}) \cup ({"frame"} \X Pages \X UserVas)

Has(c) ==
    IF c[1] = "free" THEN ToSet(freelist)
    ELSE IF c[1] = "trapframe" THEN {trapframe[c[2]]} \ {NULL}
    ELSE IF c[1] = "hand" THEN Hand(c[2])
    ELSE IF c[2] \notin Roots THEN {}
    ELSE IF c[1] = "table" THEN TablesOf(c[2])
    ELSE {Lookup(c[2], c[3])} \ {NULL}

\* No page is used for two things; below each root is a tree; free pages are in kfree's
\* pattern
Apart == \A c, d \in Claims : c # d => Has(c) \cap Has(d) = {}
Trees == \A r \in Roots : Good(r)
Ones == IsInjective(freelist) /\ \A pg \in ToSet(freelist) : mem[pg] = "ones"

MemoryInv ==
    /\ Types /\ Trees /\ Apart /\ Ones
    /\ \A t \in Threads : Shape(t) /\ Task(t) /\ Alone(t)
    /\ \A p \in Procs : Slot(p)

LEMMA NoAreasAre == NoArea \in [addr : Int, length : Int] /\ NoAreas \in Areas
  BY DEF NoArea, NoAreas, Areas

-----------------------------------------------------------------------------
(* Steps on tables of the last level *)

\* Who changes only tables of the last level changes what addresses are mapped to
LEMMA LowTables ==
    ASSUME NEW r, Good(r), EntryInv, EntryInv', mem' = mem,
           \A pg \in {r} \cup Sub(r) : entry'[pg] = entry[pg]
    PROVE  /\ Good(r)' /\ TablesOf(r)' = TablesOf(r)
           /\ \A va \in VAs :
                /\ Walk(r, va)' = Walk(r, va)
                /\ Lookup(r, va)' = IF Tab1(r, va) = NULL \/ Tab0(r, va) = NULL THEN NULL
                                    ELSE entry'[Tab0(r, va)][PX(0, va)].to
<1>1. \A pg \in {r} \cup Sub(r) :
        Sub(pg)' = Sub(pg) /\ (Inner(pg)' <=> Inner(pg)) /\ (Forks(pg)' <=> Forks(pg))
  BY DEF Sub, Inner, Forks
<1>2. Sub(r)' = Sub(r) /\ Low(r)' = Low(r)
  BY <1>1 DEF Low
<1>3. TablesOf(r)' = TablesOf(r)
  BY <1>2 DEF TablesOf
<1>4. Tree(r)'
  <2>1. Tree(r)
    BY DEF Good
  <2> QED
    BY <1>1, <1>2, <2>1 DEF Tree
<1>5. Good(r)'
  BY <1>3, <1>4 DEF Good
<1>6. ASSUME NEW va \in VAs
      PROVE  /\ Walk(r, va)' = Walk(r, va)
             /\ Lookup(r, va)' = IF Tab1(r, va) = NULL \/ Tab0(r, va) = NULL THEN NULL
                                 ELSE entry'[Tab0(r, va)][PX(0, va)].to
  <2>1. WalkShape(r, va) /\ WalkShape(r, va)'
    BY <1>5, WalkNow, WalkNext
  <2>2. Tab1(r, va)' = Tab1(r, va)
    BY DEF Tab1
  <2>3. Tab1(r, va) # NULL => Tab0(r, va)' = Tab0(r, va)
    BY <2>2, TreeParts DEF Tab0, Good
  <2> QED
    BY <2>1, <2>2, <2>3 DEF WalkShape
<1> QED
  BY <1>3, <1>5, <1>6

\* MapPages maps va: nothing else changes
LEMMA LeafTree ==
    ASSUME NEW r, Good(r), EntryInv, NEW va \in VAs, Walk(r, va).level = 0,
           NEW pa \in 1..Trampoline, mem' = mem,
           entry' = [entry EXCEPT ![Walk(r, va).table][PX(0, va)] = [to |-> pa, leaf |-> TRUE]]
    PROVE  /\ EntryInv' /\ Good(r)' /\ TablesOf(r)' = TablesOf(r)
           /\ \A vb \in VAs : /\ Walk(r, vb)' = Walk(r, vb)
                              /\ Lookup(r, vb)' = IF vb = va THEN pa ELSE Lookup(r, vb)
           /\ \A pg \in Pages : pg \notin TablesOf(r) => entry'[pg] = entry[pg]
<1> DEFINE pte == [to |-> pa, leaf |-> TRUE]
<1>0. PICK t, i : t = Walk(r, va).table /\ i = PX(0, va)
  OBVIOUS
<1>1. Tree(r) /\ WalkShape(r, va)
  BY WalkNow DEF Good
<1>2. Tab1(r, va) # NULL /\ Tab0(r, va) # NULL /\ t = Tab0(r, va)
  BY <1>0, <1>1 DEF WalkShape
<1>3. t \in Low(r) /\ t \in TablesOf(r) /\ t \in Pages /\ i \in Idx /\ r \in Pages
  BY <1>0, <1>1, <1>2, TreeParts, IndexIs
<1>4. entry' = [entry EXCEPT ![t][i] = pte]
  BY <1>0
<1>5. DOMAIN entry = Pages /\ DOMAIN entry[t] = Idx
  BY <1>3 DEF EntryInv
<1> HIDE DEF pte
<1>6. /\ entry'[t] = [entry[t] EXCEPT ![i] = pte]
      /\ \A pg \in Pages : pg # t => entry'[pg] = entry[pg]
      /\ DOMAIN entry' = Pages /\ entry' = [pg \in Pages |-> entry'[pg]]
  BY <1>3, <1>4, <1>5
<1>7. \A j \in Idx : entry'[t][j] = IF j = i THEN pte ELSE entry[t][j]
  <2>1. DOMAIN entry[t] = Idx /\ entry'[t] = [entry[t] EXCEPT ![i] = pte]
    BY <1>5, <1>6
  <2> QED
    BY <2>1
<1>8. pte \in Entry /\ pte.to = pa /\ pa # NULL
  BY Numbers DEF pte, Entry
<1>9. EntryInv'
  <2>1. ASSUME NEW pg \in Pages PROVE entry'[pg] \in [Idx -> Entry]
    <3>1. entry[pg] \in [Idx -> Entry]
      BY DEF EntryInv
    <3>2. CASE pg = t
      <4>1. entry[t] \in [Idx -> Entry] /\ pte \in Entry
            /\ entry'[t] = [entry[t] EXCEPT ![i] = pte]
        BY <1>6, <1>8, <3>1, <3>2
      <4> QED
        BY <3>2, <4>1
    <3>3. CASE pg # t
      BY <1>6, <3>1, <3>3
    <3> QED
      BY <3>2, <3>3
  <2>2. \A pg \in Pages : \A j \in Idx : entry'[pg][j].to = NULL => entry'[pg][j] = Zero
    BY <1>3, <1>6, <1>7, <1>8 DEF EntryInv
  <2> QED
    BY <1>6, <2>1, <2>2 DEF EntryInv
<1>10. \A pg \in {r} \cup Sub(r) : pg \in Pages /\ pg # t
  BY <1>1, <1>3 DEF Tree, Inner
<1>11. \A pg \in {r} \cup Sub(r) : entry'[pg] = entry[pg]
  BY <1>6, <1>10
<1>12. /\ Good(r)' /\ TablesOf(r)' = TablesOf(r)
       /\ \A vb \in VAs :
            /\ Walk(r, vb)' = Walk(r, vb)
            /\ Lookup(r, vb)' = IF Tab1(r, vb) = NULL \/ Tab0(r, vb) = NULL THEN NULL
                                ELSE entry'[Tab0(r, vb)][PX(0, vb)].to
  BY <1>9, <1>11, LowTables
<1>13. ASSUME NEW vb \in VAs PROVE Lookup(r, vb)' = IF vb = va THEN pa ELSE Lookup(r, vb)
  <2>1. WalkShape(r, vb)
    BY WalkNow
  <2>2. CASE vb = va
    BY <1>0, <1>2, <1>3, <1>7, <1>8, <1>12, <2>2
  <2>3. CASE vb # va /\ Tab1(r, vb) # NULL /\ Tab0(r, vb) # NULL
    <3>1. Tab0(r, vb) \in Pages
      BY <1>1, <2>3, TreeParts
    <3>2. CASE Tab0(r, vb) = t
      <4>1. PX(2, va) = PX(2, vb) /\ PX(1, va) = PX(1, vb)
        BY <1>1, <1>2, <2>3, <3>2, OneWay
      <4>2. PX(0, vb) # i /\ PX(0, vb) \in Idx
        <5>1. \A level \in 0..2 : level \in {0, 1, 2}
          OBVIOUS
        <5>2. PX(0, vb) # PX(0, va)
          BY <2>3, <4>1, <5>1, Paths
        <5> QED
          BY <1>0, <5>2, IndexIs
      <4> QED
        BY <1>7, <1>12, <2>1, <2>3, <3>2, <4>2 DEF WalkShape
    <3>3. CASE Tab0(r, vb) # t
      BY <1>6, <1>12, <2>1, <2>3, <3>1, <3>3 DEF WalkShape
    <3> QED
      BY <3>2, <3>3
  <2>4. CASE vb # va /\ ~(Tab1(r, vb) # NULL /\ Tab0(r, vb) # NULL)
    BY <1>12, <2>1, <2>4 DEF WalkShape
  <2> QED
    BY <2>2, <2>3, <2>4
<1> QED
  BY <1>3, <1>6, <1>9, <1>12, <1>13

\* vmunmap unmaps V: nothing else changes
LEMMA ClearTree ==
    ASSUME NEW r, Good(r), EntryInv, NEW V \in SUBSET VAs, mem' = mem,
           entry' = Cleared(r, V)
    PROVE  /\ EntryInv' /\ Good(r)' /\ TablesOf(r)' = TablesOf(r)
           /\ \A vb \in VAs : /\ Walk(r, vb)' = Walk(r, vb)
                              /\ Lookup(r, vb)' = IF vb \in V THEN NULL ELSE Lookup(r, vb)
           /\ \A pg \in Pages : pg \notin TablesOf(r) => entry'[pg] = entry[pg]
<1> DEFINE Hit(pg, i) == \E va \in V :
        i = PX(0, va) /\ Walk(r, va) = [table |-> pg, level |-> 0]
<1>1. Tree(r) /\ \A va \in VAs : WalkShape(r, va)
  BY WalkNow DEF Good
<1>2. /\ \A pg \in Pages : entry'[pg] = [i \in Idx |-> IF Hit(pg,
           i) THEN Zero ELSE entry[pg][i]]
      /\ entry' = [pg \in Pages |-> entry'[pg]]
  BY DEF Cleared
<1>3. \A pg \in Pages : \A i \in Idx :
          entry'[pg][i] = IF Hit(pg, i) THEN Zero ELSE entry[pg][i]
  <2> HIDE DEF Hit
  <2> QED
    BY <1>2
<1>4. ASSUME NEW pg, NEW i, Hit(pg, i)
      PROVE  \E va \in V : /\ i = PX(0, va) /\ Tab1(r, va) # NULL /\ Tab0(r, va) # NULL
                           /\ pg = Tab0(r, va) /\ pg \in Low(r) /\ pg \in TablesOf(r)
  <2>1. PICK va \in V : i = PX(0, va) /\ Walk(r, va) = [table |-> pg, level |-> 0]
    BY <1>4
  <2>2. WalkShape(r, va) /\ va \in VAs
    BY <1>1
  <2>3. Tab1(r, va) # NULL /\ Tab0(r, va) # NULL /\ pg = Tab0(r, va)
    BY <2>1, <2>2 DEF WalkShape
  <2> QED
    BY <1>1, <2>1, <2>2, <2>3, TreeParts
<1>5. \A pg \in Pages : pg \notin Low(r) => entry'[pg] = entry[pg]
  <2> SUFFICES ASSUME NEW pg \in Pages, pg \notin Low(r) PROVE entry'[pg] = entry[pg]
    OBVIOUS
  <2>1. \A i \in Idx : ~Hit(pg, i)
    BY <1>4
  <2> HIDE DEF Hit
  <2>2. entry[pg] = [i \in Idx |-> entry[pg][i]]
    BY DEF EntryInv
  <2> QED
    BY <1>2, <2>1, <2>2
<1>6. EntryInv'
  <2>1. Zero \in Entry
    BY Numbers DEF Zero, Entry
  <2> HIDE DEF Hit
  <2>2. \A pg \in Pages : entry'[pg] \in [Idx -> Entry]
    BY <1>2, <1>3, <2>1 DEF EntryInv
  <2>3. \A pg \in Pages : \A i \in Idx : entry'[pg][i].to = NULL => entry'[pg][i] = Zero
    BY <1>3 DEF EntryInv
  <2> QED
    BY <1>2, <2>2, <2>3 DEF EntryInv
<1>7. \A pg \in {r} \cup Sub(r) : pg \in Pages /\ pg \notin Low(r)
  BY <1>1 DEF Tree, Inner
<1>8. /\ Good(r)' /\ TablesOf(r)' = TablesOf(r)
      /\ \A vb \in VAs :
           /\ Walk(r, vb)' = Walk(r, vb)
           /\ Lookup(r, vb)' = IF Tab1(r, vb) = NULL \/ Tab0(r, vb) = NULL THEN NULL
                               ELSE entry'[Tab0(r, vb)][PX(0, vb)].to
  BY <1>5, <1>6, <1>7, LowTables
<1>9. ASSUME NEW vb \in VAs PROVE Lookup(r, vb)' = IF vb \in V THEN NULL ELSE Lookup(r, vb)
  <2>1. CASE Tab1(r, vb) = NULL \/ Tab0(r, vb) = NULL
    BY <1>1, <1>8, <2>1 DEF WalkShape
  <2>2. CASE Tab1(r, vb) # NULL /\ Tab0(r, vb) # NULL
    <3>1. PICK t, i : t = Tab0(r, vb) /\ i = PX(0, vb)
      OBVIOUS
    <3>2. t \in Pages /\ i \in Idx
      BY <1>1, <2>2, <3>1, TreeParts, IndexIs
    <3>3. Lookup(r, vb)' = entry'[t][i].to /\ Lookup(r, vb) = entry[t][i].to
      BY <1>1, <1>8, <2>2, <3>1 DEF WalkShape
    <3>4. ASSUME vb \in V PROVE Hit(t, i)
      BY <1>1, <2>2, <3>1, <3>4 DEF WalkShape
    <3>5. ASSUME Hit(t, i) PROVE vb \in V
      <4>1. PICK va \in V : /\ i = PX(0, va) /\ Tab1(r, va) # NULL /\ Tab0(r, va) # NULL
                            /\ t = Tab0(r, va)
        BY <1>4, <3>5
      <4>2. PX(2, va) = PX(2, vb) /\ PX(1, va) = PX(1, vb)
        BY <1>1, <2>2, <3>1, <4>1, OneWay
      <4>3. \A level \in 0..2 : level \in {0, 1, 2}
        OBVIOUS
      <4>4. va = vb
        BY <3>1, <4>1, <4>2, <4>3, Paths
      <4> QED
        BY <4>1, <4>4
    <3>6. Zero.to = NULL
      BY DEF Zero
    <3> HIDE DEF Hit
    <3> QED
      BY <1>3, <3>2, <3>3, <3>4, <3>5, <3>6
  <2> QED
    BY <2>1, <2>2
<1>10. Low(r) \subseteq TablesOf(r)
  BY DEF TablesOf
<1> QED
  BY <1>5, <1>6, <1>8, <1>9, <1>10

-----------------------------------------------------------------------------
(* Claims *)

FreeList == <<"free", 0, 0>>
TrapframeOf(p) == <<"trapframe", p, 0>>
HandOf(t) == <<"hand", t, 0>>
TableOf(r) == <<"table", r, 0>>
FrameOf(r, va) == <<"frame", r, va>>

\* The claims by their names
LEMMA ClaimsAre ==
    /\ FreeList \in Claims
    /\ \A p \in Procs : TrapframeOf(p) \in Claims
    /\ \A t \in Threads : HandOf(t) \in Claims
    /\ \A r \in Pages : TableOf(r) \in Claims
    /\ \A r \in Pages, va \in UserVas : FrameOf(r, va) \in Claims
    /\ \A c \in Claims : \/ c = FreeList
                         \/ \E p \in Procs : c = TrapframeOf(p)
                         \/ \E t \in Threads : c = HandOf(t)
                         \/ \E r \in Pages : c = TableOf(r)
                         \/ \E r \in Pages, va \in UserVas : c = FrameOf(r, va)
  BY DEF Claims, FreeList, TrapframeOf, HandOf, TableOf, FrameOf

\* ... which are different
LEMMA ClaimsDiffer ==
    /\ \A x : FreeList # TrapframeOf(x) /\ FreeList # HandOf(x) /\ FreeList # TableOf(x)
    /\ \A x, y : FreeList # FrameOf(x, y)
    /\ \A x, y : /\ TrapframeOf(x) # HandOf(y) /\ TrapframeOf(x) # TableOf(y)
                 /\ HandOf(x) # TableOf(y)
    /\ \A x, y, v : /\ TrapframeOf(x) # FrameOf(y, v) /\ HandOf(x) # FrameOf(y, v)
                    /\ TableOf(x) # FrameOf(y, v)
    /\ \A x, y : /\ TrapframeOf(x) = TrapframeOf(y) => x = y
                 /\ HandOf(x) = HandOf(y) => x = y
                 /\ TableOf(x) = TableOf(y) => x = y
    /\ \A x, y, u, v : FrameOf(x, u) = FrameOf(y, v) => x = y /\ u = v
  BY DEF FreeList, TrapframeOf, HandOf, TableOf, FrameOf

HasParts ==
    /\ Has(FreeList) = ToSet(freelist)
    /\ \A p \in Procs : Has(TrapframeOf(p)) = {trapframe[p]} \ {NULL}
    /\ \A t \in Threads : Has(HandOf(t)) = Hand(t)
    /\ \A r \in Pages : Has(TableOf(r)) = IF r \in Roots THEN TablesOf(r) ELSE {}
    /\ \A r \in Pages, va \in UserVas :
         Has(FrameOf(r, va)) = IF r \in Roots THEN {Lookup(r, va)} \ {NULL} ELSE {}

\* ... and what they have, in this state and in the next
LEMMA HasNow == HasParts
  BY DEF HasParts, Has, FreeList, TrapframeOf, HandOf, TableOf, FrameOf

LEMMA HasNext == HasParts'
  BY HasNow, PTL

\* A page moves from one claim to another
LEMMA Moved ==
    ASSUME Apart, NEW from \in Claims, NEW to \in Claims, from # to,
           Has(to)' \subseteq Has(to) \cup (Has(from) \ Has(from)'),
           \A c \in Claims : c # to => Has(c)' \subseteq Has(c)
    PROVE  Apart'
<1> SUFFICES ASSUME NEW c \in Claims, NEW d \in Claims, c # d PROVE (Has(c) \cap Has(d))' = {}
  BY DEF Apart
<1>1. /\ Has(c) \cap Has(d) = {}
      /\ c # from => Has(c) \cap Has(from) = {}
      /\ d # from => Has(d) \cap Has(from) = {}
  BY DEF Apart
<1>2. CASE c = to
  BY <1>1, <1>2
<1>3. CASE d = to
  BY <1>1, <1>3
<1>4. CASE c # to /\ d # to
  BY <1>1, <1>4
<1> QED
  BY <1>2, <1>3, <1>4

\* Nobody has more than before
LEMMA Kept ==
    ASSUME Apart, \A c \in Claims : Has(c)' \subseteq Has(c)
    PROVE  Apart'
<1> SUFFICES ASSUME NEW c \in Claims, NEW d \in Claims, c # d PROVE (Has(c) \cap Has(d))' = {}
  BY DEF Apart
<1>1. Has(c) \cap Has(d) = {}
  BY DEF Apart
<1> QED
  BY <1>1

\* Nobody but who gets a page has more than before
LEMMA NoMore ==
    ASSUME NEW to,
           to # FreeList => ToSet(freelist)' \subseteq ToSet(freelist),
           \A p \in Procs : to # TrapframeOf(p) => trapframe'[p] \in {trapframe[p], NULL},
           \A t \in Threads : to # HandOf(t) => Hand(t)' \subseteq Hand(t),
           \A r \in Roots' : r \in Pages =>
             /\ to # TableOf(r) => r \in Roots /\ TablesOf(r)' \subseteq TablesOf(r)
             /\ \A va \in UserVas : to # FrameOf(r, va) =>
                  Lookup(r, va)' = NULL \/ (r \in Roots /\ Lookup(r, va)' = Lookup(r, va))
    PROVE  \A c \in Claims : c # to => Has(c)' \subseteq Has(c)
<1> SUFFICES ASSUME NEW c \in Claims, c # to PROVE Has(c)' \subseteq Has(c)
  OBVIOUS
<1>1. CASE c = FreeList
  BY <1>1, HasNow, HasNext DEF HasParts
<1>2. ASSUME NEW p \in Procs, c = TrapframeOf(p) PROVE Has(c)' \subseteq Has(c)
  <2>1. /\ Has(TrapframeOf(p))' = {trapframe'[p]} \ {NULL}
        /\ Has(TrapframeOf(p)) = {trapframe[p]} \ {NULL}
    BY HasNow, HasNext DEF HasParts
  <2> QED
    BY <1>2, <2>1
<1>3. ASSUME NEW t \in Threads, c = HandOf(t) PROVE Has(c)' \subseteq Has(c)
  BY <1>3, HasNow, HasNext DEF HasParts
<1>4. ASSUME NEW r \in Pages, c = TableOf(r) PROVE Has(c)' \subseteq Has(c)
  <2>1. Has(TableOf(r)) = (IF r \in Roots THEN TablesOf(r) ELSE {})
        /\ Has(TableOf(r))' = (IF r \in Roots' THEN TablesOf(r)' ELSE {})
    BY HasNow, HasNext DEF HasParts
  <2> QED
    BY <1>4, <2>1
<1>5. ASSUME NEW r \in Pages, NEW va \in UserVas, c = FrameOf(r, va)
      PROVE  Has(c)' \subseteq Has(c)
  <2>1. Has(FrameOf(r, va)) = (IF r \in Roots THEN {Lookup(r, va)} \ {NULL} ELSE {})
        /\ Has(FrameOf(r, va))' = (IF r \in Roots' THEN {Lookup(r, va)'} \ {NULL} ELSE {})
    BY HasNow, HasNext DEF HasParts
  <2> QED
    BY <1>5, <2>1
<1> QED
  BY <1>1, <1>2, <1>3, <1>4, <1>5, ClaimsAre

\* The invariant, pair by pair
LEMMA Pairs ==
    ASSUME MemoryInv
    PROVE  /\ \A r \in Roots : r \in Pages /\ Good(r) /\ TablesOf(r) \subseteq Pages
           /\ \A t \in Threads : Hand(t) \subseteq Pages
           /\ \A t \in Threads : ToSet(freelist) \cap Hand(t) = {}
           /\ \A p \in Procs : trapframe[p] \notin ToSet(freelist)
           /\ \A r \in Roots : ToSet(freelist) \cap TablesOf(r) = {}
           /\ \A r \in Roots, va \in UserVas : Lookup(r, va) \notin ToSet(freelist)
           /\ \A t \in Threads, p \in Procs : trapframe[p] \notin Hand(t)
           /\ \A t, u \in Threads : t # u => Hand(t) \cap Hand(u) = {}
           /\ \A t \in Threads, r \in Roots : Hand(t) \cap TablesOf(r) = {}
           /\ \A t \in Threads, r \in Roots, va \in UserVas : Lookup(r, va) \notin Hand(t)
           /\ \A p, q \in Procs : trapframe[p] = trapframe[q] /\ trapframe[p] # NULL => p = q
           /\ \A p \in Procs, r \in Roots : trapframe[p] \notin TablesOf(r)
           /\ \A p \in Procs, r \in Roots, va \in UserVas : trapframe[p] = Lookup(r, va) =>
                trapframe[p] = NULL
           /\ \A r, s \in Roots : r # s => TablesOf(r) \cap TablesOf(s) = {}
           /\ \A r, s \in Roots, va \in UserVas : Lookup(r, va) \notin TablesOf(s)
           /\ \A r, s \in Roots, va, vb \in UserVas :
                Lookup(r, va) = Lookup(s, vb) /\ Lookup(r, va) # NULL => r = s /\ va = vb
<1> USE DEF MemoryInv
<1>1. \A r \in Roots : r \in Pages /\ Good(r) /\ TablesOf(r) \subseteq Pages
  <2> SUFFICES ASSUME NEW r \in Roots
               PROVE  r \in Pages /\ Good(r) /\ TablesOf(r) \subseteq Pages
    OBVIOUS
  <2>1. Good(r) /\ Tree(r) /\ EntryInv
    BY DEF Trees, Good, Types
  <2>2. r \in Pages /\ Sub(r) \subseteq Pages
    BY <2>1 DEF Tree, Inner
  <2>3. Low(r) \subseteq Pages
    <3> SUFFICES ASSUME NEW q \in Sub(r), NEW i \in Idx, entry[q][i].to # NULL
                 PROVE  entry[q][i].to \in Pages
      BY DEF Low, Sub
    <3> QED
      BY <2>1, <2>2, ZeroIs, Numbers DEF Tree, Inner
  <2> QED
    BY <2>1, <2>2, <2>3 DEF TablesOf
<1>2. \A t \in Threads : Hand(t) \subseteq Pages
  <2> SUFFICES ASSUME NEW t \in Threads PROVE Hand(t) \subseteq Pages
    OBVIOUS
  <2>1. loc[t] \in Locals
    BY DEF Types
  <2>2. loc[t].new \in Pages \cup {NULL} /\ ToSet(loc[t].todo) \subseteq Pages
    BY <2>1, Numbers DEF Locals, ToSet
  <2>3. loc[t].child = "none" => loc[t].pa \in Pages \cup {NULL}
    <3>1. CASE at[t] \in {"user", "gone", "spins"}
      BY <3>1 DEF Shape, NoLocals
    <3>2. CASE at[t] \notin {"user", "gone", "spins"}
      <4> SUFFICES ASSUME loc[t].child = "none" PROVE loc[t].pa \in Pages \cup {NULL}
        OBVIOUS
      <4>1. Serves(t)
        BY <3>2 DEF Task
      <4> QED
        BY <4>1 DEF Serves
    <3> QED
      BY <3>1, <3>2
  <2> QED
    BY <2>2, <2>3 DEF Hand
<1>3. Apart /\ \A c, d \in Claims : c # d => Has(c) \cap Has(d) = {}
  BY DEF Apart
<1>4. NULL \notin ToSet(freelist) /\ \A t \in Threads : NULL \notin Hand(t)
  BY Numbers DEF Types, ToSet, Hand
<1>5. \A r \in Roots : NULL \notin TablesOf(r)
  BY <1>1, Numbers
<1> DEFINE F == ToSet(freelist)
<1> HIDE DEF F, MemoryInv
<1>h. /\ Has(FreeList) = F
      /\ \A p \in Procs : Has(TrapframeOf(p)) = {trapframe[p]} \ {NULL}
      /\ \A t \in Threads : Has(HandOf(t)) = Hand(t)
      /\ \A r \in Roots : Has(TableOf(r)) = TablesOf(r)
      /\ \A r \in Roots, va \in UserVas : Has(FrameOf(r, va)) = {Lookup(r, va)} \ {NULL}
  BY <1>1, HasNow DEF HasParts, F
<1>c. /\ FreeList \in Claims
      /\ \A p \in Procs : TrapframeOf(p) \in Claims
      /\ \A t \in Threads : HandOf(t) \in Claims
      /\ \A r \in Roots : TableOf(r) \in Claims
      /\ \A r \in Roots, va \in UserVas : FrameOf(r, va) \in Claims
  BY <1>1, ClaimsAre
<1>6. \A t \in Threads : F \cap Hand(t) = {}
  BY <1>3, <1>h, <1>c, ClaimsDiffer
<1>7. \A p \in Procs : trapframe[p] \notin F
  <2> SUFFICES ASSUME NEW p \in Procs, trapframe[p] \in F PROVE FALSE
    OBVIOUS
  <2>1. Has(FreeList) \cap Has(TrapframeOf(p)) = {}
    BY <1>3, <1>c, ClaimsDiffer
  <2> QED
    BY <1>4, <1>h, <2>1 DEF F
<1>8. \A r \in Roots : F \cap TablesOf(r) = {}
  <2> SUFFICES ASSUME NEW r \in Roots PROVE F \cap TablesOf(r) = {}
    OBVIOUS
  <2>1. Has(FreeList) \cap Has(TableOf(r)) = {}
    BY <1>3, <1>c, ClaimsDiffer
  <2> QED
    BY <1>h, <2>1
<1>9. \A r \in Roots, va \in UserVas : Lookup(r, va) \notin F
  <2> SUFFICES ASSUME NEW r \in Roots, NEW va \in UserVas, Lookup(r, va) \in F PROVE FALSE
    OBVIOUS
  <2>1. Has(FreeList) \cap Has(FrameOf(r, va)) = {}
    BY <1>3, <1>c, ClaimsDiffer
  <2> QED
    BY <1>4, <1>h, <2>1 DEF F
<1>10. \A t \in Threads, p \in Procs : trapframe[p] \notin Hand(t)
  <2> SUFFICES ASSUME NEW t \in Threads, NEW p \in Procs, trapframe[p] \in Hand(t) PROVE FALSE
    OBVIOUS
  <2>1. Has(HandOf(t)) \cap Has(TrapframeOf(p)) = {}
    BY <1>3, <1>c, ClaimsDiffer
  <2> QED
    BY <1>4, <1>h, <2>1
<1>11. \A t, u \in Threads : t # u => Hand(t) \cap Hand(u) = {}
  BY <1>3, <1>h, <1>c, ClaimsDiffer
<1>12. \A t \in Threads, r \in Roots : Hand(t) \cap TablesOf(r) = {}
  BY <1>3, <1>h, <1>c, ClaimsDiffer
<1>13. \A t \in Threads, r \in Roots, va \in UserVas : Lookup(r, va) \notin Hand(t)
  <2> SUFFICES ASSUME NEW t \in Threads, NEW r \in Roots, NEW va \in UserVas,
                      Lookup(r, va) \in Hand(t) PROVE FALSE
    OBVIOUS
  <2>1. Has(HandOf(t)) \cap Has(FrameOf(r, va)) = {}
    BY <1>3, <1>c, ClaimsDiffer
  <2> QED
    BY <1>4, <1>h, <2>1
<1>14. \A p, q \in Procs : trapframe[p] = trapframe[q] /\ trapframe[p] # NULL => p = q
  <2> SUFFICES ASSUME NEW p \in Procs, NEW q \in Procs, p # q
               PROVE  ({trapframe[p]} \ {NULL}) \cap ({trapframe[q]} \ {NULL}) = {}
    OBVIOUS
  <2>1. Has(TrapframeOf(p)) \cap Has(TrapframeOf(q)) = {}
    BY <1>3, <1>c, ClaimsDiffer
  <2> QED
    BY <1>h, <2>1
<1>15. \A p \in Procs, r \in Roots : trapframe[p] \notin TablesOf(r)
  <2> SUFFICES ASSUME NEW p \in Procs, NEW r \in Roots, trapframe[p] \in TablesOf(r)
               PROVE  FALSE
    OBVIOUS
  <2>1. Has(TableOf(r)) \cap Has(TrapframeOf(p)) = {}
    BY <1>3, <1>c, ClaimsDiffer
  <2> QED
    BY <1>5, <1>h, <2>1
<1>16. \A p \in Procs, r \in Roots, va \in UserVas : trapframe[p] = Lookup(r, va) =>
           trapframe[p] = NULL
  <2> SUFFICES ASSUME NEW p \in Procs, NEW r \in Roots, NEW va \in UserVas
               PROVE  ({trapframe[p]} \ {NULL}) \cap ({Lookup(r, va)} \ {NULL}) = {}
    OBVIOUS
  <2>1. Has(TrapframeOf(p)) \cap Has(FrameOf(r, va)) = {}
    BY <1>3, <1>c, ClaimsDiffer
  <2> QED
    BY <1>h, <2>1
<1>17. \A r, s \in Roots : r # s => TablesOf(r) \cap TablesOf(s) = {}
  <2> SUFFICES ASSUME NEW r \in Roots, NEW s \in Roots, r # s
               PROVE  TablesOf(r) \cap TablesOf(s) = {}
    OBVIOUS
  <2>1. Has(TableOf(r)) \cap Has(TableOf(s)) = {}
    BY <1>3, <1>c, ClaimsDiffer
  <2> QED
    BY <1>h, <2>1
<1>18. \A r, s \in Roots, va \in UserVas : Lookup(r, va) \notin TablesOf(s)
  <2> SUFFICES ASSUME NEW r \in Roots, NEW s \in Roots, NEW va \in UserVas,
                      Lookup(r, va) \in TablesOf(s) PROVE FALSE
    OBVIOUS
  <2>1. Has(TableOf(s)) \cap Has(FrameOf(r, va)) = {}
    BY <1>3, <1>c, ClaimsDiffer
  <2> QED
    BY <1>5, <1>h, <2>1
<1>19. \A r, s \in Roots, va, vb \in UserVas :
                Lookup(r, va) = Lookup(s, vb) /\ Lookup(r, va) # NULL => r = s /\ va = vb
  <2> SUFFICES ASSUME NEW r \in Roots, NEW s \in Roots, NEW va \in UserVas, NEW vb \in UserVas,
                      Lookup(r, va) = Lookup(s, vb), Lookup(r, va) # NULL, ~(r = s /\ va = vb)
               PROVE  FALSE
    OBVIOUS
  <2>1. Has(FrameOf(r, va)) \cap Has(FrameOf(s, vb)) = {}
    BY <1>3, <1>c, ClaimsDiffer
  <2> QED
    BY <1>h, <2>1
<1> QED
  BY <1>1, <1>2, <1>6, <1>7, <1>8, <1>9, <1>10, <1>11, <1>12, <1>13, <1>14, <1>15, <1>16,
     <1>17, <1>18, <1>19 DEF F

-----------------------------------------------------------------------------
(* What a step of one thread leaves to prove *)

\* No two threads work on the same tables
LEMMA OneRoot ==
    ASSUME MemoryInv, NEW t \in Threads, NEW u \in Threads, t # u, loc[t].root = loc[u].root
    PROVE  loc[t].root = NULL
<1> USE DEF MemoryInv
<1>1. Alone(t) /\ Alone(u) /\ Shape(t) /\ Shape(u) /\ Task(t) /\ Task(u)
  OBVIOUS
<1>2. CASE loc[t].child # "none" \/ loc[u].child # "none"
  BY <1>1, <1>2 DEF Alone
<1>3. CASE at[t] \in {"user", "gone", "spins"} \/ at[u] \in {"user", "gone", "spins"}
  BY <1>1, <1>3 DEF Shape, NoLocals
<1>4. CASE /\ loc[t].child = "none" /\ loc[u].child = "none"
           /\ at[t] \notin {"user", "gone", "spins"} /\ at[u] \notin {"user", "gone", "spins"}
  <2>1. t \in Procs /\ u \in Procs /\ loc[t].root = pagetable[t] /\ loc[u].root = pagetable[u]
    BY <1>1, <1>4 DEF Task, Serves
  <2>2. Slot(t)
    BY <2>1
  <2> QED
    BY <2>1, <2>2 DEF Slot
<1> QED
  BY <1>2, <1>3, <1>4

\* Nobody makes or reaps a process that runs
LEMMA NobodysChild ==
    ASSUME MemoryInv, NEW p \in Procs, state[p] = "RUNNABLE", NEW u \in Threads
    PROVE  loc[u].child # p
<1>1. Shape(u) /\ Task(u) /\ p # "none"
  BY MemoryAssumption DEF MemoryInv
<1>2. CASE at[u] \in {"user", "gone", "spins"}
  BY <1>1, <1>2 DEF Shape, NoLocals
<1>3. CASE at[u] \notin {"user", "gone", "spins"}
  BY <1>1, <1>3 DEF Task, Makes, Reaps
<1> QED
  BY <1>2, <1>3

\* Nobody works on the tables of a process that runs in user mode, nor on a zombie's
LEMMA OwnRoot ==
    ASSUME MemoryInv, NEW p \in Procs, NEW u \in Threads,
           u # p \/ loc[p].child # "none" \/ at[p] \in {"user", "gone", "spins"},
           loc[u].child # p, loc[u].root = pagetable[p]
    PROVE  pagetable[p] = NULL
<1> USE DEF MemoryInv
<1>1. Shape(u) /\ Task(u)
  OBVIOUS
<1>2. CASE at[u] \in {"user", "gone", "spins"}
  BY <1>1, <1>2 DEF Shape, NoLocals
<1>3. CASE at[u] \notin {"user", "gone", "spins"} /\ loc[u].child = "none"
  <2>1. u \in Procs /\ loc[u].root = pagetable[u]
    BY <1>1, <1>3 DEF Task, Serves
  <2>2. Slot(u)
    BY <2>1
  <2> QED
    BY <1>3, <2>1, <2>2 DEF Slot
<1>4. CASE at[u] \notin {"user", "gone", "spins"} /\ loc[u].child # "none"
  <2>1. CASE at[u] = "forks"
    <3>1. pagetable[loc[u].child] = loc[u].root
      BY <1>1, <1>4, <2>1 DEF Task, Makes, Reaps, Freeing
    <3>2. loc[u].child \in Procs
      BY <1>4 DEF Types, Locals
    <3> QED
      BY <3>1, <3>2 DEF Slot
  <2>2. CASE at[u] # "forks"
    BY <1>1, <1>4, <2>2 DEF Task, Makes, Reaps
  <2> QED
    BY <2>1, <2>2
<1> QED
  BY <1>2, <1>3, <1>4

\* What a step of others leaves to a thread
LEMMA Others ==
    ASSUME MemoryInv, NEW t \in Threads, NEW u \in Threads, u # t, at'[u] = at[u],
               loc'[u] = loc[u],
           \A q \in Hand(u) : mem'[q] = mem[q],
           loc[u].child # "none" => /\ state'[loc[u].child] = state[loc[u].child]
                                    /\ trapframe'[loc[u].child] = trapframe[loc[u].child]
                                    /\ pagetable'[loc[u].child] = pagetable[loc[u].child],
           u \in Procs /\ loc[u].child = "none" /\ at[u] \notin {"user", "gone", "spins"} =>
              pagetable'[u] = pagetable[u],
           \A p \in Procs : pagetable'[p] \in {pagetable[p], NULL, loc[t].root},
           loc[u].root # NULL => \A va \in VAs :
              /\ Walk(loc[u].root, va)' = Walk(loc[u].root, va)
              /\ Lookup(loc[u].root, va)' = Lookup(loc[u].root, va)
    PROVE  Shape(u)' /\ Task(u)'
<1> USE DEF MemoryInv
<1>1. Shape(u) /\ Task(u) /\ Types /\ loc[u] \in Locals
  BY DEF Types
<1>2. Shape(u)'
  <2>1. ASSUME at[u] = "push" PROVE mem'[Head(loc[u].todo)] = mem[Head(loc[u].todo)]
    <3>1. loc[u].todo # <<>> /\ loc[u].todo \in Seq(Pages)
      BY <1>1, <2>1 DEF Shape, Locals
    <3>2. Head(loc[u].todo) \in ToSet(loc[u].todo) /\ Head(loc[u].todo) \in Pages
      BY <3>1 DEF ToSet
    <3>3. Head(loc[u].todo) \in Hand(u)
      BY <3>2, Numbers DEF Hand
    <3> QED
      BY <3>3
  <2> QED
    BY <1>1, <2>1 DEF Shape
<1>3. ASSUME Serves(u), loc[u].child = "none", at[u] \notin {"user", "gone", "spins"} PROVE Serves(u)'
  <2>1. loc[u].root # NULL /\ at[u] \in Mapping => loc[u].va \in VAs
    BY <1>3 DEF Serves, VAs
  <2>2. loc[u].root # NULL
    <3>1. Slot(u) /\ u \in Procs /\ at[u] # "gone"
      BY <1>3 DEF Serves
    <3> QED
      BY <1>3, <3>1 DEF Slot, Serves
  <2>3. at[u] = "mapped" => Lookup(loc[u].root, loc[u].va)' = Lookup(loc[u].root, loc[u].va)
    BY <2>1, <2>2 DEF Mapping
  <2>4. u \in Procs /\ pagetable'[u] = pagetable[u]
    BY <1>3 DEF Serves
  <2> QED
    BY <1>3, <2>3, <2>4 DEF Serves
<1>4. ASSUME Makes(u), loc[u].child # "none" PROVE Makes(u)'
  <2>1. \A p \in Procs : at[u] \in Mapping => pagetable'[p] # loc[u].root
    <3> SUFFICES ASSUME NEW p \in Procs, at[u] \in Mapping PROVE pagetable'[p] # loc[u].root
      OBVIOUS
    <3>1. loc[u].root # NULL /\ pagetable[p] # loc[u].root
      BY <1>4 DEF Makes
    <3>2. loc[t].root # loc[u].root
      BY <3>1, OneRoot
    <3> QED
      BY <3>1, <3>2
  <2> QED
    BY <1>4, <2>1 DEF Makes
<1>5. ASSUME Reaps(u), loc[u].child # "none" PROVE Reaps(u)'
  BY <1>5 DEF Reaps
<1>6. at[u] = "link" => Walk(loc[u].root, loc[u].va)' = Walk(loc[u].root, loc[u].va)
  <2> SUFFICES ASSUME at[u] = "link" PROVE loc[u].root # NULL /\ loc[u].va \in VAs
    OBVIOUS
  <2>1. CASE loc[u].child = "none"
    <3>1. Serves(u)
      BY <1>1, <2>1 DEF Task
    <3>2. Slot(u) /\ u \in Procs /\ at[u] # "gone"
      BY <3>1 DEF Serves
    <3> QED
      BY <3>1, <3>2 DEF Slot, Serves, VAs, Mapping
  <2>2. CASE loc[u].child # "none"
    BY <1>1, <2>2 DEF Task, Makes, Reaps, Mapping, Freeing, VAs
  <2> QED
    BY <2>1, <2>2
<1>7. Task(u)'
  <2>1. at'[u] \notin {"user", "gone", "spins"} =>
          IF loc'[u].child = "none" THEN Serves(u)' ELSE Makes(u)' \/ Reaps(u)'
    BY <1>1, <1>3, <1>4, <1>5 DEF Task
  <2>2. (at[u] = "link" => Walk(loc[u].root, loc[u].va).level > 0)'
    BY <1>1, <1>6 DEF Task
  <2> QED
    BY <2>1, <2>2 DEF Task
<1> QED
  BY <1>2, <1>7

\* A thread that takes no child and no tables but its own
LEMMA AllAlone ==
    ASSUME MemoryInv, NEW t \in Threads,
           \A u \in Threads : u # t => /\ loc'[u].child = loc[u].child
                                       /\ loc'[u].root = loc[u].root,
           loc'[t].child # "none" => \A u \in Threads : u # t => loc[u].child # loc'[t].child,
           \A u \in Threads : u # t /\ loc[u].root = loc'[t].root =>
              loc'[t].root = NULL \/ (loc'[t].child = "none" /\ loc[u].child = "none")
    PROVE  \A u \in Threads : Alone(u)'
<1> SUFFICES ASSUME NEW u \in Threads PROVE Alone(u)'
  OBVIOUS
<1>1. Alone(u)
  BY DEF MemoryInv
<1>2. CASE u = t
  BY <1>2 DEF Alone
<1>3. CASE u # t
  BY <1>1, <1>3 DEF Alone
<1> QED
  BY <1>2, <1>3

\* A step that leaves the process table alone
LEMMA AllSlots ==
    ASSUME MemoryInv, UNCHANGED procs, NEW t \in Threads,
           \A p \in Procs : at'[p] = "gone" <=> at[p] = "gone",
           \A u \in Threads : u # t => loc'[u].child = loc[u].child,
           loc'[t].child = loc[t].child \/ \A p \in Procs : p = loc[t].child =>
               state[p] # "ZOMBIE"
    PROVE  \A p \in Procs : Slot(p)'
<1> SUFFICES ASSUME NEW p \in Procs PROVE Slot(p)'
  OBVIOUS
<1>1. Slot(p)
  BY DEF MemoryInv
<1>2. state[p] = "ZOMBIE" /\ (\E u \in Threads : loc[u].child = p)
        => \E u \in Threads : loc'[u].child = p
  OBVIOUS
<1> QED
  BY <1>1, <1>2 DEF Slot, procs

\* What GoOn leaves of the invariant to prove
LEMMA Going ==
    ASSUME MemoryInv, NEW t \in Threads, NEW label \in Labels, NEW l \in Locals,
               GoOn(t, label, l),
           UNCHANGED procs, label # "gone", at[t] # "gone",
           \A u \in Threads : u # t => \A q \in Hand(u) : mem'[q] = mem[q],
           \A r \in Roots : r # loc[t].root => \A va \in VAs :
              Walk(r, va)' = Walk(r, va) /\ Lookup(r, va)' = Lookup(r, va),
           \/ l.child = loc[t].child
           \/ l.child = "none" /\ \A p \in Procs : p = loc[t].child => state[p] # "ZOMBIE"
           \/ loc[t].child = "none" /\ \A u \in Threads : loc[u].child # l.child,
           \/ l.root \in {loc[t].root, NULL}
           \/ l.root \notin Roots
           \/ l.root = pagetable[t] /\ t \in Procs /\ at[t] = "user"
    PROVE  /\ at' \in [Threads -> Labels] /\ loc' \in [Threads -> Locals]
           /\ at'[t] = label /\ loc'[t] = l
           /\ \A u \in Threads : u # t => Shape(u)' /\ Task(u)' /\ Hand(u)' = Hand(u)
           /\ \A u \in Threads : Alone(u)'
           /\ \A p \in Procs : Slot(p)'
           /\ Roots' \subseteq Roots \cup ({l.root} \ {NULL})
<1>1. at \in [Threads -> Labels] /\ loc \in [Threads -> Locals]
  BY DEF MemoryInv, Types
<1>2. /\ at' \in [Threads -> Labels] /\ loc' \in [Threads -> Locals]
      /\ at'[t] = label /\ loc'[t] = l
      /\ \A u \in Threads : u # t => at'[u] = at[u] /\ loc'[u] = loc[u]
  BY <1>1 DEF GoOn
<1>3. state' = state /\ trapframe' = trapframe /\ pagetable' = pagetable
  BY DEF procs
<1>4. ASSUME NEW u \in Threads, u # t PROVE Shape(u)' /\ Task(u)' /\ Hand(u)' = Hand(u)
  <2>1. ASSUME loc[u].root # NULL
        PROVE  \A va \in VAs : /\ Walk(loc[u].root, va)' = Walk(loc[u].root, va)
                               /\ Lookup(loc[u].root, va)' = Lookup(loc[u].root, va)
    <3>1. PICK r : r = loc[u].root
      OBVIOUS
    <3>2. r \in Roots /\ r # loc[t].root
      BY <1>4, <2>1, <3>1, OneRoot DEF Roots
    <3>3. r = loc'[u].root
      BY <1>2, <1>4, <3>1
    <3>4. \A va \in VAs : Walk(r, va)' = Walk(r, va) /\ Lookup(r, va)' = Lookup(r, va)
      BY <3>2
    <3> QED
      BY <3>1, <3>3, <3>4
  <2>2. \A q \in Hand(u) : mem'[q] = mem[q]
    BY <1>4
  <2>3. Shape(u)' /\ Task(u)'
    BY <1>2, <1>3, <1>4, <2>1, <2>2, Others
  <2> QED
    BY <1>2, <1>4, <2>3 DEF Hand
<1>5. \A u \in Threads : Alone(u)'
  <2>1. \A u \in Threads : u # t => loc'[u].child = loc[u].child /\ loc'[u].root = loc[u].root
    BY <1>2
  <2>2. loc'[t].child # "none" => \A u \in Threads : u # t => loc[u].child # loc'[t].child
    <3>1. Alone(t)
      BY DEF MemoryInv
    <3> QED
      BY <1>2, <3>1 DEF Alone
  <2>3. \A u \in Threads : u # t /\ loc[u].root = loc'[t].root => loc'[t].root = NULL
    <3> SUFFICES ASSUME NEW u \in Threads, u # t, loc[u].root = l.root, l.root # NULL
                 PROVE  FALSE
      BY <1>2
    <3>1. loc[u].root \in Roots
      BY DEF Roots
    <3>2. l.root # loc[t].root
      BY OneRoot
    <3>3. l.root = pagetable[t] /\ t \in Procs /\ at[t] = "user"
      BY <3>1, <3>2
    <3>4. state[t] = "RUNNABLE" /\ loc[u].child # t
      BY <3>3, NobodysChild DEF MemoryInv, Slot
    <3> QED
      BY <3>3, <3>4, OwnRoot
  <2> QED
    BY <2>1, <2>2, <2>3, AllAlone
<1>6. \A p \in Procs : Slot(p)'
  <2>1. \A p \in Procs : at'[p] = "gone" <=> at[p] = "gone"
    <3>1. Procs \subseteq Threads
      BY DEF Threads
    <3> QED
      BY <1>2, <3>1
  <2>2. \A u \in Threads : u # t => loc'[u].child = loc[u].child
    BY <1>2
  <2>3. loc'[t].child = loc[t].child \/ \A p \in Procs : p = loc[t].child =>
            state[p] # "ZOMBIE"
    BY <1>2, MemoryAssumption
  <2> QED
    BY <2>1, <2>2, <2>3, AllSlots
<1>7. Roots' \subseteq Roots \cup ({l.root} \ {NULL})
  BY <1>2, <1>3 DEF Roots
<1> QED
  BY <1>2, <1>4, <1>5, <1>6, <1>7

\* A step that leaves all tables in use alone
LEMMA Untouched ==
    ASSUME MemoryInv, EntryInv',
           \A r \in Roots : \A pg \in TablesOf(r) :
               entry'[pg] = entry[pg] /\ mem'[pg] = mem[pg]
    PROVE  \A r \in Roots : Same(r)
  BY SameTables, Pairs DEF MemoryInv, Types

\* What a page is filled with that is not a table's
LEMMA Filling ==
    ASSUME MemoryInv, NEW pg \in Pages, NEW with, Fill(pg, with),
           \A r \in Roots : pg \notin TablesOf(r)
    PROVE  /\ EntryInv' /\ (with \in Fills => mem' \in [Pages -> Fills])
           /\ \A r \in Roots : Same(r)
           /\ \A q \in Pages : mem'[q] = IF q = pg THEN with ELSE mem[q]
           /\ entry'[pg] = ZeroTable
<1>1. mem \in [Pages -> Fills] /\ EntryInv
  BY DEF MemoryInv, Types
<1>2. /\ \A q \in Pages : mem'[q] = IF q = pg THEN with ELSE mem[q]
      /\ \A q \in Pages : entry'[q] = IF q = pg THEN ZeroTable ELSE entry[q]
      /\ DOMAIN entry' = Pages /\ entry' = [q \in Pages |-> entry'[q]]
  BY <1>1 DEF Fill, EntryInv
<1>3. EntryInv'
  <2>1. Zero \in Entry /\ \A i \in Idx : ZeroTable[i] = Zero
    BY Numbers DEF Zero, Entry, ZeroTable
  <2>2. ZeroTable \in [Idx -> Entry]
    BY <2>1 DEF ZeroTable
  <2> QED
    BY <1>1, <1>2, <2>1, <2>2 DEF EntryInv
<1>4. \A r \in Roots : \A q \in TablesOf(r) : entry'[q] = entry[q] /\ mem'[q] = mem[q]
  BY <1>2, Pairs
<1>5. with \in Fills => mem' \in [Pages -> Fills]
  BY <1>1 DEF Fill
<1> QED
  BY <1>2, <1>3, <1>4, <1>5, Untouched

\* Where all tables stay what they are, pages move between the free list, trapframes and hands
LEMMA Passing ==
    ASSUME MemoryInv, \A r \in Roots : Same(r), Roots' \subseteq Roots, NEW to,
           to # FreeList => ToSet(freelist)' \subseteq ToSet(freelist),
           \A p \in Procs : to # TrapframeOf(p) => trapframe'[p] \in {trapframe[p], NULL},
           \A t \in Threads : to # HandOf(t) => Hand(t)' \subseteq Hand(t)
    PROVE  Trees' /\ \A c \in Claims : c # to => Has(c)' \subseteq Has(c)
<1>1. Trees'
  BY DEF Same, Trees
<1>2. \A r \in Roots' : r \in Roots /\ TablesOf(r)' \subseteq TablesOf(r)
                        /\ \A va \in UserVas : Lookup(r, va)' = Lookup(r, va)
  BY DEF Same, VAs
<1>3. \A r \in Roots' : r \in Pages =>
             /\ to # TableOf(r) => r \in Roots /\ TablesOf(r)' \subseteq TablesOf(r)
             /\ \A va \in UserVas : to # FrameOf(r, va) =>
                  Lookup(r, va)' = NULL \/ (r \in Roots /\ Lookup(r, va)' = Lookup(r, va))
  BY <1>2
<1> QED
  BY <1>1, <1>3, NoMore

\* The invariant from its parts
LEMMA Gather ==
    ASSUME MemoryInv, UNCHANGED procs, NEW t \in Threads,
           freelist' \in Seq(Pages), mem' \in [Pages -> Fills], EntryInv',
           at' \in [Threads -> Labels], loc' \in [Threads -> Locals],
           Trees', Apart', Ones', Shape(t)', Task(t)',
           \A u \in Threads : u # t => Shape(u)' /\ Task(u)',
           \A u \in Threads : Alone(u)', \A p \in Procs : Slot(p)'
    PROVE  MemoryInv'
<1>1. Types'
  BY DEF MemoryInv, Types, procs
<1>2. \A u \in Threads : Shape(u)' /\ Task(u)' /\ Alone(u)'
  OBVIOUS
<1> QED
  BY <1>1, <1>2 DEF MemoryInv

\* What is left of a sequence without its head
LEMMA TailIs ==
    ASSUME NEW s \in Seq(Pages), s # <<>>, IsInjective(s)
    PROVE  /\ Head(s) \in Pages /\ Head(s) \in ToSet(s) /\ Tail(s) \in Seq(Pages)
           /\ ToSet(Tail(s)) = ToSet(s) \ {Head(s)} /\ IsInjective(Tail(s))
<1>1. Len(s) \in Nat \ {0} /\ DOMAIN s = 1..Len(s) /\ Head(s) = s[1] /\ 1 \in DOMAIN s
  OBVIOUS
<1>2. Tail(s) \in Seq(Pages) /\ DOMAIN Tail(s) = 1..Len(s) - 1
      /\ \A i \in 1..Len(s) - 1 : Tail(s)[i] = s[i + 1]
  OBVIOUS
<1>3. Head(s) \in Pages /\ Head(s) \in ToSet(s)
  BY <1>1 DEF ToSet
<1> DEFINE c == Tail(s)
<1>4. DOMAIN c = 1..Len(s) - 1 /\ \A i \in DOMAIN c :
          c[i] = s[i + 1] /\ i + 1 \in DOMAIN s /\ i + 1 # 1
  BY <1>1, <1>2
<1> HIDE DEF c
<1>5. IsInjective(c)
  <2> SUFFICES ASSUME NEW i \in DOMAIN c, NEW j \in DOMAIN c, c[i] = c[j] PROVE i = j
    BY DEF IsInjective
  <2>1. i + 1 \in DOMAIN s /\ j + 1 \in DOMAIN s /\ s[i + 1] = s[j + 1]
    BY <1>4
  <2>2. i + 1 = j + 1
    BY <2>1 DEF IsInjective
  <2> QED
    BY <1>1, <1>4, <2>2
<1>6. ASSUME NEW i \in DOMAIN c PROVE c[i] \in ToSet(s) \ {Head(s)}
  <2>1. i + 1 \in DOMAIN s /\ 1 \in DOMAIN s /\ i + 1 # 1 /\ c[i] = s[i + 1]
    BY <1>1, <1>4
  <2>2. s[i + 1] # s[1]
    BY <2>1 DEF IsInjective
  <2> QED
    BY <1>1, <2>1, <2>2 DEF ToSet
<1>7. ASSUME NEW i \in DOMAIN s, s[i] # Head(s) PROVE \E j \in DOMAIN c : c[j] = s[i]
  <2>1. i # 1 /\ i \in 1..Len(s)
    BY <1>1, <1>7
  <2>2. i - 1 \in DOMAIN c /\ (i - 1) + 1 = i
    BY <1>1, <1>4, <2>1
  <2>3. c[i - 1] = s[(i - 1) + 1]
    BY <1>4, <2>2
  <2> QED
    BY <2>2, <2>3
<1>8. ToSet(c) = ToSet(s) \ {Head(s)}
  <2>1. ToSet(c) \subseteq ToSet(s) \ {Head(s)}
    BY <1>6 DEF ToSet
  <2>2. ToSet(s) \ {Head(s)} \subseteq ToSet(c)
    BY <1>7 DEF ToSet
  <2> QED
    BY <2>1, <2>2
<1> QED
  BY <1>2, <1>3, <1>5, <1>8 DEF c

\* The sequences of one page and of none
LEMMA OneIs == ASSUME NEW pg \in Pages
               PROVE  <<pg>> \in Seq(Pages) /\ ToSet(<<pg>>) = {pg} /\ IsInjective(<<pg>>)
<1>1. <<pg>> \in Seq(Pages) /\ DOMAIN <<pg>> = {1} /\ <<pg>>[1] = pg
  OBVIOUS
<1> QED
  BY <1>1 DEF ToSet, IsInjective

LEMMA NoneIs == <<>> \in Seq(Pages) /\ ToSet(<<>>) = {} /\ IsInjective(<<>>)
  BY DEF ToSet, IsInjective

Nobody == <<"nobody", 0, 0>>

\* A page that nobody had before is one that Nobody had
LEMMA NobodyIs == \A c \in Claims : c # Nobody
  BY DEF Nobody, Claims

\* Steps of a thread that change none of the process table: which locals they may leave
Passes(t, l) ==
    /\ \/ l.child = loc[t].child
       \/ l.child = "none" /\ \A p \in Procs : p = loc[t].child => state[p] # "ZOMBIE"
       \/ loc[t].child = "none" /\ \A u \in Threads : loc[u].child # l.child
    /\ \/ l.root \in {loc[t].root, NULL}
       \/ l.root = pagetable[t] /\ t \in Procs /\ at[t] = "user"

\* ... that leave the pages alone, too
LEMMA IdleStep ==
    ASSUME MemoryInv, NEW t \in Threads, NEW label \in Labels, NEW l \in Locals,
               GoOn(t, label, l),
           UNCHANGED procs, UNCHANGED pages, label # "gone", at[t] # "gone", Passes(t, l),
           at'[t] = label /\ loc'[t] = l => Hand(t)' \subseteq Hand(t) /\ Shape(t)' /\ Task(t)'
    PROVE  MemoryInv'
<1>1. freelist' = freelist /\ mem' = mem /\ entry' = entry
  BY DEF pages
<1>2. freelist' \in Seq(Pages) /\ mem' \in [Pages -> Fills] /\ EntryInv'
  BY <1>1 DEF MemoryInv, Types, EntryInv
<1>3. \A r \in Roots : Same(r)
  BY <1>1, <1>2, Untouched
<1>4. /\ at' \in [Threads -> Labels] /\ loc' \in [Threads -> Locals]
      /\ at'[t] = label /\ loc'[t] = l
      /\ \A u \in Threads : u # t => Shape(u)' /\ Task(u)' /\ Hand(u)' = Hand(u)
      /\ \A u \in Threads : Alone(u)'
      /\ \A p \in Procs : Slot(p)'
      /\ Roots' \subseteq Roots \cup ({l.root} \ {NULL})
  BY <1>1, <1>3, Going DEF Passes, Same
<1>5. Shape(t)' /\ Task(t)' /\ \A u \in Threads : Hand(u)' \subseteq Hand(u)
  BY <1>4
<1>6. Roots' \subseteq Roots
  BY <1>4 DEF Passes, Roots
<1>8. Trees' /\ \A c \in Claims : Has(c)' \subseteq Has(c)
  <2>1. trapframe' = trapframe
    BY DEF procs
  <2>2. Trees' /\ \A c \in Claims : c # Nobody => Has(c)' \subseteq Has(c)
    BY <1>1, <1>3, <1>5, <1>6, <2>1, Passing
  <2> QED
    BY <2>2, NobodyIs
<1>9. Apart'
  BY <1>8, Kept DEF MemoryInv
<1>10. Ones'
  BY <1>1 DEF MemoryInv, Ones
<1> QED
  BY <1>2, <1>4, <1>5, <1>8, <1>9, <1>10, Gather

\* ... that take the first free page
LEMMA TakeStep ==
    ASSUME MemoryInv, NEW t \in Threads, NEW label \in Labels, NEW l \in Locals,
               GoOn(t, label, l),
           UNCHANGED procs, UNCHANGED <<mem, entry>>, ~Full, freelist' = Tail(freelist),
           label # "gone", at[t] # "gone", Passes(t, l),
           at'[t] = label /\ loc'[t] = l =>
             Hand(t)' \subseteq Hand(t) \cup {Head(freelist)} /\ Shape(t)' /\ Task(t)'
    PROVE  MemoryInv'
<1>1. mem' = mem /\ entry' = entry
  OBVIOUS
<1>2. mem' \in [Pages -> Fills] /\ EntryInv'
  BY <1>1 DEF MemoryInv, Types, EntryInv
<1>3. \A r \in Roots : Same(r)
  BY <1>1, <1>2, Untouched
<1>4. /\ at' \in [Threads -> Labels] /\ loc' \in [Threads -> Locals]
      /\ at'[t] = label /\ loc'[t] = l
      /\ \A u \in Threads : u # t => Shape(u)' /\ Task(u)' /\ Hand(u)' = Hand(u)
      /\ \A u \in Threads : Alone(u)'
      /\ \A p \in Procs : Slot(p)'
      /\ Roots' \subseteq Roots \cup ({l.root} \ {NULL})
  BY <1>1, <1>3, Going DEF Passes, Same
<1>5. Shape(t)' /\ Task(t)' /\ \A u \in Threads : u # t => Hand(u)' \subseteq Hand(u)
  BY <1>4
<1>6. Roots' \subseteq Roots
  BY <1>4 DEF Passes, Roots
<1>7. /\ freelist' \in Seq(Pages) /\ ToSet(freelist)' = ToSet(freelist) \ {Head(freelist)}
      /\ IsInjective(freelist)' /\ Head(freelist) \in ToSet(freelist)
  BY TailIs DEF MemoryInv, Types, Ones, Full
<1>8. Trees' /\ \A c \in Claims : c # HandOf(t) => Has(c)' \subseteq Has(c)
  <2>1. trapframe' = trapframe
    BY DEF procs
  <2>2. \A u \in Threads : HandOf(t) # HandOf(u) => Hand(u)' \subseteq Hand(u)
    BY <1>5, ClaimsDiffer
  <2> QED
    BY <1>3, <1>6, <1>7, <2>1, <2>2, Passing
<1>9. Apart'
  <2>1. /\ FreeList \in Claims /\ HandOf(t) \in Claims /\ FreeList # HandOf(t)
        /\ Has(FreeList) = ToSet(freelist) /\ Has(FreeList)' = ToSet(freelist)'
        /\ Has(HandOf(t)) = Hand(t) /\ Has(HandOf(t))' = Hand(t)'
    BY ClaimsAre, ClaimsDiffer, HasNow, HasNext DEF HasParts
  <2>2. Has(HandOf(t))' \subseteq Has(HandOf(t)) \cup (Has(FreeList) \ Has(FreeList)')
    BY <1>4, <1>7, <2>1
  <2>3. Apart
    BY DEF MemoryInv
  <2> QED
    BY <1>8, <2>1, <2>2, <2>3, Moved
<1>10. Ones'
  BY <1>1, <1>7 DEF MemoryInv, Ones
<1> QED
  BY <1>2, <1>4, <1>5, <1>7, <1>8, <1>9, <1>10, Gather

\* ... that fill a page in hand
LEMMA FillStep ==
    ASSUME MemoryInv, NEW t \in Threads, NEW label \in Labels, NEW l \in Locals,
               GoOn(t, label, l),
           UNCHANGED procs, NEW pg \in Hand(t), NEW with \in Fills, Fill(pg, with),
           label # "gone", at[t] # "gone", Passes(t, l),
           at'[t] = label /\ loc'[t] = l /\ (\A r \in Roots : Same(r))
              /\ (\A q \in Pages : mem'[q] = IF q = pg THEN with ELSE mem[q]) =>
             Hand(t)' \subseteq Hand(t) /\ Shape(t)' /\ Task(t)'
    PROVE  MemoryInv'
<1>1. freelist' = freelist
  BY DEF Fill
<1>2. pg \in Pages /\ \A r \in Roots : pg \notin TablesOf(r)
  BY Pairs
<1>3. /\ EntryInv' /\ mem' \in [Pages -> Fills] /\ freelist' \in Seq(Pages)
      /\ \A r \in Roots : Same(r)
      /\ \A q \in Pages : mem'[q] = IF q = pg THEN with ELSE mem[q]
  BY <1>1, <1>2, Filling DEF MemoryInv, Types
<1>15. \A u \in Threads : u # t => \A q \in Hand(u) : mem'[q] = mem[q]
  BY <1>3, Pairs
<1>4. /\ at' \in [Threads -> Labels] /\ loc' \in [Threads -> Locals]
      /\ at'[t] = label /\ loc'[t] = l
      /\ \A u \in Threads : u # t => Shape(u)' /\ Task(u)' /\ Hand(u)' = Hand(u)
      /\ \A u \in Threads : Alone(u)'
      /\ \A p \in Procs : Slot(p)'
      /\ Roots' \subseteq Roots \cup ({l.root} \ {NULL})
  BY <1>15, <1>3, Going DEF Passes, Same
<1>5. Shape(t)' /\ Task(t)' /\ \A u \in Threads : Hand(u)' \subseteq Hand(u)
  BY <1>3, <1>4
<1>6. Roots' \subseteq Roots
  BY <1>4 DEF Passes, Roots
<1>8. Trees' /\ \A c \in Claims : Has(c)' \subseteq Has(c)
  <2>1. trapframe' = trapframe
    BY DEF procs
  <2>2. Trees' /\ \A c \in Claims : c # Nobody => Has(c)' \subseteq Has(c)
    BY <1>1, <1>3, <1>5, <1>6, <2>1, Passing
  <2> QED
    BY <2>2, NobodyIs
<1>9. Apart'
  BY <1>8, Kept DEF MemoryInv
<1>10. Ones'
  <2>1. pg \notin ToSet(freelist) /\ ToSet(freelist) \subseteq Pages
    BY Pairs DEF MemoryInv, Types, ToSet
  <2> QED
    BY <1>1, <1>3, <2>1 DEF MemoryInv, Ones
<1> QED
  BY <1>3, <1>4, <1>5, <1>8, <1>9, <1>10, Gather

-----------------------------------------------------------------------------
(* The actions *)

\* The invariant, for one thread
LEMMA Parts ==
    ASSUME MemoryInv, NEW t \in Threads
    PROVE  /\ Shape(t) /\ Task(t) /\ Alone(t) /\ loc[t] \in Locals /\ at[t] \in Labels
           /\ freelist \in Seq(Pages) /\ IsInjective(freelist)
           /\ loc[t].todo \in Seq(Pages) /\ loc[t].new \in 0..NPages
           /\ loc[t].root \in 0..NPages /\ loc[t].pa \in 0..Trampoline
           /\ NoLocals \in Locals
<1>1. NoLocals \in Locals
  BY NoneIs, Numbers DEF NoLocals, Locals
<1> QED
  BY <1>1 DEF MemoryInv, Types, Locals, Ones

\* Who is about to make its child RUNNABLE
LEMMA AtForks ==
    ASSUME MemoryInv, NEW t \in Threads, at[t] = "forks"
    PROVE  loc[t].child # "none" /\ loc[t].child \in Procs /\ Makes(t)
<1>1. loc[t] \in Locals /\ Task(t)
  BY Parts DEF MemoryInv
<1>2. loc[t].child # "none" /\ Makes(t)
  BY <1>1 DEF Task, Serves, Reaps, Mapping, Freeing
<1> QED
  BY <1>1, <1>2 DEF Locals

\* Only the areas change
LEMMA StaysButAreas ==
    ASSUME MemoryInv, UNCHANGED <<pages, state, trapframe, pagetable, at, loc>>,
           areas' \in [Procs -> Areas]
    PROVE  MemoryInv'
<1>1. /\ freelist' = freelist /\ mem' = mem /\ entry' = entry /\ state' = state
      /\ trapframe' = trapframe /\ pagetable' = pagetable /\ at' = at /\ loc' = loc
  BY DEF pages
<1>2. Roots' = Roots /\ Types' /\ Ones' /\ \A t \in Threads : Hand(t)' = Hand(t)
  BY <1>1 DEF Roots, MemoryInv, Types, EntryInv, Ones, Hand
<1>3. \A r \in Roots : Same(r)
  BY <1>1, <1>2, Untouched DEF Types
<1>4. Trees' /\ Apart'
  <2>1. Trees' /\ \A c \in Claims : c # Nobody => Has(c)' \subseteq Has(c)
    BY <1>1, <1>2, <1>3, Passing
  <2> QED
    BY <2>1, NobodyIs, Kept DEF MemoryInv
<1>5. ASSUME NEW t \in Threads PROVE Shape(t)' /\ Task(t)' /\ Alone(t)'
  <2>1. Shape(t) /\ Task(t) /\ Alone(t)
    BY DEF MemoryInv
  <2>2. Shape(t)' /\ Alone(t)'
    BY <1>1, <2>1 DEF Shape, Alone
  <2>3. \A r, va : Walk(r, va)' = Walk(r, va) /\ Lookup(r, va)' = Lookup(r, va)
    BY <1>1 DEF Walk, Lookup, To, IsTable
  <2>4. Task(t)'
    BY <1>1, <2>1, <2>3 DEF Task, Serves, Makes, Reaps
  <2> QED
    BY <2>2, <2>4
<1>6. ASSUME NEW p \in Procs PROVE Slot(p)'
  <2>1. Slot(p)
    BY DEF MemoryInv
  <2> QED
    BY <1>1, <2>1 DEF Slot
<1> QED
  BY <1>2, <1>4, <1>5, <1>6 DEF MemoryInv

\* A stuttering step, and a panic
LEMMA Stays ==
    ASSUME MemoryInv, UNCHANGED <<pages, procs, at, loc>>
    PROVE  MemoryInv'
<1>1. /\ areas' \in [Procs -> Areas]
      /\ UNCHANGED <<pages, state, trapframe, pagetable, at, loc>>
  BY DEF procs, MemoryInv, Types
<1> QED
  BY <1>1, StaysButAreas

\* The next page that kfree gives back is in hand
LEMMA HeadIs ==
    ASSUME MemoryInv, NEW t \in Threads, at[t] = "kfree" \/ at[t] = "push", loc[t].todo # <<>>
    PROVE  /\ Head(loc[t].todo) \in Hand(t) /\ Head(loc[t].todo) \in Pages
           /\ Tail(loc[t].todo) \in Seq(Pages) /\ IsInjective(Tail(loc[t].todo))
           /\ ToSet(Tail(loc[t].todo)) = ToSet(loc[t].todo) \ {Head(loc[t].todo)}
           /\ loc[t].new = NULL /\ (loc[t].child = "none" => loc[t].pa = NULL)
<1>1. Shape(t) /\ Task(t) /\ loc[t].todo \in Seq(Pages)
  BY Parts
<1>2. loc[t].new = NULL /\ IsInjective(loc[t].todo)
  BY <1>1 DEF Shape, WithNew
<1>3. loc[t].child = "none" => loc[t].pa = NULL
  BY <1>1 DEF Task, Serves, Freeing
<1> QED
  BY <1>1, <1>2, <1>3, TailIs, Numbers DEF Hand

\* kfree fills the next page, or is done
LEMMA KfreeStep ==
    ASSUME MemoryInv, NEW t \in Threads, Kfree(t)
    PROVE  MemoryInv'
<1>1. Shape(t) /\ Task(t) /\ loc[t] \in Locals /\ at[t] = "kfree" /\ UNCHANGED procs
  BY Parts DEF Kfree, Runs
<1>2. "kfreed" \in Labels /\ "push" \in Labels
  BY DEF Labels, Freeing
<1>3. Passes(t, loc[t])
  BY DEF Passes
<1>4. ASSUME at'[t] \in {"kfreed", "push"}, loc'[t] = loc[t]
      PROVE  Hand(t)' \subseteq Hand(t) /\ Task(t)'
  <2>1. Hand(t)' = Hand(t)
    BY <1>1, <1>4 DEF Hand
  <2>2. Serves(t) => Serves(t)'
    BY <1>1, <1>4 DEF Serves, Mapping, Freeing, procs
  <2>3. Makes(t) => Makes(t)'
    BY <1>1, <1>4 DEF Makes, Mapping, Freeing, Making, procs
  <2>4. Reaps(t) => Reaps(t)'
    BY <1>1, <1>4 DEF Reaps, Freeing, procs
  <2>5. Task(t)'
    BY <1>1, <1>4, <2>2, <2>3, <2>4 DEF Task
  <2> QED
    BY <2>1, <2>5
<1>5. CASE loc[t].todo = <<>>
  <2>1. GoOn(t, "kfreed", loc[t]) /\ UNCHANGED pages
    BY <1>5 DEF Kfree
  <2>2. at'[t] = "kfreed" /\ loc'[t] = loc[t] => Shape(t)'
    BY <1>1, <1>5 DEF Shape, WithNew
  <2> QED
    BY <1>1, <1>2, <1>3, <1>4, <2>1, <2>2, IdleStep
<1>6. CASE loc[t].todo # <<>>
  <2>0. PICK pg : pg = Head(loc[t].todo)
    OBVIOUS
  <2>1. GoOn(t, "push", loc[t]) /\ Fill(pg, "ones") /\ pg \in Hand(t) /\ "ones" \in Fills
    BY <1>1, <1>6, <2>0, HeadIs DEF Kfree, Fills
  <2>2. at'[t] = "push" /\ loc'[t] = loc[t] /\ mem'[pg] = "ones" => Shape(t)'
    BY <1>1, <1>6, <2>0 DEF Shape, WithNew
  <2>3. pg \in Pages
    BY <1>1, <1>6, <2>0, HeadIs
  <2> QED
    BY <1>1, <1>2, <1>3, <1>4, <2>1, <2>2, <2>3, FillStep
<1> QED
  BY <1>5, <1>6

\* The addresses that are mapped
LEMMA Addresses ==
    /\ TRAMPOLINE \notin UserVas /\ TRAPFRAME \notin UserVas /\ TRAPFRAME # TRAMPOLINE
    /\ TRAPFRAME # 0 /\ TRAMPOLINE # 0
    /\ UserVas \subseteq VAs /\ TRAMPOLINE \in VAs /\ TRAPFRAME \in VAs
<1> DEFINE FF == Fan * Fan
           G == FF * Fan
<1>1. FF \in Nat /\ G \in Nat
  BY Numbers
<1>2. G >= 4
  <2>1. FF = Fan * (Fan - 2) + Fan + Fan /\ Fan * (Fan - 2) >= 0 /\ Fan * (Fan - 2) \in Int
    BY Numbers
  <2>2. FF >= 4
    BY <1>1, <2>1, Numbers
  <2>3. G = FF * (Fan - 1) + FF /\ FF * (Fan - 1) >= 0 /\ FF * (Fan - 1) \in Int
    BY <1>1, Numbers
  <2> QED
    BY <1>1, <2>2, <2>3
<1>3. /\ UserVas = Lowest..G - 3 /\ Lowest \in Nat
      /\ TRAMPOLINE = G - 1 /\ TRAPFRAME = TRAMPOLINE - 1
  <2>1. TRAMPOLINE = G - 1
    BY DEF TRAMPOLINE
  <2> HIDE DEF G
  <2> QED
    BY <1>1, <2>1, MemoryAssumption DEF TRAPFRAME, UserVas
<1> HIDE DEF G
<1> QED
  BY <1>1, <1>2, <1>3 DEF VAs

\* kfree puts it on the free list
LEMMA PushStep ==
    ASSUME MemoryInv, NEW t \in Threads, Push(t)
    PROVE  MemoryInv'
<1>1. PICK pg, l : pg = Head(loc[t].todo) /\ l = [loc[t] EXCEPT !.todo = Tail(@)]
  OBVIOUS
<1>2. /\ Shape(t) /\ Task(t) /\ Alone(t) /\ loc[t] \in Locals /\ at[t] = "push"
      /\ UNCHANGED procs /\ mem' = mem /\ entry' = entry
      /\ GoOn(t, "kfree", l) /\ freelist' = <<pg>> \o freelist
  BY <1>1, Parts DEF Push, Runs
<1>3. /\ loc[t].todo # <<>> /\ mem[pg] = "ones"
      /\ l \in Locals /\ "kfree" \in Labels
  BY <1>1, <1>2, HeadIs DEF Shape, Labels, Freeing, Locals
<1>4. /\ pg \in Hand(t) /\ pg \in Pages /\ Tail(loc[t].todo) \in Seq(Pages)
      /\ IsInjective(Tail(loc[t].todo))
      /\ ToSet(Tail(loc[t].todo)) = ToSet(loc[t].todo) \ {pg}
      /\ loc[t].new = NULL /\ (loc[t].child = "none" => loc[t].pa = NULL)
  BY <1>1, <1>2, <1>3, HeadIs
<1>5. mem' \in [Pages -> Fills] /\ EntryInv'
  BY <1>2 DEF MemoryInv, Types, EntryInv
<1>6. \A r \in Roots : Same(r)
  BY <1>2, <1>5, Untouched
<1>7. /\ at' \in [Threads -> Labels] /\ loc' \in [Threads -> Locals]
      /\ at'[t] = "kfree" /\ loc'[t] = l
      /\ \A u \in Threads : u # t => Shape(u)' /\ Task(u)' /\ Hand(u)' = Hand(u)
      /\ \A u \in Threads : Alone(u)'
      /\ \A p \in Procs : Slot(p)'
      /\ Roots' \subseteq Roots \cup ({l.root} \ {NULL})
  <2>1. l.root = loc[t].root /\ l.child = loc[t].child
    BY <1>1, <1>2 DEF Locals
  <2>2. GoOn(t, "kfree", l) /\ UNCHANGED procs /\ l \in Locals /\ "kfree" \in Labels
        /\ at[t] # "gone" /\ "kfree" # "gone"
    BY <1>2, <1>3
  <2>3. \A u \in Threads : \A q \in Hand(u) : mem'[q] = mem[q]
    BY <1>2
  <2>4. \A r \in Roots : \A va \in VAs :
            Walk(r, va)' = Walk(r, va) /\ Lookup(r, va)' = Lookup(r, va)
    BY <1>6 DEF Same
  <2> QED
    BY <2>1, <2>2, <2>3, <2>4, Going
<1>8. Roots' \subseteq Roots
  <2>1. l.root = loc[t].root
    BY <1>1, <1>2 DEF Locals
  <2>2. l.root # NULL => l.root \in Roots
    BY <2>1 DEF Roots
  <2> QED
    BY <1>7, <2>2
<1>9. Hand(t)' = Hand(t) \ {pg}
  <2>1. /\ l.new = NULL /\ l.child = loc[t].child /\ l.pa = loc[t].pa
        /\ l.todo = Tail(loc[t].todo)
    BY <1>1, <1>2, <1>4 DEF Locals
  <2>2. pg # NULL
    BY <1>4, Numbers
  <2> QED
    BY <1>2, <1>4, <1>7, <2>1, <2>2 DEF Hand
<1>10. Shape(t)'
  <2>1. /\ loc'[t].new = NULL /\ loc'[t].todo = Tail(loc[t].todo) /\ at'[t] = "kfree"
    BY <1>1, <1>2, <1>4, <1>7 DEF Locals
  <2>2. NULL \notin ToSet(Tail(loc[t].todo))
    <3>1. \A s \in Seq(Pages) : NULL \notin ToSet(s)
      BY Numbers DEF ToSet
    <3> QED
      BY <1>4, <3>1
  <2> QED
    BY <1>4, <2>1, <2>2 DEF Shape, WithNew
<1>11. Task(t)'
  <2>0. /\ loc'[t].child = loc[t].child /\ loc'[t].root = loc[t].root /\ loc'[t].va = loc[t].va
        /\ loc'[t].pa = loc[t].pa /\ loc'[t].swapped = loc[t].swapped
    BY <1>1, <1>2, <1>7 DEF Locals
  <2>2. Serves(t) => Serves(t)'
    BY <1>2, <1>7, <2>0 DEF Serves, Mapping, Freeing, procs
  <2>3. Makes(t) => Makes(t)'
    BY <1>2, <1>7, <2>0 DEF Makes, Mapping, Freeing, Making, procs
  <2>4. Reaps(t) => Reaps(t)'
    BY <1>2, <1>7, <2>0 DEF Reaps, Freeing, procs
  <2> QED
    BY <1>2, <1>7, <2>0, <2>2, <2>3, <2>4 DEF Task
<1>12. /\ freelist' \in Seq(Pages) /\ ToSet(freelist)' = ToSet(freelist) \cup {pg}
       /\ IsInjective(freelist)'
  <2>1. freelist \in Seq(Pages) /\ IsInjective(freelist)
    BY Parts
  <2>2. pg \notin ToSet(freelist)
    BY <1>4, Pairs
  <2>3. <<pg>> \in Seq(Pages) /\ ToSet(<<pg>>) = {pg} /\ IsInjective(<<pg>>)
    BY <1>4, OneIs
  <2>4. PICK a : a = <<pg>>
    OBVIOUS
  <2>5. PICK b : b = freelist
    OBVIOUS
  <2>6. /\ a \o b \in Seq(Pages) /\ ToSet(a \o b) = ToSet(a) \cup ToSet(b)
        /\ IsInjective(a \o b)
    BY <2>1, <2>2, <2>3, <2>4, <2>5, ConcatSets
  <2> QED
    BY <1>2, <2>3, <2>4, <2>5, <2>6
<1>13. Trees' /\ \A c \in Claims : c # FreeList => Has(c)' \subseteq Has(c)
  <2>1. trapframe' = trapframe
    BY <1>2 DEF procs
  <2>2. \A u \in Threads : Hand(u)' \subseteq Hand(u)
    BY <1>7, <1>9
  <2> QED
    BY <1>6, <1>8, <1>12, <2>1, <2>2, Passing
<1>14. Apart'
  <2>1. /\ FreeList \in Claims /\ HandOf(t) \in Claims /\ FreeList # HandOf(t)
        /\ Has(FreeList) = ToSet(freelist) /\ Has(FreeList)' = ToSet(freelist)'
        /\ Has(HandOf(t)) = Hand(t) /\ Has(HandOf(t))' = Hand(t)'
    BY ClaimsAre, ClaimsDiffer, HasNow, HasNext DEF HasParts
  <2>2. Has(FreeList)' \subseteq Has(FreeList) \cup (Has(HandOf(t)) \ Has(HandOf(t))')
    BY <1>4, <1>9, <1>12, <2>1
  <2>3. Apart
    BY DEF MemoryInv
  <2> QED
    BY <1>13, <2>1, <2>2, <2>3, Moved
<1>15. Ones'
  BY <1>2, <1>3, <1>12 DEF MemoryInv, Ones
<1> QED
  BY <1>2, <1>5, <1>7, <1>10, <1>11, <1>12, <1>13, <1>14, <1>15, Gather

\* Uvmcreate takes a page for the root
LEMMA UvmcreateStep ==
    ASSUME MemoryInv, NEW t \in Threads, Uvmcreate(t)
    PROVE  MemoryInv'
<1>1. /\ Shape(t) /\ Task(t) /\ loc[t] \in Locals /\ at[t] = "Uvmcreate" /\ UNCHANGED procs
  BY Parts DEF Uvmcreate, Runs
<1>2. loc[t].child # "none" /\ Makes(t)
  BY <1>1 DEF Task, Serves, Reaps, Mapping, Freeing
<1>3. "nopage" \in Labels /\ "root" \in Labels
  BY DEF Labels, Making
<1>4. CASE Full
  <2>1. GoOn(t, "nopage", loc[t]) /\ UNCHANGED pages
    BY <1>4 DEF Uvmcreate
  <2>2. ASSUME at'[t] = "nopage", loc'[t] = loc[t]
        PROVE  Hand(t)' \subseteq Hand(t) /\ Shape(t)' /\ Task(t)'
    <3>1. Makes(t)'
      BY <1>1, <1>2, <2>2 DEF Makes, Making, Mapping, Freeing, procs
    <3> QED
      BY <1>1, <1>2, <2>2, <3>1 DEF Hand, Shape, Task, WithNew
  <2> QED
    BY <1>1, <1>3, <2>1, <2>2, IdleStep DEF Passes
<1>5. CASE ~Full
  <2> DEFINE l == [loc[t] EXCEPT !.new = Head(freelist)]
  <2>1. GoOn(t, "root", l) /\ freelist' = Tail(freelist) /\ UNCHANGED <<mem, entry>>
    BY <1>5 DEF Uvmcreate, Take
  <2>2. Head(freelist) \in Pages
    BY <1>5, TailIs DEF MemoryInv, Types, Ones, Full
  <2>3. l \in Locals
    BY <1>1, <2>2, Numbers DEF Locals
  <2>4. ASSUME at'[t] = "root", loc'[t] = l
        PROVE  Hand(t)' \subseteq Hand(t) \cup {Head(freelist)} /\ Shape(t)' /\ Task(t)'
    <3>0. /\ l.child = loc[t].child /\ l.root = loc[t].root /\ l.va = loc[t].va
          /\ l.pa = loc[t].pa /\ l.new = Head(freelist) /\ l.todo = loc[t].todo
      BY <1>1 DEF Locals
    <3> HIDE DEF l
    <3>1. Makes(t)'
      BY <1>1, <1>2, <2>4, <3>0 DEF Makes, Making, Mapping, Freeing, procs
    <3>2. loc[t].todo = <<>> /\ l.new # NULL
      BY <1>1, <2>2, <3>0, Numbers DEF Shape
    <3>3. ToSet(<<>>) = {}
      BY NoneIs
    <3>4. l.new # l.pa
      <4>1. l.pa \in {NULL, Trampoline, trapframe[loc[t].child]} /\ loc[t].child \in Procs
        BY <1>1, <1>2, <3>0 DEF Makes, Locals
      <4>2. l.new # trapframe[loc[t].child]
        <5>1. Head(freelist) \in ToSet(freelist)
          BY <1>5, TailIs DEF MemoryInv, Types, Ones, Full
        <5> QED
          BY <3>0, <4>1, <5>1, Pairs
      <4> QED
        BY <2>2, <3>0, <4>1, <4>2, Numbers
    <3>5. Shape(t)'
      BY <1>1, <2>4, <3>0, <3>2, <3>3, <3>4 DEF Shape, WithNew
    <3> QED
      BY <1>1, <1>2, <2>4, <3>0, <3>1, <3>5 DEF Hand, Task
  <2>5. Passes(t, l)
    BY <1>1 DEF Passes, Locals
  <2>6. at[t] # "gone" /\ "root" # "gone"
    BY <1>1
  <2> HIDE DEF l
  <2> QED
    BY <1>1, <1>3, <1>5, <2>1, <2>3, <2>4, <2>5, <2>6, TakeStep
<1> QED
  BY <1>4, <1>5

\* Whose work a thread does, by where it is
LEMMA Who ==
    ASSUME MemoryInv, NEW t \in Threads
    PROVE  /\ at[t] \in Making => loc[t].child # "none" /\ Makes(t)
           /\ at[t] \in {"fault", "argv", "arg"} => loc[t].child = "none" /\ Serves(t)
           /\ at[t] \in Mapping /\ loc[t].va \in UserVas => loc[t].child = "none" /\ Serves(t)
           /\ at[t] \in Mapping /\ loc[t].va \notin UserVas =>
                loc[t].child # "none" /\ Makes(t)
           /\ at[t] \in Mapping /\ loc[t].child # "none" => Makes(t)
           /\ at[t] \in Mapping /\ loc[t].child = "none" => Serves(t)
           /\ at[t] = "kfreed" /\ loc[t].va = TRAMPOLINE => loc[t].child # "none" /\ Makes(t)
           /\ at[t] = "kfreed" /\ loc[t].va = TRAPFRAME => loc[t].child # "none" /\ Reaps(t)
           /\ at[t] = "kfreed" /\ loc[t].va = 0 /\ loc[t].child # "none" => Reaps(t)
           /\ at[t] = "kfreed" /\ loc[t].child = "none" => Serves(t)
           /\ Serves(t) => pagetable[t] # NULL
<1>1. Task(t)
  BY DEF MemoryInv
<1>2. at[t] \in Making => at[t] \notin {"user", "gone", "spins", "fault", "argv", "arg"}
          \cup Mapping \cup Freeing
  BY DEF Making, Mapping, Freeing
<1>3. at[t] \in Mapping => at[t] \notin {"user", "gone", "spins", "fault", "argv", "arg"}
          \cup Making \cup Freeing
  BY DEF Making, Mapping, Freeing
<1>4. at[t] \in {"fault", "argv", "arg"} =>
          at[t] \notin {"user", "gone", "spins"} \cup Making \cup Mapping \cup Freeing
  BY DEF Making, Mapping, Freeing
<1>5. at[t] = "kfreed" => at[t] \in Freeing /\ at[t] \notin {"user", "gone", "spins"}
  BY DEF Freeing
<1>6. at[t] \in Making => loc[t].child # "none" /\ Makes(t)
  BY <1>1, <1>2 DEF Task, Serves, Reaps
<1>7. at[t] \in {"fault", "argv", "arg"} => loc[t].child = "none" /\ Serves(t)
  BY <1>1, <1>4 DEF Task, Makes, Reaps
<1>8. at[t] \in Mapping /\ loc[t].child # "none" => Makes(t) /\ loc[t].va \notin UserVas
  BY <1>1, <1>3, Addresses DEF Task, Makes, Reaps
<1>9. at[t] \in Mapping /\ loc[t].child = "none" => Serves(t) /\ loc[t].va \in UserVas
  BY <1>1, <1>3 DEF Task, Serves
<1>10. at[t] = "kfreed" /\ loc[t].child = "none" => Serves(t) /\ loc[t].va = 0
  BY <1>1, <1>5 DEF Task, Serves
<1>11. at[t] = "kfreed" /\ loc[t].child # "none" =>
         (Makes(t) /\ loc[t].va = TRAMPOLINE) \/ (Reaps(t) /\ loc[t].va \in {TRAPFRAME, 0})
  BY <1>1, <1>5 DEF Task, Makes, Reaps
<1>12. Serves(t) => pagetable[t] # NULL
  <2> SUFFICES ASSUME Serves(t) PROVE pagetable[t] # NULL
    OBVIOUS
  <2>1. t \in Procs /\ at[t] # "gone"
    BY DEF Serves, Mapping, Freeing
  <2>2. Slot(t)
    BY <2>1 DEF MemoryInv
  <2> QED
    BY <2>1, <2>2 DEF Slot
<1> QED
  BY <1>6, <1>7, <1>8, <1>9, <1>10, <1>11, <1>12, Addresses

LEMMA AtUser ==
    ASSUME MemoryInv, NEW t \in Threads, at[t] \in {"user", "gone", "spins"}
    PROVE  /\ loc[t] = NoLocals /\ loc[t].child = "none" /\ loc[t].root = NULL
           /\ loc[t].new = NULL
           /\ loc[t].pa = NULL /\ loc[t].todo = <<>> /\ Hand(t) = {}
<1>1. loc[t] = NoLocals
  BY DEF MemoryInv, Shape
<1>2. /\ loc[t].child = "none" /\ loc[t].root = NULL /\ loc[t].new = NULL
      /\ loc[t].pa = NULL /\ loc[t].todo = <<>>
  BY <1>1 DEF NoLocals
<1> QED
  BY <1>1, <1>2, NoneIs DEF Hand

\* Whoever returns to user mode has nothing in hand
LEMMA ReturnStep ==
    ASSUME MemoryInv, NEW t \in Threads, ToUser(t), UNCHANGED procs, UNCHANGED pages,
               at[t] # "gone",
           \A p \in Procs : p = loc[t].child => state[p] # "ZOMBIE"
    PROVE  MemoryInv'
<1>1. PICK l : l = NoLocals
  OBVIOUS
<1>2. GoOn(t, "user", l) /\ l \in Locals /\ "user" \in Labels
  BY <1>1, Parts DEF ToUser, Labels
<1>3. Passes(t, l)
  BY <1>1 DEF Passes, NoLocals
<1>4. ASSUME at'[t] = "user", loc'[t] = l
      PROVE  Hand(t)' \subseteq Hand(t) /\ Shape(t)' /\ Task(t)'
  <2>1. /\ l.new = NULL /\ l.todo = <<>> /\ l.pa = NULL /\ l.child = "none"
    BY <1>1 DEF NoLocals
  <2>2. NULL \notin ToSet(<<>>) /\ IsInjective(<<>>) /\ ToSet(<<>>) = {}
    BY NoneIs
  <2> QED
    BY <1>1, <1>4, <2>1, <2>2 DEF Hand, Shape, Task, WithNew
<1> QED
  BY <1>2, <1>3, <1>4, IdleStep

\* allocproc goes on without page tables
LEMMA FailedStep ==
    ASSUME MemoryInv, NEW t \in Threads, Failed(t)
    PROVE  MemoryInv'
<1>1. Makes(t)
  BY Who DEF Failed, Runs, Making
<1>2. \A p \in Procs : p = loc[t].child => state[p] # "ZOMBIE"
  BY <1>1 DEF Makes
<1>3. at[t] # "gone"
  BY DEF Failed, Runs
<1> QED
  BY <1>2, <1>3, ReturnStep, Stays DEF Failed, Panic

\* sys_execve returns
LEMMA ExecveDoneStep ==
    ASSUME MemoryInv, NEW t \in Threads, ExecveDone(t)
    PROVE  MemoryInv'
<1>1. \A p \in Procs : p = loc[t].child => state[p] # "ZOMBIE"
  BY MemoryAssumption DEF ExecveDone
<1>2. at[t] # "gone"
  BY DEF ExecveDone, Runs
<1> QED
  BY <1>1, <1>2, ReturnStep DEF ExecveDone

\* sys_execve begins
LEMMA ExecveStep ==
    ASSUME MemoryInv, NEW t \in Threads, Execve(t)
    PROVE  MemoryInv'
<1>1. PICK l : l = [NoLocals EXCEPT !.root = pagetable[t]]
  OBVIOUS
<1>2. /\ at[t] = "user" /\ t \in Procs /\ GoOn(t, "argv", l) /\ UNCHANGED procs
      /\ UNCHANGED pages
  BY <1>1 DEF Execve, Runs
<1>3. /\ l.child = "none" /\ l.root = pagetable[t] /\ l.va = 0 /\ l.pa = NULL /\ l.new = NULL
      /\ l.todo = <<>> /\ l.swapped = FALSE
  BY <1>1 DEF NoLocals
<1>4. l \in Locals /\ "argv" \in Labels
  <2>1. NoLocals \in Locals /\ pagetable[t] \in 0..NPages
    BY <1>2, Parts DEF MemoryInv, Types
  <2> QED
    BY <1>1, <2>1 DEF Locals, Labels
<1>5. Passes(t, l)
  BY <1>2, <1>3, AtUser DEF Passes
<1>6. ASSUME at'[t] = "argv", loc'[t] = l
      PROVE  Hand(t)' \subseteq Hand(t) /\ Shape(t)' /\ Task(t)'
  <2>1. NULL \notin ToSet(<<>>) /\ IsInjective(<<>>) /\ ToSet(<<>>) = {}
    BY NoneIs
  <2>2. Hand(t)' = {}
    BY <1>3, <1>6, <2>1 DEF Hand
  <2>3. Shape(t)'
    BY <1>3, <1>6, <2>1 DEF Shape, WithNew
  <2>4. Serves(t)'
    BY <1>2, <1>3, <1>6 DEF Serves, Mapping, Freeing, procs
  <2>5. Task(t)'
    BY <1>3, <1>6, <2>4 DEF Task
  <2> QED
    BY <2>2, <2>3, <2>5
<1>7. at[t] # "gone"
  BY <1>2
<1> QED
  BY <1>2, <1>4, <1>5, <1>6, <1>7, IdleStep

\* proc_pagetable goes on with the trapframe
LEMMA MappedTrampolineStep ==
    ASSUME MemoryInv, NEW t \in Threads, MappedTrampoline(t)
    PROVE  MemoryInv'
<1>1. PICK l : l = [loc[t] EXCEPT !.va = TRAPFRAME, !.pa = trapframe[loc[t].child]]
  OBVIOUS
<1>2. /\ at[t] = "mapped" /\ loc[t].va = TRAMPOLINE /\ GoOn(t, "map", l)
      /\ UNCHANGED procs /\ UNCHANGED pages
  BY <1>1 DEF MappedTrampoline, Runs
<1>3. /\ Shape(t) /\ loc[t] \in Locals /\ Makes(t) /\ loc[t].child \in Procs
      /\ loc[t].child # "none"
  BY <1>2, Parts, Who, Addresses DEF Mapping, Locals
<1>4. /\ l.child = loc[t].child /\ l.root = loc[t].root /\ l.va = TRAPFRAME
      /\ l.pa = trapframe[loc[t].child] /\ l.new = loc[t].new /\ l.todo = loc[t].todo
      /\ l \in Locals /\ "map" \in Labels
  <2>1. trapframe[loc[t].child] \in 0..Trampoline
    BY <1>3, Numbers DEF MemoryInv, Types
  <2> QED
    BY <1>1, <1>3, <2>1, Addresses DEF Locals, Labels, Mapping
<1>5. Passes(t, l)
  BY <1>4 DEF Passes
<1>6. ASSUME at'[t] = "map", loc'[t] = l
      PROVE  Hand(t)' \subseteq Hand(t) /\ Shape(t)' /\ Task(t)'
  <2>2. Hand(t)' \subseteq Hand(t)
    BY <1>3, <1>4, <1>6 DEF Hand
  <2>3. Shape(t)'
    BY <1>2, <1>3, <1>4, <1>6 DEF Shape, WithNew
  <2>4. Makes(t)'
    BY <1>2, <1>3, <1>4, <1>6 DEF Makes, Making, Mapping, Freeing, procs
  <2>5. Task(t)'
    BY <1>3, <1>4, <1>6, <2>4 DEF Task
  <2> QED
    BY <2>2, <2>3, <2>5
<1>7. at[t] # "gone"
  BY <1>2
<1> QED
  BY <1>2, <1>4, <1>5, <1>6, <1>7, IdleStep

\* The first free page
LEMMA FirstFree ==
    ASSUME MemoryInv, ~Full
    PROVE  /\ Head(freelist) \in Pages /\ Head(freelist) \in ToSet(freelist)
           /\ Head(freelist) # NULL /\ Head(freelist) # Trampoline
           /\ \A p \in Procs : trapframe[p] # Head(freelist)
           /\ \A t \in Threads : Head(freelist) \notin Hand(t)
<1>1. Head(freelist) \in Pages /\ Head(freelist) \in ToSet(freelist)
  BY TailIs DEF MemoryInv, Types, Ones, Full
<1> QED
  BY <1>1, Numbers, Pairs

\* sys_execve takes a page for an argument, or is done
LEMMA ArgvStep ==
    ASSUME MemoryInv, NEW t \in Threads, Argv(t)
    PROVE  MemoryInv'
<1>1. /\ at[t] = "argv" /\ Shape(t) /\ loc[t] \in Locals /\ loc[t].child = "none" /\ Serves(t)
      /\ at[t] # "gone"
  BY Parts, Who DEF Argv, Runs
<1>2. "kfree" \in Labels /\ "arg" \in Labels
  BY DEF Labels, Freeing
<1>3. CASE Panic("undefined")
  BY <1>3, Stays DEF Panic
<1>4. CASE GoOn(t, "kfree", loc[t]) /\ UNCHANGED pages /\ UNCHANGED procs
  <2>1. ASSUME at'[t] = "kfree", loc'[t] = loc[t]
        PROVE  Hand(t)' \subseteq Hand(t) /\ Shape(t)' /\ Task(t)'
    <3>1. Serves(t)'
      BY <1>1, <1>4, <2>1 DEF Serves, Mapping, Freeing, procs
    <3>2. Shape(t)' /\ Hand(t)' \subseteq Hand(t)
      BY <1>1, <2>1 DEF Shape, WithNew, Hand
    <3> QED
      BY <1>1, <2>1, <3>1, <3>2 DEF Task
  <2> QED
    BY <1>1, <1>2, <1>4, <2>1, IdleStep DEF Passes
<1>5. CASE ~Full /\ Take(t, "arg") /\ UNCHANGED procs
  <2>1. PICK l : l = [loc[t] EXCEPT !.new = Head(freelist)]
    OBVIOUS
  <2>2. /\ GoOn(t, "arg", l) /\ freelist' = Tail(freelist) /\ UNCHANGED <<mem, entry>>
        /\ UNCHANGED procs
    BY <1>5, <2>1 DEF Take
  <2>3. /\ l.child = loc[t].child /\ l.root = loc[t].root /\ l.va = loc[t].va
        /\ l.pa = loc[t].pa /\ l.new = Head(freelist) /\ l.todo = loc[t].todo
        /\ l.swapped = loc[t].swapped /\ l \in Locals
    BY <1>1, <1>5, <2>1, FirstFree, Numbers DEF Locals
  <2>4. ASSUME at'[t] = "arg", loc'[t] = l
        PROVE  Hand(t)' \subseteq Hand(t) \cup {Head(freelist)} /\ Shape(t)' /\ Task(t)'
    <3>1. Serves(t)'
      BY <1>1, <2>2, <2>3, <2>4 DEF Serves, Mapping, Freeing, procs
    <3>2. Hand(t)' \subseteq Hand(t) \cup {Head(freelist)}
      BY <1>1, <2>3, <2>4 DEF Hand
    <3>3. l.new \notin ToSet(l.todo) /\ l.new # l.pa /\ l.new # NULL
      <4>1. l.new \notin Hand(t) /\ l.new # NULL
        BY <1>5, <2>3, FirstFree
      <4>2. ToSet(loc[t].todo) \ {NULL} \subseteq Hand(t)
        BY DEF Hand
      <4>3. l.pa = NULL
        BY <1>1, <2>3 DEF Serves
      <4> QED
        BY <2>3, <4>1, <4>2, <4>3
    <3>4. Shape(t)'
      BY <1>1, <2>3, <2>4, <3>3 DEF Shape, WithNew
    <3> QED
      BY <1>1, <2>3, <2>4, <3>1, <3>2, <3>4 DEF Task
  <2> QED
    BY <1>1, <1>2, <1>5, <2>2, <2>3, <2>4, TakeStep DEF Passes
<1> QED
  BY <1>3, <1>4, <1>5 DEF Argv

\* The page fault zeroes the page
LEMMA FaultZeroesStep ==
    ASSUME MemoryInv, NEW t \in Threads, FaultZeroes(t)
    PROVE  MemoryInv'
<1>1. PICK l, pg : l = [loc[t] EXCEPT !.pa = loc[t].new, !.new = NULL] /\ pg = loc[t].new
  OBVIOUS
<1>2. /\ at[t] = "fault" /\ Shape(t) /\ loc[t] \in Locals /\ loc[t].child = "none" /\ Serves(t)
      /\ at[t] # "gone" /\ GoOn(t, "map", l) /\ Fill(pg, "zeroes") /\ UNCHANGED procs
  BY <1>1, Parts, Who DEF FaultZeroes, Runs
<1>3. pg # NULL /\ pg \in Hand(t) /\ pg \in Pages
  BY <1>1, <1>2, Pairs DEF Shape, WithNew, Hand
<1>4. /\ l.child = loc[t].child /\ l.root = loc[t].root /\ l.va = loc[t].va
      /\ l.pa = pg /\ l.new = NULL /\ l.todo = loc[t].todo
      /\ l.swapped = loc[t].swapped /\ l \in Locals /\ "map" \in Labels /\ "zeroes" \in Fills
  BY <1>1, <1>2, <1>3, Numbers DEF Locals, Labels, Mapping, Fills
<1>5. ASSUME at'[t] = "map", loc'[t] = l
      PROVE  Hand(t)' \subseteq Hand(t) /\ Shape(t)' /\ Task(t)'
  <2>1. Hand(t)' \subseteq Hand(t)
    BY <1>2, <1>3, <1>4, <1>5 DEF Hand
  <2>2. Shape(t)'
    <3>1. loc[t].todo = <<>>
      BY <1>2 DEF Shape
    <3> QED
      BY <1>2, <1>4, <1>5, <3>1, NoneIs DEF Shape, WithNew
  <2>3. Serves(t)'
    BY <1>2, <1>3, <1>4, <1>5 DEF Serves, Mapping, Freeing, procs
  <2> QED
    BY <1>2, <1>4, <1>5, <2>1, <2>2, <2>3 DEF Task
<1> QED
  BY <1>2, <1>3, <1>4, <1>5, FillStep DEF Passes

\* sys_execve copies an argument
LEMMA ArgStep ==
    ASSUME MemoryInv, NEW t \in Threads, Arg(t)
    PROVE  MemoryInv'
<1>1. PICK l, pg : /\ l = [loc[t] EXCEPT !.todo = Append(@, loc[t].new), !.new = NULL]
                   /\ pg = loc[t].new
  OBVIOUS
<1>2. /\ at[t] = "arg" /\ Shape(t) /\ loc[t] \in Locals /\ loc[t].child = "none" /\ Serves(t)
      /\ at[t] # "gone"
  BY Parts, Who DEF Arg, Runs
<1>3. pg # NULL /\ pg \in Hand(t) /\ pg \in Pages /\ loc[t].todo \in Seq(Pages)
  BY <1>1, <1>2, Pairs DEF Shape, WithNew, Hand, Locals
<1>15. /\ Append(loc[t].todo, pg) \in Seq(Pages)
      /\ ToSet(Append(loc[t].todo, pg)) = ToSet(loc[t].todo) \cup {pg}
      /\ IsInjective(Append(loc[t].todo, pg))
  <2>1. PICK a, b : a = loc[t].todo /\ b = <<pg>>
    OBVIOUS
  <2>2. b \in Seq(Pages) /\ ToSet(b) = {pg} /\ IsInjective(b)
    BY <1>3, <2>1, OneIs
  <2>3. a \in Seq(Pages) /\ IsInjective(a) /\ ToSet(a) \cap ToSet(b) = {}
    BY <1>1, <1>2, <1>3, <2>1, <2>2 DEF Shape
  <2>4. a \o b \in Seq(Pages) /\ ToSet(a \o b) = ToSet(a) \cup ToSet(b) /\ IsInjective(a \o b)
    BY <2>2, <2>3, ConcatSets
  <2>5. Append(a, pg) = a \o b
    BY <1>3, <2>1, <2>3, AppendIsConcat
  <2> QED
    BY <2>1, <2>2, <2>4, <2>5
<1>4. /\ l.child = loc[t].child /\ l.root = loc[t].root /\ l.va = loc[t].va
      /\ l.pa = loc[t].pa /\ l.new = NULL /\ l.todo = Append(loc[t].todo, pg)
      /\ l.swapped = loc[t].swapped /\ l \in Locals /\ "argv" \in Labels /\ "string" \in Fills
  BY <1>1, <1>2, <1>3, <1>15, Numbers DEF Locals, Labels, Mapping, Fills
<1>5. CASE Panic("kernel virtual address")
  BY <1>5, Stays DEF Panic
<1>6. CASE GoOn(t, "argv", l) /\ Fill(pg, "string") /\ UNCHANGED procs
  <2>0. ASSUME at'[t] = "argv", loc'[t] = l
        PROVE  Hand(t)' \subseteq Hand(t) /\ Shape(t)' /\ Task(t)'
    <3>1. Hand(t)' \subseteq Hand(t)
      BY <1>1, <1>2, <1>3, <1>15, <1>4, <2>0 DEF Hand
    <3>2. NULL \notin ToSet(l.todo)
      BY <1>15, <1>4, Numbers DEF ToSet
    <3>3. Shape(t)'
      BY <1>2, <1>15, <1>4, <2>0, <3>2 DEF Shape, WithNew
    <3>4. Serves(t)'
      BY <1>2, <1>3, <1>4, <1>6, <2>0 DEF Serves, Mapping, Freeing, procs
    <3> QED
      BY <1>2, <1>4, <2>0, <3>1, <3>3, <3>4 DEF Task
  <2> QED
    BY <1>2, <1>3, <1>4, <1>6, <2>0, FillStep DEF Passes
<1> QED
  BY <1>1, <1>5, <1>6 DEF Arg

\* allocproc takes a page for the trapframe
LEMMA AllocprocStep ==
    ASSUME ~Overlap, MemoryInv, NEW t \in Threads, NEW p \in Procs, Allocproc(t, p)
    PROVE  MemoryInv'
<1>1. PICK swapped \in Swapped : GoOn(t, "trapframe", [NoLocals EXCEPT !.child = p,
                                     !.new = Head(freelist), !.swapped = swapped])
  BY DEF Allocproc
<1>2. PICK l : l = [NoLocals EXCEPT !.child = p, !.new = Head(freelist), !.swapped = swapped]
  OBVIOUS
<1>3. /\ at[t] = "user" /\ state[p] = "UNUSED" /\ ~Full
      /\ (\A u \in Threads : loc[u].child # p)
      /\ GoOn(t, "trapframe", l) /\ UNCHANGED procs /\ UNCHANGED <<mem, entry>>
      /\ freelist' = Tail(freelist)
  BY <1>1, <1>2 DEF Allocproc, Runs, Locked, Forking
<1>4. /\ l.child = p /\ l.root = NULL /\ l.va = 0 /\ l.pa = NULL /\ l.new = Head(freelist)
      /\ l.todo = <<>> /\ l \in Locals /\ "trapframe" \in Labels
  <2>1. swapped \in BOOLEAN /\ NoLocals \in Locals
    BY Parts, MemoryAssumption
  <2> QED
    BY <1>2, <1>3, <2>1, FirstFree, Numbers DEF NoLocals, Locals, Labels, Making
<1>5. Passes(t, l)
  BY <1>3, <1>4, AtUser DEF Passes
<1>6. ASSUME at'[t] = "trapframe", loc'[t] = l
      PROVE  Hand(t)' \subseteq Hand(t) \cup {Head(freelist)} /\ Shape(t)' /\ Task(t)'
  <2>1. ToSet(<<>>) = {} /\ IsInjective(<<>>)
    BY NoneIs
  <2>2. p # "none" /\ Head(freelist) # NULL
    BY <1>3, MemoryAssumption, FirstFree
  <2>3. Hand(t)' \subseteq Hand(t) \cup {Head(freelist)}
    BY <1>4, <1>6, <2>1, <2>2 DEF Hand
  <2>4. Shape(t)'
    BY <1>4, <1>6, <2>1, <2>2 DEF Shape, WithNew
  <2>5. Makes(t)'
    BY <1>3, <1>4, <1>6 DEF Makes, Making, Mapping, Freeing, procs
  <2> QED
    BY <1>4, <1>6, <2>2, <2>3, <2>4, <2>5 DEF Task
<1>7. at[t] # "gone"
  BY <1>3
<1> QED
  BY <1>3, <1>4, <1>5, <1>6, <1>7, TakeStep

\* The page fault takes a page
LEMMA FaultStep ==
    ASSUME MemoryInv, NEW t \in Threads, NEW va, Fault(t, va)
    PROVE  MemoryInv'
<1>1. CASE Full \/ va \notin UserVas
  BY <1>1, Stays DEF Fault, Panic
<1>2. CASE ~Full /\ va \in UserVas
  <2>2. PICK l : l = [NoLocals EXCEPT !.va = va, !.root = pagetable[t], !.new = Head(freelist)]
    OBVIOUS
  <2>3. /\ at[t] = "user" /\ t \in Procs /\ GoOn(t, "fault", l) /\ UNCHANGED procs
        /\ UNCHANGED <<mem, entry>> /\ freelist' = Tail(freelist)
    BY <1>2, <2>2 DEF Fault, Runs
  <2>4. /\ l.child = "none" /\ l.root = pagetable[t] /\ l.va = va /\ l.pa = NULL
        /\ l.new = Head(freelist) /\ l.swapped = FALSE
        /\ l.todo = <<>> /\ l \in Locals /\ "fault" \in Labels
    <3>1. NoLocals \in Locals /\ pagetable[t] \in 0..NPages
      BY <2>3, Parts DEF MemoryInv, Types
    <3> QED
      BY <1>2, <2>2, <3>1, FirstFree, Numbers, Addresses DEF NoLocals, Locals, Labels
  <2>5. Passes(t, l)
    BY <2>3, <2>4, AtUser DEF Passes
  <2>6. ASSUME at'[t] = "fault", loc'[t] = l
        PROVE  Hand(t)' \subseteq Hand(t) \cup {Head(freelist)} /\ Shape(t)' /\ Task(t)'
    <3>1. ToSet(<<>>) = {} /\ IsInjective(<<>>)
      BY NoneIs
    <3>2. Head(freelist) # NULL
      BY <1>2, FirstFree
    <3>3. Hand(t)' \subseteq Hand(t) \cup {Head(freelist)}
      BY <2>4, <2>6, <3>1, <3>2 DEF Hand
    <3>4. Shape(t)'
      BY <2>4, <2>6, <3>1, <3>2 DEF Shape, WithNew
    <3>5. Serves(t)'
      BY <1>2, <2>3, <2>4, <2>6 DEF Serves, Mapping, Freeing, procs
    <3> QED
      BY <2>4, <2>6, <3>3, <3>4, <3>5 DEF Task
  <2>7. at[t] # "gone"
    BY <2>3
  <2> QED
    BY <1>2, <2>3, <2>4, <2>5, <2>6, <2>7, TakeStep
<1> QED
  BY <1>1, <1>2

\* A step of a thread that changes one slot of the process table
LEMMA Touching ==
    ASSUME MemoryInv, NEW t \in Threads, NEW c \in Procs,
           \A u \in Threads : u # t => loc'[u] = loc[u] /\ loc[u].child # c,
           \A u \in Threads : u # t => at'[u] = at[u] \/ (u = c /\ at'[u] = "user"),
           \A u \in Threads : u # t => \A q \in Hand(u) : mem'[q] = mem[q],
           \A r \in Roots : r # pagetable[c] => \A va \in VAs :
              Walk(r, va)' = Walk(r, va) /\ Lookup(r, va)' = Lookup(r, va),
           \A p \in Procs : p # c => /\ at'[p] = "gone" <=> at[p] = "gone"
                                     /\ state'[p] = state[p]
                                     /\ trapframe'[p] = trapframe[p]
                                     /\ pagetable'[p] = pagetable[p],
           at[c] \in {"user", "gone", "spins"},
           pagetable'[c] \in {pagetable[c], NULL, loc[t].root},
           \A p \in Procs : p # c /\ pagetable'[c] = pagetable[p] => pagetable'[c] = NULL,
           loc'[t].child \in {"none", c},
           loc[t].child \in {"none", c},
           loc'[t].root \in {loc[t].root, NULL}
    PROVE  /\ \A u \in Threads : u # t => Shape(u)' /\ Task(u)' /\ Hand(u)' = Hand(u)
           /\ \A u \in Threads : Alone(u)'
           /\ \A p \in Procs : p # c => Slot(p)'
<1>1. ASSUME NEW u \in Threads, u # t PROVE Shape(u)' /\ Task(u)' /\ Hand(u)' = Hand(u)
  <2>1. CASE at'[u] = at[u]
    <3>1. ASSUME loc[u].root # NULL
          PROVE  \A va \in VAs : /\ Walk(loc[u].root, va)' = Walk(loc[u].root, va)
                                 /\ Lookup(loc[u].root, va)' = Lookup(loc[u].root, va)
      <4>1. PICK r : r = loc[u].root
        OBVIOUS
      <4>2. r \in Roots /\ r # pagetable[c] /\ r = loc'[u].root
        BY <1>1, <3>1, <4>1, OwnRoot DEF Roots
      <4>3. \A va \in VAs : Walk(r, va)' = Walk(r, va) /\ Lookup(r, va)' = Lookup(r, va)
        BY <4>2
      <4> QED
        BY <4>1, <4>2, <4>3
    <3>2. loc[u] \in Locals
      BY Parts
    <3>3. loc[u].child # "none" => loc[u].child \in Procs /\ loc[u].child # c
      BY <1>1, <3>2 DEF Locals
    <3>4. u \in Procs /\ loc[u].child = "none" /\ at[u] \notin {"user", "gone", "spins"} =>
            pagetable'[u] = pagetable[u]
      OBVIOUS
    <3>5. Shape(u)' /\ Task(u)'
      <4>1. \A p \in Procs : pagetable'[p] \in {pagetable[p], NULL, loc[t].root}
        OBVIOUS
      <4>2. loc'[u] = loc[u] /\ \A q \in Hand(u) : mem'[q] = mem[q]
        BY <1>1
      <4> QED
        BY <1>1, <2>1, <3>1, <3>3, <3>4, <4>1, <4>2, Others
    <3> QED
      BY <1>1, <2>1, <3>5 DEF Hand
  <2>2. CASE u = c /\ at'[u] = "user"
    <3>1. loc[u] = NoLocals /\ loc'[u] = loc[u] /\ Hand(u) = {}
      BY <1>1, <2>2, AtUser
    <3>2. /\ loc'[u].new = NULL /\ loc'[u].todo = <<>> /\ loc'[u].pa = NULL
          /\ loc'[u].child = "none"
      BY <3>1 DEF NoLocals
    <3>3. NULL \notin ToSet(<<>>) /\ IsInjective(<<>>) /\ ToSet(<<>>) = {}
      BY NoneIs
    <3> QED
      BY <2>2, <3>1, <3>2, <3>3 DEF Hand, Shape, Task, WithNew
  <2> QED
    BY <1>1, <2>1, <2>2
<1>2. \A u \in Threads : Alone(u)'
  <2>1. \A u \in Threads : u # t => loc'[u].child = loc[u].child /\ loc'[u].root = loc[u].root
    OBVIOUS
  <2>2. loc'[t].child # "none" => \A u \in Threads : u # t => loc[u].child # loc'[t].child
    OBVIOUS
  <2>3. \A u \in Threads : u # t /\ loc[u].root = loc'[t].root => loc'[t].root = NULL
    BY OneRoot
  <2> QED
    BY <2>1, <2>2, <2>3, AllAlone
<1>3. ASSUME NEW p \in Procs, p # c PROVE Slot(p)'
  <2>1. Slot(p)
    BY DEF MemoryInv
  <2>2. (\E u \in Threads : loc[u].child = p) => \E u \in Threads : loc'[u].child = p
    BY <1>3, MemoryAssumption
  <2>3. \A q \in Procs : pagetable'[p] = pagetable'[q] /\ pagetable'[p] # NULL => p = q
    <3> SUFFICES ASSUME NEW q \in Procs, pagetable'[p] = pagetable'[q], pagetable'[p] # NULL
                 PROVE  p = q
      OBVIOUS
    <3>1. q # c
      BY <1>3
    <3> QED
      BY <1>3, <2>1, <3>1 DEF Slot
  <2> QED
    BY <1>3, <2>1, <2>2, <2>3 DEF Slot
<1> QED
  BY <1>1, <1>2, <1>3

\* What GoOn changes
LEMMA GoesTo ==
    ASSUME MemoryInv, NEW t \in Threads, NEW label \in Labels, NEW l \in Locals,
               GoOn(t, label, l)
    PROVE  /\ at' \in [Threads -> Labels] /\ loc' \in [Threads -> Locals]
           /\ at'[t] = label /\ loc'[t] = l
           /\ \A u \in Threads : u # t => at'[u] = at[u] /\ loc'[u] = loc[u]
  BY DEF GoOn, MemoryInv, Types

\* allocproc has its trapframe
LEMMA TrapframeStep ==
    ASSUME MemoryInv, NEW t \in Threads, Trapframe(t)
    PROVE  MemoryInv'
<1>1. PICK l, pg, c : l = [loc[t] EXCEPT !.new = NULL] /\ pg = loc[t].new /\ c = loc[t].child
  OBVIOUS
<1>2. /\ at[t] = "trapframe" /\ Shape(t) /\ Alone(t) /\ loc[t] \in Locals /\ c \in Procs
      /\ c # "none" /\ Makes(t)
      /\ GoOn(t, "Uvmcreate", l) /\ Fill(pg, "fives")
      /\ trapframe' = [trapframe EXCEPT ![c] = pg] /\ UNCHANGED <<state, pagetable, areas>>
  BY <1>1, Parts, Who DEF Trapframe, Runs, Making, Locals
<1>3. pg # NULL /\ pg \in Hand(t) /\ pg \in Pages
  BY <1>1, <1>2, Pairs DEF Shape, WithNew, Hand
<1>4. /\ l.child = c /\ l.root = NULL /\ loc[t].root = NULL /\ l.va = loc[t].va
      /\ l.pa = loc[t].pa /\ l.new = NULL /\ l.todo = loc[t].todo
      /\ l \in Locals /\ "Uvmcreate" \in Labels /\ "fives" \in Fills
  BY <1>1, <1>2, Numbers DEF Locals, Labels, Making, Fills, Makes
<1>5. /\ EntryInv' /\ mem' \in [Pages -> Fills] /\ (\A r \in Roots : Same(r))
      /\ (\A q \in Pages : mem'[q] = IF q = pg THEN "fives" ELSE mem[q])
      /\ freelist' = freelist
  BY <1>2, <1>3, <1>4, Filling, Pairs DEF Fill
<1>6. /\ at' \in [Threads -> Labels] /\ loc' \in [Threads -> Locals]
      /\ at'[t] = "Uvmcreate" /\ loc'[t] = l
      /\ \A u \in Threads : u # t => at'[u] = at[u] /\ loc'[u] = loc[u]
  BY <1>2, <1>4, GoesTo
<1>7. /\ trapframe' \in [Procs -> 0..NPages] /\ trapframe'[c] = pg
      /\ \A p \in Procs : p # c => trapframe'[p] = trapframe[p]
  BY <1>2, <1>3, Numbers DEF MemoryInv, Types
<1>8. state[c] = "UNUSED" /\ Slot(c) /\ at[c] = "gone" /\ c \in Threads /\ c # t
  BY <1>1, <1>2 DEF MemoryInv, Makes, Slot, Threads
<1>9. /\ \A u \in Threads : u # t => Shape(u)' /\ Task(u)' /\ Hand(u)' = Hand(u)
      /\ \A u \in Threads : Alone(u)'
      /\ \A p \in Procs : p # c => Slot(p)'
  <2>1. \A u \in Threads : u # t => loc'[u] = loc[u] /\ loc[u].child # c
    BY <1>1, <1>2, <1>6 DEF Alone
  <2>2. \A u \in Threads : u # t => \A q \in Hand(u) : mem'[q] = mem[q]
    BY <1>3, <1>5, Pairs
  <2>3. \A r \in Roots : \A va \in VAs :
            Walk(r, va)' = Walk(r, va) /\ Lookup(r, va)' = Lookup(r, va)
    BY <1>5 DEF Same
  <2>4. \A p \in Procs : p # c => /\ at'[p] = "gone" <=> at[p] = "gone"
                                  /\ state'[p] = state[p]
                                  /\ trapframe'[p] = trapframe[p]
                                  /\ pagetable'[p] = pagetable[p]
    BY <1>2, <1>6, <1>7 DEF Threads
  <2>5. pagetable'[c] = pagetable[c]
        /\ \A p \in Procs : p # c /\ pagetable'[c] = pagetable[p] => pagetable'[c] = NULL
    BY <1>2, <1>8 DEF Slot
  <2>6. \A u \in Threads : u # t => at'[u] = at[u]
    BY <1>6
  <2>7. loc'[t].child = c /\ loc[t].child = c /\ loc'[t].root = loc[t].root
    BY <1>1, <1>4, <1>6
  <2> QED
    BY <1>2, <1>8, <2>1, <2>2, <2>3, <2>4, <2>5, <2>6, <2>7, Touching
<1>10. Roots' \subseteq Roots
  BY <1>2, <1>4, <1>6 DEF Roots
<1>11. Hand(t)' \subseteq Hand(t) \ {pg}
  <2>1. loc[t].todo = <<>>
    BY <1>2 DEF Shape
  <2> QED
    BY <1>2, <1>4, <1>6, <2>1, NoneIs DEF Hand
<1>12. Trees' /\ \A d \in Claims : d # TrapframeOf(c) => Has(d)' \subseteq Has(d)
  <2>2. \A u \in Threads : Hand(u)' \subseteq Hand(u)
    BY <1>9, <1>11
  <2>3. \A p \in Procs : TrapframeOf(c) # TrapframeOf(p) => trapframe'[p] = trapframe[p]
    BY <1>7
  <2> QED
    BY <1>5, <1>10, <2>2, <2>3, Passing
<1>13. Apart'
  <2>1. /\ TrapframeOf(c) \in Claims /\ HandOf(t) \in Claims /\ HandOf(t) # TrapframeOf(c)
        /\ Has(TrapframeOf(c))' = {trapframe'[c]} \ {NULL}
        /\ Has(HandOf(t)) = Hand(t) /\ Has(HandOf(t))' = Hand(t)'
    BY <1>2, ClaimsAre, ClaimsDiffer, HasNow, HasNext DEF HasParts
  <2>2. Has(TrapframeOf(c))' \subseteq Has(TrapframeOf(c))
            \cup (Has(HandOf(t)) \ Has(HandOf(t))')
    BY <1>3, <1>7, <1>11, <2>1
  <2>3. Apart
    BY DEF MemoryInv
  <2> QED
    BY <1>12, <2>1, <2>2, <2>3, Moved
<1>14. Ones'
  <2>1. pg \notin ToSet(freelist) /\ ToSet(freelist) \subseteq Pages
    BY <1>3, Pairs DEF MemoryInv, Types, ToSet
  <2> QED
    BY <1>5, <2>1 DEF MemoryInv, Ones
<1>15. Shape(t)' /\ Task(t)'
  <2>1. loc[t].todo = <<>>
    BY <1>2 DEF Shape
  <2>2. Shape(t)'
    BY <1>4, <1>6, <2>1, NoneIs DEF Shape, WithNew
  <2>3. Makes(t)'
    BY <1>1, <1>2, <1>3, <1>4, <1>6, <1>7 DEF Makes, Making, Mapping, Freeing
  <2> QED
    BY <1>2, <1>4, <1>6, <2>2, <2>3 DEF Task
<1>16. Slot(c)'
  BY <1>2, <1>6, <1>8 DEF Slot
<1>17. Types'
  BY <1>2, <1>5, <1>6, <1>7 DEF MemoryInv, Types
<1> QED
  BY <1>9, <1>12, <1>13, <1>14, <1>15, <1>16, <1>17 DEF MemoryInv

\* A step that leaves the pages alone
LEMMA SamePages ==
    ASSUME MemoryInv, UNCHANGED pages
    PROVE  /\ EntryInv' /\ mem' \in [Pages -> Fills] /\ freelist' \in Seq(Pages) /\ Ones'
           /\ \A r \in Roots : Same(r)
           /\ freelist' = freelist /\ mem' = mem /\ entry' = entry
<1>1. freelist' = freelist /\ mem' = mem /\ entry' = entry
  BY DEF pages
<1>2. EntryInv' /\ mem' \in [Pages -> Fills] /\ freelist' \in Seq(Pages) /\ Ones'
  BY <1>1 DEF MemoryInv, Types, EntryInv, Ones
<1> QED
  BY <1>1, <1>2, Untouched

\* A thread in user mode
LEMMA Idles ==
    ASSUME NEW t \in Threads, at'[t] \in {"user", "gone", "spins"}, loc'[t] = NoLocals
    PROVE  Shape(t)' /\ Task(t)' /\ Hand(t)' = {}
<1>1. /\ loc'[t].new = NULL /\ loc'[t].todo = <<>> /\ loc'[t].pa = NULL
      /\ loc'[t].child = "none"
  BY DEF NoLocals
<1>2. NULL \notin ToSet(<<>>) /\ IsInjective(<<>>) /\ ToSet(<<>>) = {}
  BY NoneIs
<1> QED
  BY <1>1, <1>2 DEF Hand, Shape, Task, WithNew

\* freeproc takes the trapframe from its process
LEMMA FreeprocStep ==
    ASSUME MemoryInv, NEW t \in Threads, NEW c \in Procs, Freeproc(t, c)
    PROVE  MemoryInv'
<1>1. PICK l, pg : /\ l = [NoLocals EXCEPT !.child = c, !.va = TRAPFRAME,
                        !.todo = <<trapframe[c]>>]
                   /\ pg = trapframe[c]
  OBVIOUS
<1>2. /\ at[t] = "user" /\ t \in Procs /\ state[c] = "ZOMBIE"
      /\ (\A u \in Threads : loc[u].child # c)
      /\ GoOn(t, "kfree", l) /\ trapframe' = [trapframe EXCEPT ![c] = NULL]
      /\ UNCHANGED <<pages, state, pagetable, areas>>
  <2>1. /\ at[t] = "user" /\ t \in Procs /\ state[c] = "ZOMBIE" /\ ~Locked(c)
        /\ GoOn(t, "kfree", l) /\ trapframe' = [trapframe EXCEPT ![c] = NULL]
        /\ UNCHANGED <<pages, state, pagetable, areas>>
    BY <1>1 DEF Freeproc, Runs
  <2>2. ASSUME NEW u \in Threads, at[u] = "forks" PROVE loc[u].child # c
    BY <2>1, <2>2, AtForks DEF Makes
  <2> QED
    BY <2>1, <2>2 DEF Locked
<1>3. /\ Slot(c) /\ at[c] = "gone" /\ c \in Threads /\ c # t /\ pagetable[c] # NULL
      /\ pg # NULL
      /\ pg \in Pages /\ c # "none"
  <2>1. Slot(c) /\ trapframe[c] \in 0..NPages
    BY DEF MemoryInv, Types
  <2> QED
    BY <1>1, <1>2, <2>1, Numbers, MemoryAssumption DEF Slot, Threads
<1>4. /\ l.child = c /\ l.root = NULL /\ l.va = TRAPFRAME /\ l.pa = NULL /\ l.new = NULL
      /\ l.todo = <<pg>> /\ l \in Locals /\ "kfree" \in Labels
  <2>1. NoLocals \in Locals /\ <<pg>> \in Seq(Pages)
    BY <1>2, <1>3, Parts, OneIs
  <2> QED
    BY <1>1, <2>1, Addresses DEF NoLocals, Locals, Labels, Freeing
<1>5. /\ EntryInv' /\ mem' \in [Pages -> Fills] /\ freelist' \in Seq(Pages) /\ Ones'
      /\ \A r \in Roots : Same(r)
      /\ freelist' = freelist /\ mem' = mem /\ entry' = entry
  BY <1>2, SamePages
<1>6. /\ at' \in [Threads -> Labels] /\ loc' \in [Threads -> Locals]
      /\ at'[t] = "kfree" /\ loc'[t] = l
      /\ \A u \in Threads : u # t => at'[u] = at[u] /\ loc'[u] = loc[u]
  BY <1>2, <1>4, GoesTo
<1>7. /\ trapframe' \in [Procs -> 0..NPages] /\ trapframe'[c] = NULL
      /\ \A p \in Procs : p # c => trapframe'[p] = trapframe[p]
  BY <1>2, <1>3, Numbers DEF MemoryInv, Types
<1>8. loc[t].child = "none" /\ loc[t].root = NULL /\ Hand(t) = {}
  BY <1>2, AtUser
<1>9. /\ \A u \in Threads : u # t => Shape(u)' /\ Task(u)' /\ Hand(u)' = Hand(u)
      /\ \A u \in Threads : Alone(u)'
      /\ \A p \in Procs : p # c => Slot(p)'
  <2>1. \A u \in Threads : u # t => loc'[u] = loc[u] /\ loc[u].child # c
    BY <1>2, <1>6
  <2>2. \A u \in Threads : u # t => \A q \in Hand(u) : mem'[q] = mem[q]
    BY <1>5
  <2>3. \A r \in Roots : \A va \in VAs :
            Walk(r, va)' = Walk(r, va) /\ Lookup(r, va)' = Lookup(r, va)
    BY <1>5 DEF Same
  <2>4. \A p \in Procs : p # c => /\ at'[p] = "gone" <=> at[p] = "gone"
                                  /\ state'[p] = state[p]
                                  /\ trapframe'[p] = trapframe[p]
                                  /\ pagetable'[p] = pagetable[p]
    BY <1>2, <1>6, <1>7 DEF Threads
  <2>5. pagetable'[c] = pagetable[c]
        /\ \A p \in Procs : p # c /\ pagetable'[c] = pagetable[p] => pagetable'[c] = NULL
    BY <1>2, <1>3 DEF Slot
  <2>6. \A u \in Threads : u # t => at'[u] = at[u]
    BY <1>6
  <2>7. loc'[t].child = c /\ loc[t].child = "none" /\ loc'[t].root = NULL
    BY <1>4, <1>6, <1>8
  <2> QED
    BY <1>3, <2>1, <2>2, <2>3, <2>4, <2>5, <2>6, <2>7, Touching
<1>10. Roots' \subseteq Roots
  BY <1>2, <1>4, <1>6 DEF Roots
<1>11. Hand(t)' \subseteq {pg}
  BY <1>3, <1>4, <1>6, OneIs DEF Hand
<1>12. Trees' /\ \A d \in Claims : d # HandOf(t) => Has(d)' \subseteq Has(d)
  <2>2. \A u \in Threads : HandOf(t) # HandOf(u) => Hand(u)' \subseteq Hand(u)
    BY <1>9
  <2>3. \A p \in Procs : trapframe'[p] \in {trapframe[p], NULL}
    BY <1>7
  <2> QED
    BY <1>5, <1>10, <2>2, <2>3, Passing
<1>13. Apart'
  <2>1. /\ TrapframeOf(c) \in Claims /\ HandOf(t) \in Claims /\ TrapframeOf(c) # HandOf(t)
        /\ Has(TrapframeOf(c)) = {trapframe[c]} \ {NULL}
        /\ Has(TrapframeOf(c))' = {trapframe'[c]} \ {NULL}
        /\ Has(HandOf(t))' = Hand(t)'
    BY <1>2, ClaimsAre, ClaimsDiffer, HasNow, HasNext DEF HasParts
  <2>2. Has(HandOf(t))' \subseteq Has(HandOf(t))
            \cup (Has(TrapframeOf(c)) \ Has(TrapframeOf(c))')
    BY <1>1, <1>3, <1>7, <1>11, <2>1
  <2>3. Apart
    BY DEF MemoryInv
  <2> QED
    BY <1>12, <2>1, <2>2, <2>3, Moved
<1>14. Shape(t)' /\ Task(t)'
  <2>1. NULL \notin ToSet(<<pg>>) /\ IsInjective(<<pg>>)
    BY <1>3, OneIs
  <2>2. Shape(t)'
    BY <1>4, <1>6, <2>1 DEF Shape, WithNew
  <2>3. Reaps(t)'
    BY <1>2, <1>3, <1>4, <1>6, <1>7, Addresses DEF Reaps, Freeing
  <2> QED
    BY <1>3, <1>4, <1>6, <2>2, <2>3 DEF Task
<1>15. Slot(c)'
  BY <1>2, <1>3, <1>4, <1>6 DEF Slot
<1>16. Types'
  BY <1>2, <1>5, <1>6, <1>7 DEF MemoryInv, Types
<1> QED
  BY <1>5, <1>9, <1>12, <1>13, <1>14, <1>15, <1>16 DEF MemoryInv

\* freeproc is done
LEMMA ReapedStep ==
    ASSUME MemoryInv, NEW t \in Threads, Reaped(t)
    PROVE  MemoryInv'
<1>1. PICK l, c : l = NoLocals /\ c = loc[t].child
  OBVIOUS
<1>2. /\ at[t] = "kfreed" /\ loc[t].va = 0 /\ c # "none"
      /\ GoOn(t, "user", l) /\ state' = [state EXCEPT ![c] = "UNUSED"]
      /\ UNCHANGED <<pages, trapframe, pagetable, areas>>
  BY <1>1 DEF Reaped, Runs, ToUser
<1>3. /\ Reaps(t) /\ c \in Procs /\ Slot(c) /\ pagetable[c] = NULL /\ state[c] = "ZOMBIE"
      /\ at[c] = "gone"
      /\ c \in Threads /\ c # t /\ Alone(t)
  <2>1. Reaps(t) /\ c \in Procs
    BY <1>1, <1>2, Who, Parts DEF Locals
  <2> QED
    BY <1>1, <1>2, <2>1 DEF Reaps, Slot, Threads, MemoryInv
<1>4. l \in Locals /\ "user" \in Labels /\ l.child = "none" /\ l.root = NULL
  BY <1>1, Parts DEF NoLocals, Labels
<1>5. /\ EntryInv' /\ mem' \in [Pages -> Fills] /\ freelist' \in Seq(Pages) /\ Ones'
      /\ \A r \in Roots : Same(r)
      /\ freelist' = freelist /\ mem' = mem /\ entry' = entry
  BY <1>2, SamePages
<1>6. /\ at' \in [Threads -> Labels] /\ loc' \in [Threads -> Locals]
      /\ at'[t] = "user" /\ loc'[t] = l
      /\ \A u \in Threads : u # t => at'[u] = at[u] /\ loc'[u] = loc[u]
  BY <1>2, <1>4, GoesTo
<1>7. /\ state' \in [Procs -> {"UNUSED", "RUNNABLE", "ZOMBIE"}] /\ state'[c] = "UNUSED"
      /\ \A p \in Procs : p # c => state'[p] = state[p]
  BY <1>2, <1>3 DEF MemoryInv, Types
<1>9. /\ \A u \in Threads : u # t => Shape(u)' /\ Task(u)' /\ Hand(u)' = Hand(u)
      /\ \A u \in Threads : Alone(u)'
      /\ \A p \in Procs : p # c => Slot(p)'
  <2>1. \A u \in Threads : u # t => loc'[u] = loc[u] /\ loc[u].child # c
    BY <1>1, <1>2, <1>3, <1>6 DEF Alone
  <2>2. \A u \in Threads : u # t => \A q \in Hand(u) : mem'[q] = mem[q]
    BY <1>5
  <2>3. \A r \in Roots : \A va \in VAs :
            Walk(r, va)' = Walk(r, va) /\ Lookup(r, va)' = Lookup(r, va)
    BY <1>5 DEF Same
  <2>4. \A p \in Procs : p # c => /\ at'[p] = "gone" <=> at[p] = "gone"
                                  /\ state'[p] = state[p]
                                  /\ trapframe'[p] = trapframe[p]
                                  /\ pagetable'[p] = pagetable[p]
    BY <1>2, <1>6, <1>7 DEF Threads
  <2>5. pagetable'[c] = pagetable[c]
        /\ \A p \in Procs : p # c /\ pagetable'[c] = pagetable[p] => pagetable'[c] = NULL
    BY <1>2, <1>3 DEF Slot
  <2>6. \A u \in Threads : u # t => at'[u] = at[u]
    BY <1>6
  <2>7. loc'[t].child = "none" /\ loc[t].child = c /\ loc'[t].root = NULL
    BY <1>1, <1>4, <1>6
  <2> QED
    BY <1>3, <2>1, <2>2, <2>3, <2>4, <2>5, <2>6, <2>7, Touching
<1>10. Roots' \subseteq Roots
  BY <1>2, <1>4, <1>6 DEF Roots
<1>11. Shape(t)' /\ Task(t)' /\ Hand(t)' = {}
  BY <1>1, <1>6, Idles
<1>12. Trees' /\ Apart'
  <2>2. \A u \in Threads : Hand(u)' \subseteq Hand(u)
    BY <1>9, <1>11
  <2>3. \A p \in Procs : trapframe'[p] = trapframe[p]
    BY <1>2
  <2>4. Trees' /\ \A d \in Claims : d # Nobody => Has(d)' \subseteq Has(d)
    BY <1>5, <1>10, <2>2, <2>3, Passing
  <2> QED
    BY <2>4, NobodyIs, Kept DEF MemoryInv
<1>15. Slot(c)'
  BY <1>2, <1>3, <1>4, <1>6, <1>7 DEF Slot
<1>16. Types'
  BY <1>2, <1>5, <1>6, <1>7 DEF MemoryInv, Types
<1> QED
  BY <1>5, <1>9, <1>11, <1>12, <1>15, <1>16 DEF MemoryInv

-----------------------------------------------------------------------------
(* Mapping *)

\* The root a thread maps pages below
LEMMA MapRoot ==
    ASSUME MemoryInv, NEW t \in Threads, at[t] \in Mapping
    PROVE  /\ loc[t].root # NULL /\ loc[t].root \in Roots /\ Good(loc[t].root)
           /\ loc[t].va \in VAs /\ loc[t].pa \in 1..Trampoline
           /\ loc[t].child = "none" => loc[t].pa \in Pages /\ loc[t].va \in UserVas
           /\ loc[t].child # "none" => /\ loc[t].pa \in {Trampoline, trapframe[loc[t].child]}
                                       /\ loc[t].child \in Procs /\ loc[t].va \notin UserVas
           /\ loc[t].todo = <<>>
<1>1. loc[t] \in Locals /\ Shape(t)
  BY Parts
<1>2. CASE loc[t].child = "none"
  <2>1. Serves(t) /\ pagetable[t] # NULL
    BY <1>2, Who
  <2>2. loc[t].root # NULL /\ loc[t].va \in UserVas /\ loc[t].pa \in Pages
    BY <2>1 DEF Serves
  <2>3. loc[t].root \in Roots
    BY <2>2 DEF Roots
  <2>4. loc[t].pa \in 1..Trampoline
    BY <2>2, Numbers DEF Pages
  <2> QED
    BY <1>1, <1>2, <2>2, <2>3, <2>4, Pairs, Addresses DEF Shape, Mapping
<1>3. CASE loc[t].child # "none"
  <2>1. Makes(t) /\ loc[t].child \in Procs
    BY <1>1, <1>3, Who DEF Locals
  <2>2. /\ loc[t].root # NULL /\ loc[t].va \in {TRAMPOLINE, TRAPFRAME}
        /\ loc[t].pa \in {Trampoline, trapframe[loc[t].child]}
        /\ trapframe[loc[t].child] # NULL
    BY <2>1 DEF Makes
  <2>3. loc[t].root \in Roots
    BY <2>2 DEF Roots
  <2>4. trapframe[loc[t].child] \in 0..NPages
    BY <2>1 DEF MemoryInv, Types
  <2>5. loc[t].pa \in 1..Trampoline
    BY <2>2, <2>4, Numbers DEF Pages
  <2> QED
    BY <1>1, <1>3, <2>1, <2>2, <2>3, <2>5, Pairs, Addresses DEF Shape, Mapping
<1> QED
  BY <1>2, <1>3

\* A thread that goes on mapping the same page
LEMMA Maps ==
    ASSUME MemoryInv, NEW t \in Threads, at[t] \in Mapping, at'[t] \in Mapping,
               UNCHANGED procs,
           NEW new \in 0..NPages, loc'[t] = [loc[t] EXCEPT !.new = new],
           new # NULL <=> at'[t] = "link", new # loc[t].pa,
           loc[t].child = "none" /\ at'[t] = "mapped" =>
              Lookup(loc[t].root, loc[t].va)' = loc[t].pa,
           at'[t] = "link" => Walk(loc[t].root, loc[t].va)'.level > 0
    PROVE  Shape(t)' /\ Task(t)'
<1>1. loc[t] \in Locals /\ loc[t].todo = <<>>
  BY Parts, MapRoot
<1>2. /\ loc'[t].child = loc[t].child /\ loc'[t].root = loc[t].root /\ loc'[t].va = loc[t].va
      /\ loc'[t].pa = loc[t].pa /\ loc'[t].new = new /\ loc'[t].todo = <<>>
      /\ loc'[t].swapped = loc[t].swapped
  BY <1>1 DEF Locals
<1>3. Shape(t)'
  <2>1. ToSet(<<>>) = {} /\ IsInjective(<<>>)
    BY NoneIs
  <2> QED
    BY <1>2, <2>1 DEF Shape, WithNew, Mapping
<1>4. (at[t] = "link" => Walk(loc[t].root, loc[t].va).level > 0)'
  OBVIOUS
<1>5. CASE loc[t].child = "none"
  <2>1. Serves(t)
    BY <1>5, Who
  <2>2. Serves(t)'
    BY <1>2, <1>5, <2>1 DEF Serves, Mapping, Freeing, procs
  <2> QED
    BY <1>2, <1>3, <1>4, <1>5, <2>2 DEF Task
<1>6. CASE loc[t].child # "none"
  <2>1. Makes(t)
    BY <1>6, Who
  <2>2. Makes(t)'
    BY <1>2, <1>6, <2>1 DEF Makes, Making, Mapping, Freeing, procs
  <2> QED
    BY <1>2, <1>3, <1>4, <1>6, <2>2 DEF Task
<1> QED
  BY <1>5, <1>6

\* MapPages sets the entry: the page moves from the hand to its address
LEMMA LeafStep ==
    ASSUME MemoryInv, NEW t \in Threads, at[t] = "map",
           Leaf(t, Walk(loc[t].root, loc[t].va)), Walk(loc[t].root, loc[t].va).level = 0,
           GoOn(t, "mapped", loc[t]), UNCHANGED <<freelist, mem, procs>>
    PROVE  MemoryInv'
<1>1. PICK r, va, pa, l : r = loc[t].root /\ va = loc[t].va /\ pa = loc[t].pa /\ l = loc[t]
  OBVIOUS
<1>2. /\ at[t] \in Mapping /\ r \in Roots /\ Good(r) /\ va \in VAs /\ pa \in 1..Trampoline
      /\ r # NULL
  BY <1>1, MapRoot DEF Mapping
<1>3. EntryInv /\ freelist' = freelist /\ mem' = mem /\ UNCHANGED procs
  BY DEF MemoryInv, Types
<1>4. entry' = [entry EXCEPT ![Walk(r, va).table][PX(0, va)] = [to |-> pa, leaf |-> TRUE]]
  BY <1>1 DEF Leaf
<1>5. /\ EntryInv' /\ Good(r)' /\ TablesOf(r)' = TablesOf(r)
      /\ \A vb \in VAs : /\ Walk(r, vb)' = Walk(r, vb)
                         /\ Lookup(r, vb)' = IF vb = va THEN pa ELSE Lookup(r, vb)
      /\ \A pg \in Pages : pg \notin TablesOf(r) => entry'[pg] = entry[pg]
  <2>1. Walk(r, va).level = 0
    BY <1>1
  <2> QED
    BY <1>2, <1>3, <1>4, <2>1, LeafTree
<1>6. \A s \in Roots : s # r => Same(s)
  <2> SUFFICES ASSUME NEW s \in Roots, s # r PROVE Same(s)
    OBVIOUS
  <2>1. TablesOf(s) \cap TablesOf(r) = {} /\ TablesOf(s) \subseteq Pages /\ Good(s)
    BY <1>2, Pairs
  <2> QED
    BY <1>3, <1>5, <2>1, SameTables
<1>7. /\ at' \in [Threads -> Labels] /\ loc' \in [Threads -> Locals]
      /\ at'[t] = "mapped" /\ loc'[t] = l
      /\ \A u \in Threads : u # t => Shape(u)' /\ Task(u)' /\ Hand(u)' = Hand(u)
      /\ \A u \in Threads : Alone(u)'
      /\ \A p \in Procs : Slot(p)'
      /\ Roots' \subseteq Roots \cup ({l.root} \ {NULL})
  <2>1. l \in Locals /\ "mapped" \in Labels /\ GoOn(t, "mapped", l)
    BY <1>1, Parts DEF Labels, Mapping
  <2>2. l.child = loc[t].child /\ l.root = loc[t].root
    BY <1>1
  <2>3. \A s \in Roots : s # loc[t].root => \A vb \in VAs :
          Walk(s, vb)' = Walk(s, vb) /\ Lookup(s, vb)' = Lookup(s, vb)
    BY <1>1, <1>6 DEF Same
  <2>4. \A u \in Threads : u # t => \A q \in Hand(u) : mem'[q] = mem[q]
    BY <1>3
  <2> QED
    BY <1>3, <2>1, <2>2, <2>3, <2>4, Going
<1>8. Roots' \subseteq Roots
  BY <1>1, <1>2, <1>7
<1>9. l.new = NULL /\ l.todo = <<>> /\ l.new # pa
  <2>1. Shape(t)
    BY Parts
  <2>2. l.new = NULL /\ l.todo = <<>>
    BY <1>1, <2>1 DEF Shape, WithNew
  <2>3. pa # NULL
    BY <1>2 DEF NULL
  <2> QED
    BY <2>2, <2>3
<1>10. Hand(t)' = {}
  <2>1. l.child # "none" \/ l.child = "none"
    OBVIOUS
  <2> QED
    BY <1>7, <1>9, NoneIs DEF Hand
<1>11. Shape(t)' /\ Task(t)'
  <2>1. l = [l EXCEPT !.new = NULL] /\ NULL \in 0..NPages
    BY <1>1, <1>9, Parts, Numbers DEF Locals
  <2>2. Lookup(loc[t].root, loc[t].va)' = loc[t].pa
    <3>1. Lookup(r, va)' = pa
      BY <1>2, <1>5
    <3>2. loc'[t].root = r /\ loc'[t].va = va
      BY <1>1, <1>7
    <3> QED
      BY <1>1, <1>7, <3>1, <3>2
  <2> QED
    BY <1>1, <1>2, <1>3, <1>7, <1>9, <2>1, <2>2, Maps DEF Mapping
<1>12. Trees'
  BY <1>5, <1>6, <1>8 DEF Trees, Same
<1>13. ASSUME NEW to, \A vb \in UserVas : vb = va => to = FrameOf(r, va)
       PROVE  \A c \in Claims : c # to => Has(c)' \subseteq Has(c)
  <2>1. \A s \in Roots' : s \in Pages =>
             /\ to # TableOf(s) => s \in Roots /\ TablesOf(s)' \subseteq TablesOf(s)
             /\ \A vb \in UserVas : to # FrameOf(s, vb) =>
                  Lookup(s, vb)' = NULL \/ (s \in Roots /\ Lookup(s, vb)' = Lookup(s, vb))
    <3> SUFFICES ASSUME NEW s \in Roots'
                 PROVE  /\ s \in Roots /\ TablesOf(s)' \subseteq TablesOf(s)
                        /\ \A vb \in UserVas : to # FrameOf(s, vb) =>
                             Lookup(s, vb)' = Lookup(s, vb)
      OBVIOUS
    <3>1. s \in Roots
      BY <1>8
    <3>2. CASE s = r
      BY <1>5, <1>13, <3>1, <3>2, Addresses
    <3>3. CASE s # r
      BY <1>6, <3>1, <3>3, Addresses DEF Same
    <3> QED
      BY <3>2, <3>3
  <2>2. \A u \in Threads : Hand(u)' \subseteq Hand(u)
    BY <1>7, <1>10
  <2>3. trapframe' = trapframe
    BY <1>3 DEF procs
  <2> QED
    BY <1>3, <2>1, <2>2, <2>3, NoMore
<1>14. Apart'
  <2>1. CASE va \in UserVas
    <3>1. \A c \in Claims : c # FrameOf(r, va) => Has(c)' \subseteq Has(c)
      BY <1>13
    <3>2. r \in Pages /\ Apart
      BY <1>2, Pairs DEF MemoryInv
    <3>3. /\ FrameOf(r, va) \in Claims /\ HandOf(t) \in Claims /\ HandOf(t) # FrameOf(r, va)
          /\ Has(HandOf(t)) = Hand(t) /\ Has(HandOf(t))' = Hand(t)'
          /\ Has(FrameOf(r, va))' \subseteq {Lookup(r, va)'}
      BY <2>1, <3>2, ClaimsAre, ClaimsDiffer, HasNow, HasNext DEF HasParts
    <3>4. Lookup(r, va)' = pa
      BY <1>2, <1>5
    <3>5. pa \in Hand(t)
      <4>1. loc[t].child = "none" /\ pa \in Pages
        BY <1>1, <1>2, <2>1, MapRoot
      <4> QED
        BY <1>1, <4>1, Numbers DEF Hand
    <3>6. Has(FrameOf(r, va))' \subseteq Has(FrameOf(r, va))
              \cup (Has(HandOf(t)) \ Has(HandOf(t))')
      BY <1>10, <3>3, <3>4, <3>5
    <3> QED
      BY <3>1, <3>2, <3>3, <3>6, Moved
  <2>2. CASE va \notin UserVas
    <3>1. \A c \in Claims : c # Nobody => Has(c)' \subseteq Has(c)
      BY <1>13, <2>2
    <3> QED
      BY <3>1, NobodyIs, Kept DEF MemoryInv
  <2> QED
    BY <2>1, <2>2
<1>15. Ones' /\ mem' \in [Pages -> Fills] /\ freelist' \in Seq(Pages)
  BY <1>3 DEF MemoryInv, Types, Ones
<1> QED
  BY <1>3, <1>5, <1>7, <1>11, <1>12, <1>14, <1>15, Gather

\* MapPages finds the last table, takes a page for one or fails
LEMMA MapPagesStep ==
    ASSUME MemoryInv, NEW t \in Threads, MapPages(t)
    PROVE  MemoryInv'
<1>1. /\ at[t] = "map" /\ at[t] \in Mapping /\ loc[t] \in Locals /\ Shape(t) /\ at[t] # "gone"
  BY Parts DEF MapPages, Runs, Mapping
<1>2. PICK w, l : /\ w = Walk(loc[t].root, loc[t].va)
                  /\ l = [loc[t] EXCEPT !.new = Head(freelist)]
  OBVIOUS
<1>3. w.level \in {0, 1, 2}
  <2>1. PICK r, va : r = loc[t].root /\ va = loc[t].va
    OBVIOUS
  <2>2. Good(r) /\ va \in VAs /\ EntryInv
    BY <1>1, <2>1, MapRoot DEF MemoryInv, Types
  <2>3. WalkShape(r, va)
    BY <2>2, WalkNow
  <2> QED
    BY <1>2, <2>1, <2>3 DEF WalkShape
<1>4. CASE Panic("undefined") \/ Panic("ramap") \/ Panic("get pagetable entry")
  BY <1>4, Stays DEF Panic
<1>5. CASE w.level > 0 /\ ~Full /\ Take(t, "link") /\ UNCHANGED procs
  <2>2. /\ GoOn(t, "link", l) /\ freelist' = Tail(freelist) /\ UNCHANGED <<mem, entry>>
        /\ UNCHANGED procs
    BY <1>2, <1>5 DEF Take
  <2>3. /\ l.child = loc[t].child /\ l.root = loc[t].root /\ l.va = loc[t].va
        /\ l.pa = loc[t].pa /\ l.new = Head(freelist) /\ l.todo = loc[t].todo
        /\ l.swapped = loc[t].swapped /\ l \in Locals
    BY <1>1, <1>2, <1>5, FirstFree, Numbers DEF Locals
  <2>4. ASSUME at'[t] = "link", loc'[t] = l
        PROVE  Hand(t)' \subseteq Hand(t) \cup {Head(freelist)} /\ Shape(t)' /\ Task(t)'
    <3>1. Hand(t)' \subseteq Hand(t) \cup {Head(freelist)}
      BY <1>1, <2>3, <2>4 DEF Hand
    <3>2. Head(freelist) # loc[t].pa /\ Head(freelist) # NULL /\ Head(freelist) \in 0..NPages
      <4>1. CASE loc[t].child = "none"
        <5>1. loc[t].pa \in Pages
          BY <1>1, <4>1, MapRoot
        <5>2. loc[t].pa \in Hand(t)
          BY <1>1, <4>1, <5>1, Numbers DEF Hand
        <5> QED
          BY <1>5, <5>2, FirstFree, Numbers
      <4>2. CASE loc[t].child # "none"
        BY <1>1, <1>5, <4>2, FirstFree, MapRoot, Numbers
      <4> QED
        BY <4>1, <4>2
    <3>3. Walk(loc[t].root, loc[t].va)'.level > 0
      <4>1. Walk(loc[t].root, loc[t].va)' = Walk(loc[t].root, loc[t].va)
        <5>1. \A r, va : Walk(r, va)' = Walk(r, va)
          BY <2>2 DEF Walk, IsTable
        <5>2. PICK r, va : r = loc[t].root /\ va = loc[t].va
          OBVIOUS
        <5>3. r = loc'[t].root /\ va = loc'[t].va
          BY <2>3, <2>4, <5>2
        <5> QED
          BY <5>1, <5>2, <5>3
      <4> QED
        BY <1>2, <1>5, <4>1
    <3>4. at'[t] \in Mapping /\ loc'[t] = [loc[t] EXCEPT !.new = Head(freelist)]
      BY <1>2, <2>4 DEF Mapping
    <3>5. Shape(t)' /\ Task(t)'
      BY <1>1, <2>2, <2>4, <3>2, <3>3, <3>4, Maps
    <3> QED
      BY <3>1, <3>5
  <2>5. "link" \in Labels
    BY DEF Labels, Mapping
  <2> QED
    BY <1>1, <1>5, <2>2, <2>3, <2>4, <2>5, TakeStep DEF Passes
<1>6. CASE GoOn(t, "unmapped", loc[t]) /\ UNCHANGED <<pages, procs>>
  <2>1. ASSUME at'[t] = "unmapped", loc'[t] = loc[t]
        PROVE  Hand(t)' \subseteq Hand(t) /\ Shape(t)' /\ Task(t)'
    <3>1. Hand(t)' \subseteq Hand(t)
      BY <1>1, <2>1 DEF Hand
    <3>2. loc[t].new = NULL /\ NULL # loc[t].pa /\ NULL \in 0..NPages
      BY <1>1, MapRoot, Numbers DEF Shape, WithNew
    <3>3. loc'[t] = [loc[t] EXCEPT !.new = NULL] /\ at'[t] \in Mapping
      BY <1>1, <2>1, <3>2 DEF Locals, Mapping
    <3>4. Shape(t)' /\ Task(t)'
      BY <1>1, <1>6, <2>1, <3>2, <3>3, Maps
    <3> QED
      BY <3>1, <3>4
  <2>2. "unmapped" \in Labels /\ UNCHANGED procs /\ UNCHANGED pages
    BY <1>6 DEF Labels, Mapping
  <2> QED
    BY <1>1, <1>6, <2>1, <2>2, IdleStep DEF Passes
<1>7. CASE /\ w.level = 0 /\ Leaf(t, w) /\ GoOn(t, "mapped", loc[t])
           /\ UNCHANGED <<freelist, mem, procs>>
  BY <1>1, <1>2, <1>7, LeafStep
<1>8. w.level > 0 \/ w.level = 0
  BY <1>3
<1>9. \/ Panic("undefined") \/ Panic("ramap") \/ Panic("get pagetable entry")
      \/ w.level > 0 /\ ~Full /\ Take(t, "link") /\ UNCHANGED procs
      \/ GoOn(t, "unmapped", loc[t]) /\ UNCHANGED <<pages, procs>>
      \/ /\ ~(w.level > 0) /\ Leaf(t, w) /\ GoOn(t, "mapped", loc[t])
         /\ UNCHANGED <<freelist, mem, procs>>
  BY <1>2 DEF MapPages
<1> QED
  BY <1>4, <1>5, <1>6, <1>7, <1>8, <1>9

\* walk links the new table
LEMMA LinkStep ==
    ASSUME MemoryInv, NEW t \in Threads, Link(t)
    PROVE  MemoryInv'
<1>1. PICK r, va, x, l : /\ r = loc[t].root /\ va = loc[t].va /\ x = loc[t].new
                         /\ l = [loc[t] EXCEPT !.new = NULL]
  OBVIOUS
<1>2. /\ at[t] = "link" /\ at[t] \in Mapping /\ r \in Roots /\ Good(r) /\ va \in VAs
      /\ r # NULL
      /\ Shape(t) /\ Task(t) /\ loc[t] \in Locals
  <2>1. at[t] = "link" /\ at[t] \in Mapping
    BY DEF Link, Runs, Mapping
  <2> QED
    BY <1>1, <2>1, MapRoot, Parts
<1>3. x # NULL /\ x # loc[t].pa /\ x \in Pages /\ x \in Hand(t)
  <2>1. x # NULL /\ x # loc[t].pa
    BY <1>1, <1>2 DEF Shape, WithNew
  <2>2. x \in Hand(t)
    BY <1>1, <2>1 DEF Hand
  <2> QED
    BY <2>1, <2>2, Pairs
<1>4. EntryInv /\ freelist' = freelist /\ UNCHANGED procs /\ DOMAIN mem = Pages
      /\ GoOn(t, "map", l) /\ mem' = [mem EXCEPT ![x] = "zeroes"]
  BY <1>1 DEF MemoryInv, Types, Link
<1>5. PICK up, i :
        /\ up = Walk(r, va).table /\ i = PX(Walk(r, va).level, va)
        /\ entry' = [entry EXCEPT ![x] = ZeroTable, ![up][i] = [to |-> x, leaf |-> FALSE]]
  BY <1>1 DEF Link
<1>6. Walk(r, va).level > 0
  BY <1>1, <1>2 DEF Task
<1>7. \A s \in Roots : x \notin TablesOf(s)
  BY <1>3, Pairs
<1>8. /\ EntryInv' /\ Good(r)' /\ TablesOf(r)' = TablesOf(r) \cup {x}
      /\ \A vb \in VAs : Lookup(r, vb)' = Lookup(r, vb)
      /\ \A pg \in Pages : pg # x => mem'[pg] = mem[pg]
      /\ \A pg \in Pages : pg # x /\ pg \notin TablesOf(r) => entry'[pg] = entry[pg]
  <2>1. x \notin TablesOf(r) /\ DOMAIN mem = Pages /\ EntryInv
    BY <1>2, <1>4, <1>7
  <2>2. Linked(x, up, i)
    BY <1>4, <1>5 DEF Linked
  <2>3. Good(r) /\ va \in VAs /\ x \in Pages
    BY <1>2, <1>3
  <2>4. up = Walk(r, va).table /\ i = PX(Walk(r, va).level, va) /\ Walk(r, va).level > 0
    BY <1>5, <1>6
  <2> QED
    BY <2>1, <2>2, <2>3, <2>4, LinkTree
<1>9. \A s \in Roots : s # r => Same(s)
  <2> SUFFICES ASSUME NEW s \in Roots, s # r PROVE Same(s)
    OBVIOUS
  <2>1. TablesOf(s) \cap TablesOf(r) = {} /\ TablesOf(s) \subseteq Pages /\ Good(s)
    BY <1>2, Pairs
  <2>2. \A pg \in TablesOf(s) : entry'[pg] = entry[pg] /\ mem'[pg] = mem[pg]
    BY <1>7, <1>8, <2>1
  <2> QED
    BY <1>4, <1>8, <2>1, <2>2, SameTables
<1>10. l \in Locals /\ l.child = loc[t].child /\ l.root = r /\ l.pa = loc[t].pa
       /\ l.new = NULL /\ l.todo = <<>> /\ l.va = va
  <2>1. loc[t].todo = <<>>
    BY <1>2, MapRoot
  <2> QED
    BY <1>1, <1>2, <2>1, Numbers DEF Locals
<1>11. /\ at' \in [Threads -> Labels] /\ loc' \in [Threads -> Locals]
       /\ at'[t] = "map" /\ loc'[t] = l
       /\ \A u \in Threads : u # t => Shape(u)' /\ Task(u)' /\ Hand(u)' = Hand(u)
       /\ \A u \in Threads : Alone(u)'
       /\ \A p \in Procs : Slot(p)'
       /\ Roots' \subseteq Roots \cup ({l.root} \ {NULL})
  <2>1. "map" \in Labels /\ at[t] # "gone" /\ "map" # "gone"
    BY <1>2 DEF Labels, Mapping
  <2>3. \A s \in Roots : s # loc[t].root => \A vb \in VAs :
          Walk(s, vb)' = Walk(s, vb) /\ Lookup(s, vb)' = Lookup(s, vb)
    BY <1>1, <1>9 DEF Same
  <2>4. \A u \in Threads : u # t => \A q \in Hand(u) : mem'[q] = mem[q]
    BY <1>3, <1>8, Pairs
  <2>5. l.root = loc[t].root
    BY <1>1, <1>10
  <2> QED
    BY <1>4, <1>10, <2>1, <2>3, <2>4, <2>5, Going
<1>12. Roots' \subseteq Roots
  BY <1>2, <1>10, <1>11
<1>13. Hand(t)' \subseteq Hand(t) \ {x}
  BY <1>2, <1>3, <1>10, <1>11, NoneIs DEF Hand
<1>14. Shape(t)' /\ Task(t)'
  <2>1. NULL \in 0..NPages /\ NULL # loc[t].pa
    BY <1>2, MapRoot, Numbers
  <2>2. at'[t] \in Mapping /\ at'[t] # "mapped" /\ at'[t] # "link"
    BY <1>11 DEF Mapping
  <2> QED
    BY <1>1, <1>2, <1>4, <1>11, <2>1, <2>2, Maps
<1>15. Trees'
  BY <1>8, <1>9, <1>12 DEF Trees, Same
<1>16. \A c \in Claims : c # TableOf(r) => Has(c)' \subseteq Has(c)
  <2>1. \A s \in Roots' : s \in Pages =>
             /\ TableOf(r) # TableOf(s) => s \in Roots /\ TablesOf(s)' \subseteq TablesOf(s)
             /\ \A vb \in UserVas : TableOf(r) # FrameOf(s, vb) =>
                  Lookup(s, vb)' = NULL \/ (s \in Roots /\ Lookup(s, vb)' = Lookup(s, vb))
    <3> SUFFICES ASSUME NEW s \in Roots'
                 PROVE  /\ s \in Roots /\ (s # r => TablesOf(s)' \subseteq TablesOf(s))
                        /\ \A vb \in UserVas : Lookup(s, vb)' = Lookup(s, vb)
      OBVIOUS
    <3>1. s \in Roots
      BY <1>12
    <3>2. CASE s = r
      BY <1>8, <3>1, <3>2, Addresses
    <3>3. CASE s # r
      BY <1>9, <3>1, <3>3, Addresses DEF Same
    <3> QED
      BY <3>2, <3>3
  <2>2. \A u \in Threads : Hand(u)' \subseteq Hand(u)
    BY <1>11, <1>13
  <2>3. trapframe' = trapframe
    BY <1>4 DEF procs
  <2> QED
    BY <1>4, <2>1, <2>2, <2>3, NoMore
<1>17. Apart'
  <2>1. r \in Pages /\ Apart
    BY <1>2, Pairs DEF MemoryInv
  <2>2. /\ TableOf(r) \in Claims /\ HandOf(t) \in Claims /\ HandOf(t) # TableOf(r)
        /\ Has(HandOf(t)) = Hand(t) /\ Has(HandOf(t))' = Hand(t)'
        /\ Has(TableOf(r)) = TablesOf(r) /\ Has(TableOf(r))' \subseteq TablesOf(r)'
    BY <1>2, <2>1, ClaimsAre, ClaimsDiffer, HasNow, HasNext DEF HasParts
  <2>3. Has(TableOf(r))' \subseteq Has(TableOf(r)) \cup (Has(HandOf(t)) \ Has(HandOf(t))')
    BY <1>3, <1>8, <1>13, <2>2
  <2> QED
    BY <1>16, <2>1, <2>2, <2>3, Moved
<1>18. Ones' /\ mem' \in [Pages -> Fills] /\ freelist' \in Seq(Pages)
  <2>1. mem \in [Pages -> Fills] /\ freelist \in Seq(Pages) /\ "zeroes" \in Fills
    BY DEF MemoryInv, Types, Fills
  <2>2. x \notin ToSet(freelist) /\ ToSet(freelist) \subseteq Pages
    BY <1>3, <2>1, Pairs DEF ToSet
  <2> QED
    BY <1>4, <1>8, <2>1, <2>2 DEF MemoryInv, Ones
<1> QED
  BY <1>4, <1>8, <1>11, <1>14, <1>15, <1>17, <1>18, Gather

\* A new root, in this state and in the next
LEMMA NewRootNow == \A r \in Pages : entry[r] = ZeroTable /\ mem[r] = "zeroes" /\ EntryInv =>
    /\ Good(r) /\ TablesOf(r) = {r}
    /\ \A va \in VAs : Lookup(r, va) = NULL
  BY NewRoot

LEMMA NewRootNext == (\A r \in Pages : entry[r] = ZeroTable /\ mem[r] = "zeroes" /\ EntryInv =>
    /\ Good(r) /\ TablesOf(r) = {r}
    /\ \A va \in VAs : Lookup(r, va) = NULL)'
  BY NewRootNow, PTL

\* Uvmcreate has a new root
LEMMA RootStep ==
    ASSUME MemoryInv, NEW t \in Threads, Root(t)
    PROVE  MemoryInv'
<1>1. PICK x, l : /\ x = loc[t].new
                  /\ l = [loc[t] EXCEPT !.root = loc[t].new, !.new = NULL, !.va = TRAMPOLINE,
                                        !.pa = Trampoline]
  OBVIOUS
<1>2. /\ at[t] = "root" /\ Shape(t) /\ loc[t] \in Locals /\ loc[t].child # "none" /\ Makes(t)
      /\ UNCHANGED procs /\ GoOn(t, "map", l) /\ Fill(x, "zeroes")
  BY <1>1, Parts, Who DEF Root, Runs, Making
<1>3. x # NULL /\ x \in Hand(t) /\ x \in Pages
  BY <1>1, <1>2, Pairs DEF Shape, WithNew, Hand
<1>4. \A r \in Roots : x \notin TablesOf(r)
  BY <1>3, Pairs
<1>5. x \notin Roots
  BY <1>4 DEF TablesOf
<1>6. /\ EntryInv' /\ mem' \in [Pages -> Fills]
      /\ (\A r \in Roots : Same(r))
      /\ (\A q \in Pages : mem'[q] = IF q = x THEN "zeroes" ELSE mem[q])
      /\ entry'[x] = ZeroTable /\ freelist' = freelist
  <2>1. "zeroes" \in Fills
    BY DEF Fills
  <2> QED
    BY <1>2, <1>3, <1>4, <2>1, Filling DEF Fill
<1>7. /\ Good(x)' /\ TablesOf(x)' = {x} /\ \A va \in VAs : Lookup(x, va)' = NULL
  BY <1>3, <1>6, NewRootNext
<1>8. /\ l.child = loc[t].child /\ l.root = x /\ l.va = TRAMPOLINE /\ l.pa = Trampoline
      /\ l.new = NULL /\ l.todo = <<>> /\ loc[t].root = NULL
      /\ l \in Locals /\ "map" \in Labels
  <2>1. loc[t].todo = <<>> /\ loc[t].root = NULL
    BY <1>2 DEF Shape, Makes, Making
  <2>2. x \in 0..NPages /\ NULL \in 0..NPages /\ Trampoline \in 0..Trampoline
    BY <1>3, Numbers
  <2> QED
    BY <1>1, <1>2, <2>1, <2>2, Addresses DEF Locals, Labels, Mapping
<1>9. /\ at' \in [Threads -> Labels] /\ loc' \in [Threads -> Locals]
      /\ at'[t] = "map" /\ loc'[t] = l
      /\ \A u \in Threads : u # t => Shape(u)' /\ Task(u)' /\ Hand(u)' = Hand(u)
      /\ \A u \in Threads : Alone(u)'
      /\ \A p \in Procs : Slot(p)'
      /\ Roots' \subseteq Roots \cup ({l.root} \ {NULL})
  <2>1. at[t] # "gone" /\ "map" # "gone"
    BY <1>2
  <2>3. \A s \in Roots : s # loc[t].root => \A vb \in VAs :
          Walk(s, vb)' = Walk(s, vb) /\ Lookup(s, vb)' = Lookup(s, vb)
    BY <1>6 DEF Same
  <2>4. \A u \in Threads : u # t => \A q \in Hand(u) : mem'[q] = mem[q]
    BY <1>3, <1>6, Pairs
  <2>5. l.root \notin Roots
    BY <1>5, <1>8
  <2> QED
    BY <1>2, <1>8, <2>1, <2>3, <2>4, <2>5, Going
<1>10. Roots' \subseteq Roots \cup {x}
  BY <1>8, <1>9
<1>11. Hand(t)' = {}
  BY <1>2, <1>8, <1>9, NoneIs DEF Hand
<1>12. Shape(t)' /\ Task(t)'
  <2>1. Shape(t)'
    BY <1>8, <1>9, NoneIs DEF Shape, WithNew
  <2>2. \A p \in Procs : pagetable[p] # x
    BY <1>3, <1>5 DEF Roots
  <2>3. Makes(t)'
    BY <1>2, <1>3, <1>8, <1>9, <2>2 DEF Makes, Making, Mapping, Freeing, procs
  <2> QED
    BY <1>2, <1>8, <1>9, <2>1, <2>3 DEF Task
<1>13. Trees'
  BY <1>6, <1>7, <1>10 DEF Trees, Same
<1>14. \A c \in Claims : c # TableOf(x) => Has(c)' \subseteq Has(c)
  <2>1. \A s \in Roots' : s \in Pages =>
             /\ TableOf(x) # TableOf(s) => s \in Roots /\ TablesOf(s)' \subseteq TablesOf(s)
             /\ \A vb \in UserVas : TableOf(x) # FrameOf(s, vb) =>
                  Lookup(s, vb)' = NULL \/ (s \in Roots /\ Lookup(s, vb)' = Lookup(s, vb))
    <3> SUFFICES ASSUME NEW s \in Roots'
                 PROVE  /\ s # x => s \in Roots /\ TablesOf(s)' \subseteq TablesOf(s)
                        /\ \A vb \in UserVas :
                             \/ Lookup(s, vb)' = NULL
                             \/ s \in Roots /\ Lookup(s, vb)' = Lookup(s, vb)
      OBVIOUS
    <3>1. s \in Roots \/ s = x
      BY <1>10
    <3> QED
      BY <1>6, <1>7, <3>1, Addresses DEF Same
  <2>2. \A u \in Threads : Hand(u)' \subseteq Hand(u)
    BY <1>9, <1>11
  <2>3. trapframe' = trapframe
    BY <1>2 DEF procs
  <2> QED
    BY <1>6, <2>1, <2>2, <2>3, NoMore
<1>15. Apart'
  <2>1. Apart
    BY DEF MemoryInv
  <2>2. /\ TableOf(x) \in Claims /\ HandOf(t) \in Claims /\ HandOf(t) # TableOf(x)
        /\ Has(HandOf(t)) = Hand(t) /\ Has(HandOf(t))' = Hand(t)'
        /\ Has(TableOf(x))' \subseteq TablesOf(x)'
    BY <1>3, ClaimsAre, ClaimsDiffer, HasNow, HasNext DEF HasParts
  <2>3. Has(TableOf(x))' \subseteq Has(TableOf(x)) \cup (Has(HandOf(t)) \ Has(HandOf(t))')
    BY <1>3, <1>7, <1>11, <2>2
  <2> QED
    BY <1>14, <2>1, <2>2, <2>3, Moved
<1>16. Ones' /\ freelist' \in Seq(Pages)
  <2>1. x \notin ToSet(freelist) /\ ToSet(freelist) \subseteq Pages
    BY <1>3, Pairs DEF MemoryInv, Types, ToSet
  <2> QED
    BY <1>6, <2>1 DEF MemoryInv, Types, Ones
<1> QED
  BY <1>2, <1>6, <1>9, <1>12, <1>13, <1>15, <1>16, Gather

\* proc_pagetable gives up: its tables are in hand
LEMMA UnmappedStep ==
    ASSUME MemoryInv, NEW t \in Threads, Unmapped(t)
    PROVE  MemoryInv'
<1>1. PICK r, l : /\ r = loc[t].root
                  /\ l = [loc[t] EXCEPT !.todo = Tables(loc[t].root), !.root = NULL]
  OBVIOUS
<1>2. /\ at[t] = "unmapped" /\ at[t] \in Mapping /\ Shape(t) /\ loc[t] \in Locals
      /\ loc[t].child # "none" /\ loc[t].child \in Procs /\ Makes(t)
      /\ UNCHANGED procs /\ UNCHANGED pages /\ GoOn(t, "kfree", l) /\ loc[t].va = TRAMPOLINE
  <2>1. at[t] = "unmapped" /\ at[t] \in Mapping /\ loc[t].va = TRAMPOLINE
    BY DEF Unmapped, Runs, Mapping
  <2>2. Shape(t) /\ loc[t] \in Locals /\ loc[t].child # "none" /\ Makes(t)
    BY <2>1, Parts, Who, Addresses
  <2>3. loc[t].child \in Procs
    BY <2>2 DEF Locals
  <2> QED
    BY <1>1, <2>1, <2>2, <2>3 DEF Unmapped
<1>3. r \in Roots /\ Good(r) /\ r \in Pages /\ TablesOf(r) \subseteq Pages /\ r # NULL
  BY <1>1, <1>2, MapRoot, Pairs
<1>4. /\ Tables(r) \in Seq(Pages) /\ IsInjective(Tables(r)) /\ ToSet(Tables(r)) = TablesOf(r)
  <2>1. Tree(r) /\ EntryInv
    BY <1>3 DEF Good, MemoryInv, Types
  <2> QED
    BY <2>1, TablesIs
<1>5. /\ l.child = loc[t].child /\ l.root = NULL /\ l.va = TRAMPOLINE /\ l.pa = loc[t].pa
      /\ l.new = NULL /\ l.todo = Tables(r) /\ l \in Locals /\ "kfree" \in Labels
  <2>1. loc[t].new = NULL
    BY <1>2 DEF Shape, WithNew
  <2> QED
    BY <1>1, <1>2, <1>4, <2>1, Numbers DEF Locals, Labels, Freeing
<1>6. /\ EntryInv' /\ mem' \in [Pages -> Fills] /\ freelist' \in Seq(Pages) /\ Ones'
      /\ \A s \in Roots : Same(s)
      /\ freelist' = freelist /\ mem' = mem /\ entry' = entry
  BY <1>2, SamePages
<1>7. /\ at' \in [Threads -> Labels] /\ loc' \in [Threads -> Locals]
      /\ at'[t] = "kfree" /\ loc'[t] = l
      /\ \A u \in Threads : u # t => Shape(u)' /\ Task(u)' /\ Hand(u)' = Hand(u)
      /\ \A u \in Threads : Alone(u)'
      /\ \A p \in Procs : Slot(p)'
      /\ Roots' \subseteq Roots \cup ({l.root} \ {NULL})
  <2>1. at[t] # "gone" /\ "kfree" # "gone"
    BY <1>2
  <2>3. \A s \in Roots : \A vb \in VAs :
          Walk(s, vb)' = Walk(s, vb) /\ Lookup(s, vb)' = Lookup(s, vb)
    BY <1>6 DEF Same
  <2>4. \A u \in Threads : u # t => \A q \in Hand(u) : mem'[q] = mem[q]
    BY <1>6
  <2> QED
    BY <1>2, <1>5, <2>1, <2>3, <2>4, Going
<1>8. r \notin Roots'
  <2>1. \A p \in Procs : pagetable'[p] # r
    BY <1>1, <1>2 DEF Makes, procs
  <2>2. \A u \in Threads : loc'[u].root # r
    <3> SUFFICES ASSUME NEW u \in Threads, loc'[u].root = r PROVE FALSE
      OBVIOUS
    <3>1. u # t
      BY <1>3, <1>5, <1>7
    <3>2. loc'[u] = loc[u]
      BY <1>2, <1>5, <3>1, GoesTo
    <3> QED
      BY <1>1, <1>3, <3>1, <3>2, OneRoot
  <2> QED
    BY <2>1, <2>2 DEF Roots
<1>9. Roots' \subseteq Roots
  BY <1>5, <1>7
<1>10. Hand(t)' \subseteq TablesOf(r)
  BY <1>2, <1>4, <1>5, <1>7 DEF Hand
<1>11. Trees' /\ \A c \in Claims : c # HandOf(t) => Has(c)' \subseteq Has(c)
  <2>2. \A u \in Threads : HandOf(t) # HandOf(u) => Hand(u)' \subseteq Hand(u)
    BY <1>7
  <2>3. trapframe' = trapframe
    BY <1>2 DEF procs
  <2> QED
    BY <1>6, <1>9, <2>2, <2>3, Passing
<1>12. Apart'
  <2>1. Apart
    BY DEF MemoryInv
  <2>2. /\ TableOf(r) \in Claims /\ HandOf(t) \in Claims /\ HandOf(t) # TableOf(r)
        /\ Has(HandOf(t))' = Hand(t)'
        /\ Has(TableOf(r)) = TablesOf(r) /\ Has(TableOf(r))' = {}
    BY <1>3, <1>8, ClaimsAre, ClaimsDiffer, HasNow, HasNext DEF HasParts
  <2>3. Has(HandOf(t))' \subseteq Has(HandOf(t)) \cup (Has(TableOf(r)) \ Has(TableOf(r))')
    BY <1>10, <2>2
  <2> QED
    BY <1>11, <2>1, <2>2, <2>3, Moved
<1>13. Shape(t)' /\ Task(t)'
  <2>1. NULL \notin ToSet(Tables(r))
    BY <1>3, <1>4, Numbers
  <2>2. Shape(t)'
    BY <1>4, <1>5, <1>7, <2>1 DEF Shape, WithNew
  <2>3. Makes(t)'
    BY <1>2, <1>5, <1>7 DEF Makes, Making, Mapping, Freeing, procs
  <2> QED
    BY <1>2, <1>5, <1>7, <2>2, <2>3 DEF Task
<1> QED
  BY <1>2, <1>6, <1>7, <1>11, <1>12, <1>13, Gather

\* The page fault reads the file into the page
LEMMA FaultReadsStep ==
    ASSUME MemoryInv, NEW t \in Threads, FaultReads(t)
    PROVE  MemoryInv'
<1>1. PICK pg, l, r, va : pg = loc[t].pa /\ l = NoLocals /\ r = loc[t].root /\ va = loc[t].va
  OBVIOUS
<1>2. /\ at[t] \in {"mapped", "unmapped"} /\ at[t] \in Mapping /\ va \in UserVas
      /\ mem' = [mem EXCEPT ![pg] = "file"] /\ GoOn(t, "user", l) /\ UNCHANGED procs
      /\ freelist' = freelist /\ entry' = entry
  BY <1>1 DEF FaultReads, ToUser, Mapping
<1>3. /\ loc[t].child = "none" /\ Serves(t) /\ r \in Roots /\ pg \in Pages
      /\ (at[t] = "mapped" => Lookup(r, va) = pg)
  <2>1. loc[t].child = "none" /\ Serves(t)
    BY <1>1, <1>2, Who
  <2> QED
    BY <1>1, <1>2, <2>1, MapRoot DEF Serves
<1>4. at[t] = "unmapped" => pg \in Hand(t)
  BY <1>1, <1>3, Numbers DEF Hand
<1>5. /\ \A s \in Roots : pg \notin TablesOf(s)
      /\ \A u \in Threads : u # t => pg \notin Hand(u)
      /\ pg \notin ToSet(freelist)
  <2>1. CASE at[t] = "unmapped"
    BY <1>4, <2>1, Pairs
  <2>2. CASE at[t] = "mapped"
    BY <1>2, <1>3, <2>2, Pairs
  <2> QED
    BY <1>2, <2>1, <2>2
<1>6. /\ EntryInv' /\ mem' \in [Pages -> Fills] /\ freelist' \in Seq(Pages)
      /\ \A q \in Pages : q # pg => mem'[q] = mem[q]
  <2>1. mem \in [Pages -> Fills] /\ EntryInv /\ "file" \in Fills /\ freelist \in Seq(Pages)
    BY DEF MemoryInv, Types, Fills
  <2> QED
    BY <1>2, <2>1 DEF EntryInv
<1>7. \A s \in Roots : Same(s)
  <2>1. \A s \in Roots : \A q \in TablesOf(s) : entry'[q] = entry[q] /\ mem'[q] = mem[q]
    BY <1>2, <1>5, <1>6, Pairs
  <2> QED
    BY <1>6, <2>1, Untouched
<1>8. /\ at' \in [Threads -> Labels] /\ loc' \in [Threads -> Locals]
      /\ at'[t] = "user" /\ loc'[t] = l
      /\ \A u \in Threads : u # t => Shape(u)' /\ Task(u)' /\ Hand(u)' = Hand(u)
      /\ \A u \in Threads : Alone(u)'
      /\ \A p \in Procs : Slot(p)'
      /\ Roots' \subseteq Roots \cup ({l.root} \ {NULL})
  <2>1. at[t] # "gone" /\ "user" # "gone" /\ "user" \in Labels /\ l \in Locals
        /\ l.child = loc[t].child /\ l.root = NULL
    BY <1>1, <1>2, <1>3, Parts DEF Labels, NoLocals
  <2>3. \A s \in Roots : \A vb \in VAs :
          Walk(s, vb)' = Walk(s, vb) /\ Lookup(s, vb)' = Lookup(s, vb)
    BY <1>7 DEF Same
  <2>4. \A u \in Threads : u # t => \A q \in Hand(u) : mem'[q] = mem[q]
    BY <1>5, <1>6, Pairs
  <2> QED
    BY <1>2, <2>1, <2>3, <2>4, Going
<1>9. Roots' \subseteq Roots
  BY <1>1, <1>8 DEF NoLocals
<1>10. Shape(t)' /\ Task(t)' /\ Hand(t)' = {}
  BY <1>1, <1>8, Idles
<1>11. Trees' /\ Apart'
  <2>2. \A u \in Threads : Hand(u)' \subseteq Hand(u)
    BY <1>8, <1>10
  <2>3. trapframe' = trapframe
    BY <1>2 DEF procs
  <2>4. Trees' /\ \A d \in Claims : d # Nobody => Has(d)' \subseteq Has(d)
    BY <1>2, <1>7, <1>9, <2>2, <2>3, Passing
  <2> QED
    BY <2>4, NobodyIs, Kept DEF MemoryInv
<1>12. Ones'
  <2>1. ToSet(freelist) \subseteq Pages
    BY DEF MemoryInv, Types, ToSet
  <2> QED
    BY <1>2, <1>5, <1>6, <2>1 DEF MemoryInv, Ones
<1> QED
  BY <1>2, <1>6, <1>8, <1>10, <1>11, <1>12, Gather

\* freeProcPagetable: the tables are in hand
LEMMA FreeProcPagetableStep ==
    ASSUME MemoryInv, NEW t \in Threads, FreeProcPagetable(t)
    PROVE  MemoryInv'
<1>1. PICK c, r, l : /\ c = loc[t].child /\ r = pagetable[loc[t].child]
                     /\ l = [loc[t] EXCEPT !.va = 0, !.todo = Tables(r)]
  OBVIOUS
<1>2. /\ at[t] = "kfreed" /\ loc[t].va = TRAPFRAME /\ Shape(t) /\ Alone(t) /\ loc[t] \in Locals
      /\ c # "none" /\ c \in Procs /\ Reaps(t)
  <2>1. at[t] = "kfreed" /\ loc[t].va = TRAPFRAME
    BY DEF FreeProcPagetable, Runs
  <2>2. Shape(t) /\ Alone(t) /\ loc[t] \in Locals /\ c # "none" /\ Reaps(t)
    BY <1>1, <2>1, Parts, Who
  <2>3. c \in Procs
    BY <1>1, <2>2 DEF Locals
  <2> QED
    BY <2>1, <2>2, <2>3
<1>3. CASE Panic("vmunmap") \/ Panic("freewalk: leaf")
  BY <1>3, Stays DEF Panic
<1>4. CASE /\ GoOn(t, "kfree", l) /\ pagetable' = [pagetable EXCEPT ![c] = NULL]
           /\ UNCHANGED <<pages, state, trapframe, areas>>
  <2>1. /\ Slot(c) /\ state[c] = "ZOMBIE" /\ trapframe[c] = NULL /\ at[c] = "gone"
        /\ c \in Threads
        /\ c # t /\ r # NULL /\ r \in Roots
    <3>1. Slot(c) /\ state[c] = "ZOMBIE" /\ trapframe[c] = NULL /\ r # NULL
      BY <1>1, <1>2, Addresses DEF MemoryInv, Reaps
    <3>2. at[c] = "gone" /\ c \in Threads /\ c # t
      BY <1>2, <3>1 DEF Slot, Threads
    <3> QED
      BY <1>1, <1>2, <3>1, <3>2 DEF Roots
  <2>2. Good(r) /\ r \in Pages /\ TablesOf(r) \subseteq Pages
    BY <2>1, Pairs
  <2>3. /\ Tables(r) \in Seq(Pages) /\ IsInjective(Tables(r)) /\ ToSet(Tables(r)) = TablesOf(r)
    <3>1. Tree(r) /\ EntryInv
      BY <2>2 DEF Good, MemoryInv, Types
    <3> QED
      BY <3>1, TablesIs
  <2>4. /\ l.child = c /\ l.root = NULL /\ loc[t].root = NULL /\ l.va = 0 /\ l.pa = NULL
        /\ l.new = NULL /\ l.todo = Tables(r) /\ l \in Locals /\ "kfree" \in Labels
    <3>1. loc[t].new = NULL /\ loc[t].root = NULL /\ loc[t].pa = NULL
      BY <1>2 DEF Shape, WithNew, Reaps
    <3> QED
      BY <1>1, <1>2, <2>3, <3>1 DEF Locals, Labels, Freeing
  <2>5. /\ EntryInv' /\ mem' \in [Pages -> Fills] /\ freelist' \in Seq(Pages) /\ Ones'
        /\ \A s \in Roots : Same(s)
        /\ freelist' = freelist /\ mem' = mem /\ entry' = entry
    BY <1>4, SamePages
  <2>6. /\ at' \in [Threads -> Labels] /\ loc' \in [Threads -> Locals]
        /\ at'[t] = "kfree" /\ loc'[t] = l
        /\ \A u \in Threads : u # t => at'[u] = at[u] /\ loc'[u] = loc[u]
    BY <1>4, <2>4, GoesTo
  <2>7. /\ pagetable' \in [Procs -> 0..NPages] /\ pagetable'[c] = NULL
        /\ \A p \in Procs : p # c => pagetable'[p] = pagetable[p]
    BY <1>2, <1>4, Numbers DEF MemoryInv, Types
  <2>8. /\ \A u \in Threads : u # t => Shape(u)' /\ Task(u)' /\ Hand(u)' = Hand(u)
        /\ \A u \in Threads : Alone(u)'
        /\ \A p \in Procs : p # c => Slot(p)'
    <3>1. \A u \in Threads : u # t => loc'[u] = loc[u] /\ loc[u].child # c
      BY <1>1, <1>2, <2>6 DEF Alone
    <3>2. \A u \in Threads : u # t => \A q \in Hand(u) : mem'[q] = mem[q]
      BY <2>5
    <3>3. \A s \in Roots : \A va \in VAs :
              Walk(s, va)' = Walk(s, va) /\ Lookup(s, va)' = Lookup(s, va)
      BY <2>5 DEF Same
    <3>4. \A p \in Procs : p # c => /\ at'[p] = "gone" <=> at[p] = "gone"
                                    /\ state'[p] = state[p]
                                    /\ trapframe'[p] = trapframe[p]
                                    /\ pagetable'[p] = pagetable[p]
      BY <1>2, <1>4, <2>6, <2>7 DEF Threads
    <3>5. pagetable'[c] = NULL
      BY <2>7
    <3>6. \A u \in Threads : u # t => at'[u] = at[u]
      BY <2>6
    <3>7. loc'[t].child = c /\ loc[t].child = c /\ loc'[t].root = NULL
      BY <1>1, <2>4, <2>6
    <3> QED
      BY <1>2, <2>1, <3>1, <3>2, <3>3, <3>4, <3>5, <3>6, <3>7, Touching
  <2>9. Roots' \subseteq Roots /\ r \notin Roots'
    <3>1. \A p \in Procs : pagetable'[p] # r
      BY <1>1, <2>1, <2>7 DEF Slot
    <3>2. \A u \in Threads : loc'[u].root # r
      <4> SUFFICES ASSUME NEW u \in Threads, loc'[u].root = r PROVE FALSE
        OBVIOUS
      <4>1. u # t /\ loc'[u] = loc[u]
        BY <2>1, <2>4, <2>6
      <4>2. loc[u].root = pagetable[c]
        BY <1>1, <4>1
      <4>3. loc[u].child # c
        BY <1>1, <1>2, <4>1, Parts DEF MemoryInv, Alone
      <4>4. pagetable[c] = NULL
        BY <1>2, <2>1, <4>2, <4>3, OwnRoot
      <4> QED
        BY <1>1, <2>1, <4>4
    <3>3. Roots' \subseteq Roots
      BY <2>4, <2>6, <2>7 DEF Roots
    <3> QED
      BY <3>1, <3>2, <3>3 DEF Roots
  <2>10. Hand(t)' \subseteq TablesOf(r)
    BY <1>2, <2>3, <2>4, <2>6 DEF Hand
  <2>11. Trees' /\ \A d \in Claims : d # HandOf(t) => Has(d)' \subseteq Has(d)
    <3>2. \A u \in Threads : HandOf(t) # HandOf(u) => Hand(u)' \subseteq Hand(u)
      BY <2>8
    <3>3. trapframe' = trapframe
      BY <1>4
    <3> QED
      BY <2>5, <2>9, <3>2, <3>3, Passing
  <2>12. Apart'
    <3>1. Apart
      BY DEF MemoryInv
    <3>2. /\ TableOf(r) \in Claims /\ HandOf(t) \in Claims /\ HandOf(t) # TableOf(r)
          /\ Has(HandOf(t))' = Hand(t)'
          /\ Has(TableOf(r)) = TablesOf(r) /\ Has(TableOf(r))' = {}
      BY <2>1, <2>2, <2>9, ClaimsAre, ClaimsDiffer, HasNow, HasNext DEF HasParts
    <3>3. Has(HandOf(t))' \subseteq Has(HandOf(t)) \cup (Has(TableOf(r)) \ Has(TableOf(r))')
      BY <2>10, <3>2
    <3> QED
      BY <2>11, <3>1, <3>2, <3>3, Moved
  <2>13. Shape(t)' /\ Task(t)'
    <3>1. NULL \notin ToSet(Tables(r))
      BY <2>2, <2>3, Numbers
    <3>2. Shape(t)'
      BY <2>3, <2>4, <2>6, <3>1 DEF Shape, WithNew
    <3>3. Reaps(t)'
      BY <1>2, <1>4, <2>1, <2>4, <2>6, <2>7 DEF Reaps, Freeing
    <3> QED
      BY <1>2, <2>4, <2>6, <3>2, <3>3 DEF Task
  <2>14. Slot(c)'
    BY <1>4, <2>1, <2>4, <2>6, <2>7 DEF Slot
  <2>15. Types'
    BY <1>4, <2>5, <2>6, <2>7 DEF MemoryInv, Types
  <2> QED
    BY <2>5, <2>8, <2>11, <2>12, <2>13, <2>14, <2>15 DEF MemoryInv
<1> QED
  BY <1>1, <1>3, <1>4 DEF FreeProcPagetable

\* The tables are the new process's, which is UNUSED still
LEMMA MappedTrapframeStep ==
    ASSUME MemoryInv, NEW t \in Threads, MappedTrapframe(t)
    PROVE  MemoryInv'
<1>1. PICK c, r : c = loc[t].child /\ r = loc[t].root
  OBVIOUS
<1>2. /\ at[t] = "mapped" /\ at[t] \in Mapping /\ loc[t].va = TRAPFRAME /\ Alone(t)
      /\ loc[t] \in Locals /\ Shape(t) /\ loc[t].pa = trapframe[c]
      /\ c # "none" /\ c \in Procs /\ Makes(t)
  <2>1. at[t] = "mapped" /\ loc[t].va = TRAPFRAME /\ at[t] \in Mapping
    BY DEF MappedTrapframe, Runs, Mapping
  <2>2. Alone(t) /\ loc[t] \in Locals /\ c # "none" /\ Makes(t) /\ Shape(t)
    BY <1>1, <2>1, Parts, Who, Addresses
  <2>3. c \in Procs
    BY <1>1, <2>2 DEF Locals
  <2>4. loc[t].pa = trapframe[c]
    BY <1>1, <2>1, <2>2, Addresses DEF Makes
  <2> QED
    BY <2>1, <2>2, <2>3, <2>4
<1>3. /\ pagetable' = [pagetable EXCEPT ![c] = r] /\ GoOn(t, "forks", loc[t])
      /\ UNCHANGED pages /\ UNCHANGED <<state, trapframe, areas>>
  BY <1>1 DEF MappedTrapframe
<1>4. /\ Slot(c) /\ state[c] = "UNUSED" /\ at[c] = "gone" /\ c \in Threads /\ c # t
      /\ r # NULL /\ r \in Roots /\ r \in 0..NPages /\ trapframe[c] # NULL
      /\ \A p \in Procs : pagetable[p] # r
  <2>1. /\ Slot(c) /\ state[c] = "UNUSED" /\ r # NULL /\ trapframe[c] # NULL
        /\ \A p \in Procs : pagetable[p] # r
    BY <1>1, <1>2 DEF MemoryInv, Makes
  <2>3. at[c] = "gone" /\ c \in Threads /\ c # t
    BY <1>2, <2>1 DEF Slot, Threads
  <2>4. r \in Roots /\ r \in 0..NPages
    BY <1>1, <1>2, <2>1, Parts DEF Roots
  <2> QED
    BY <2>1, <2>3, <2>4
<1>5. /\ at' \in [Threads -> Labels] /\ loc' \in [Threads -> Locals]
      /\ at'[t] = "forks" /\ loc'[t] = loc[t]
      /\ \A u \in Threads : u # t => at'[u] = at[u] /\ loc'[u] = loc[u]
  <2>1. "forks" \in Labels
    BY DEF Labels
  <2>2. PICK l : l = loc[t]
    OBVIOUS
  <2> QED
    BY <1>2, <1>3, <2>1, <2>2, GoesTo
<1>6. /\ freelist' = freelist /\ mem' = mem /\ entry' = entry /\ state' = state
      /\ trapframe' = trapframe /\ areas' = areas
  BY <1>3 DEF pages
<1>7. EntryInv' /\ \A s \in Roots : Same(s)
  <2>1. EntryInv /\ EntryInv'
    BY <1>6 DEF MemoryInv, Types, EntryInv
  <2> QED
    BY <1>6, <2>1, Untouched
<1>9. /\ pagetable' \in [Procs -> 0..NPages] /\ pagetable'[c] = r
      /\ \A p \in Procs : p # c => pagetable'[p] = pagetable[p]
  BY <1>2, <1>3, <1>4 DEF MemoryInv, Types
<1>11. /\ \A u \in Threads : u # t => Shape(u)' /\ Task(u)' /\ Hand(u)' = Hand(u)
       /\ \A u \in Threads : Alone(u)'
       /\ \A p \in Procs : p # c => Slot(p)'
  <2>1. \A u \in Threads : u # t => loc'[u] = loc[u] /\ loc[u].child # c
    BY <1>1, <1>2, <1>5 DEF Alone
  <2>2. \A u \in Threads : u # t => \A q \in Hand(u) : mem'[q] = mem[q]
    BY <1>6
  <2>3. \A s \in Roots : \A va \in VAs :
            Walk(s, va)' = Walk(s, va) /\ Lookup(s, va)' = Lookup(s, va)
    BY <1>7 DEF Same
  <2>4. \A p \in Procs : p # c => /\ at'[p] = "gone" <=> at[p] = "gone"
                                  /\ state'[p] = state[p]
                                  /\ trapframe'[p] = trapframe[p]
                                  /\ pagetable'[p] = pagetable[p]
    <3>1. \A p \in Procs : p \in Threads
      BY DEF Threads
    <3>2. \A p \in Procs : p # c => (at'[p] = "gone" <=> at[p] = "gone")
      BY <1>2, <1>5, <3>1
    <3> QED
      BY <1>6, <1>9, <3>2
  <2>5. pagetable'[c] = loc[t].root /\ \A p \in Procs : pagetable'[c] # pagetable[p]
    BY <1>1, <1>4, <1>9
  <2>6. \A u \in Threads : u # t => at'[u] = at[u] \/ (u = c /\ at'[u] = "user")
    BY <1>5
  <2>7. loc'[t].child = c /\ loc[t].child = c /\ loc'[t].root = loc[t].root
    BY <1>1, <1>5
  <2> QED
    BY <1>2, <1>4, <2>1, <2>2, <2>3, <2>4, <2>5, <2>6, <2>7, Touching
<1>12. Roots' \subseteq Roots
  <2>1. \A u \in Threads : loc'[u] = loc[u]
    BY <1>5
  <2> QED
    BY <1>4, <1>9, <2>1 DEF Roots
<1>13. Shape(t)' /\ Task(t)' /\ Hand(t)' = Hand(t)
  <2>1. Shape(t)'
    BY <1>2, <1>5 DEF Shape, WithNew
  <2>2. Makes(t)'
    BY <1>1, <1>2, <1>4, <1>5, <1>6, <1>9 DEF Makes, Making, Mapping, Freeing
  <2>3. Task(t)'
    BY <1>1, <1>2, <1>5, <2>2 DEF Task
  <2>4. Hand(t)' = Hand(t)
    BY <1>1, <1>2, <1>5 DEF Hand
  <2> QED
    BY <2>1, <2>3, <2>4
<1>14. Trees' /\ Apart'
  <2>2. \A u \in Threads : Hand(u)' \subseteq Hand(u)
    BY <1>11, <1>13
  <2>4. Trees' /\ \A d \in Claims : d # Nobody => Has(d)' \subseteq Has(d)
    BY <1>6, <1>7, <1>12, <2>2, Passing
  <2> QED
    BY <2>4, NobodyIs, Kept DEF MemoryInv
<1>15. Ones' /\ Types'
  BY <1>5, <1>6, <1>7, <1>9 DEF MemoryInv, Ones, Types
<1>16. Slot(c)'
  <2>1. c \in Threads /\ at'[c] = "gone"
    BY <1>4, <1>5
  <2> QED
    BY <1>2, <1>4, <1>6, <1>9, <2>1 DEF Slot
<1> QED
  BY <1>11, <1>13, <1>14, <1>15, <1>16 DEF MemoryInv

\* The new process is there
LEMMA ForkStep ==
    ASSUME MemoryInv, NEW t \in Threads, Fork(t)
    PROVE  MemoryInv'
<1>1. PICK c, r, l, pg : /\ c = loc[t].child /\ r = loc[t].root /\ l = NoLocals
                         /\ pg = trapframe[loc[t].child]
  OBVIOUS
<1>2. /\ at[t] = "forks" /\ Alone(t)
      /\ c # "none" /\ c \in Procs /\ Makes(t)
  <2>1. at[t] = "forks" /\ Alone(t)
    BY DEF Fork, Runs, MemoryInv
  <2> QED
    BY <1>1, <2>1, AtForks
<1>3. /\ mem' = [mem EXCEPT ![pg] = c]
      /\ areas' = [areas EXCEPT ![c] = IF t = Boot THEN NoAreas ELSE areas[t]]
      /\ state' = [state EXCEPT ![c] = "RUNNABLE"]
      /\ at' = [at EXCEPT ![t] = IF t = Boot THEN "gone" ELSE "user", ![c] = "user"]
      /\ loc' = [loc EXCEPT ![t] = l] /\ UNCHANGED <<freelist, entry, trapframe, pagetable>>
  BY <1>1 DEF Fork
<1>4. /\ Slot(c) /\ state[c] = "UNUSED" /\ at[c] = "gone" /\ c \in Threads /\ c # t
      /\ pg # NULL /\ pg \in Pages /\ r # NULL /\ pagetable[c] = r
  <2>1. Slot(c) /\ state[c] = "UNUSED" /\ pg # NULL /\ r # NULL /\ pagetable[c] = r
    BY <1>1, <1>2 DEF MemoryInv, Makes
  <2>2. pg \in 0..NPages
    BY <1>1, <1>2 DEF MemoryInv, Types
  <2>3. at[c] = "gone" /\ c \in Threads /\ c # t
    BY <1>2, <2>1 DEF Slot, Threads
  <2> QED
    BY <2>1, <2>2, <2>3, Numbers
<1>5. /\ \A s \in Roots : pg \notin TablesOf(s)
      /\ \A u \in Threads : pg \notin Hand(u)
      /\ pg \notin ToSet(freelist)
  BY <1>1, <1>2, Pairs
<1>6. /\ EntryInv' /\ mem' \in [Pages -> Fills] /\ freelist' \in Seq(Pages)
      /\ \A q \in Pages : q # pg => mem'[q] = mem[q]
  <2>1. mem \in [Pages -> Fills] /\ EntryInv /\ c \in Fills /\ freelist \in Seq(Pages)
    BY <1>2 DEF MemoryInv, Types, Fills
  <2> QED
    BY <1>3, <2>1 DEF EntryInv
<1>7. \A s \in Roots : Same(s)
  <2>1. \A s \in Roots : \A q \in TablesOf(s) : entry'[q] = entry[q] /\ mem'[q] = mem[q]
    BY <1>3, <1>5, <1>6, Pairs
  <2> QED
    BY <1>6, <2>1, Untouched
<1>8. /\ at' \in [Threads -> Labels] /\ loc' \in [Threads -> Locals]
      /\ at'[t] = (IF t = Boot THEN "gone" ELSE "user") /\ at'[c] = "user" /\ loc'[t] = l
      /\ \A u \in Threads : u # t => loc'[u] = loc[u]
      /\ \A u \in Threads : u # t /\ u # c => at'[u] = at[u]
  <2>1. /\ at \in [Threads -> Labels] /\ loc \in [Threads -> Locals] /\ l \in Locals
        /\ "gone" \in Labels /\ "user" \in Labels
    BY <1>1, Parts DEF MemoryInv, Types, Labels
  <2> QED
    BY <1>3, <1>4, <2>1
<1>9. /\ state' \in [Procs -> {"UNUSED", "RUNNABLE", "ZOMBIE"}] /\ state'[c] = "RUNNABLE"
      /\ \A p \in Procs : p # c => state'[p] = state[p]
      /\ areas' \in [Procs -> Areas]
  <2>1. t # Boot => t \in Procs
    BY DEF Threads
  <2>2. NoAreas \in Areas
    BY NoAreasAre
  <2>3. (IF t = Boot THEN NoAreas ELSE areas[t]) \in Areas
    BY <2>1, <2>2 DEF MemoryInv, Types
  <2> QED
    BY <1>2, <1>3, <1>4, <2>3 DEF MemoryInv, Types
<1>10. l.child = "none" /\ l.root = NULL
  BY <1>1 DEF NoLocals
<1>11. /\ \A u \in Threads : u # t => Shape(u)' /\ Task(u)' /\ Hand(u)' = Hand(u)
       /\ \A u \in Threads : Alone(u)'
       /\ \A p \in Procs : p # c => Slot(p)'
  <2>1. \A u \in Threads : u # t => loc'[u] = loc[u] /\ loc[u].child # c
    BY <1>1, <1>2, <1>8 DEF Alone
  <2>2. \A u \in Threads : u # t => \A q \in Hand(u) : mem'[q] = mem[q]
    BY <1>5, <1>6, Pairs
  <2>3. \A s \in Roots : \A va \in VAs :
            Walk(s, va)' = Walk(s, va) /\ Lookup(s, va)' = Lookup(s, va)
    BY <1>7 DEF Same
  <2>4. \A p \in Procs : p # c => /\ at'[p] = "gone" <=> at[p] = "gone"
                                  /\ state'[p] = state[p]
                                  /\ trapframe'[p] = trapframe[p]
                                  /\ pagetable'[p] = pagetable[p]
    <3>1. \A p \in Procs : p \in Threads /\ p # Boot
      BY MemoryAssumption DEF Threads
    <3>2. \A p \in Procs : p # c => (at'[p] = "gone" <=> at[p] = "gone")
      BY <1>2, <1>8, <3>1
    <3> QED
      BY <1>3, <1>9, <3>2
  <2>5. /\ pagetable'[c] = pagetable[c]
        /\ \A p \in Procs : p # c /\ pagetable'[c] = pagetable[p] => pagetable'[c] = NULL
    BY <1>3, <1>4 DEF Slot
  <2>6. \A u \in Threads : u # t => at'[u] = at[u] \/ (u = c /\ at'[u] = "user")
    BY <1>8
  <2>7. loc'[t].child = "none" /\ loc[t].child = c /\ loc'[t].root = NULL
    BY <1>1, <1>8, <1>10
  <2> QED
    BY <1>2, <1>4, <2>1, <2>2, <2>3, <2>4, <2>5, <2>6, <2>7, Touching
<1>12. Roots' \subseteq Roots
  BY <1>3, <1>8, <1>10 DEF Roots
<1>13. Shape(t)' /\ Task(t)' /\ Hand(t)' = {}
  BY <1>1, <1>8, Idles
<1>14. Trees' /\ Apart'
  <2>2. \A u \in Threads : Hand(u)' \subseteq Hand(u)
    BY <1>11, <1>13
  <2>3. trapframe' = trapframe /\ freelist' = freelist
    BY <1>3
  <2>4. Trees' /\ \A d \in Claims : d # Nobody => Has(d)' \subseteq Has(d)
    BY <1>7, <1>12, <2>2, <2>3, Passing
  <2> QED
    BY <2>4, NobodyIs, Kept DEF MemoryInv
<1>15. Ones'
  <2>1. ToSet(freelist) \subseteq Pages
    BY DEF MemoryInv, Types, ToSet
  <2> QED
    BY <1>3, <1>5, <1>6, <2>1 DEF MemoryInv, Ones
<1>16. Slot(c)'
  BY <1>1, <1>2, <1>3, <1>4, <1>8, <1>9 DEF Slot
<1>17. Types'
  BY <1>3, <1>6, <1>8, <1>9 DEF MemoryInv, Types
<1> QED
  BY <1>11, <1>13, <1>14, <1>15, <1>16, <1>17 DEF MemoryInv

-----------------------------------------------------------------------------
(* Unmapping *)

\* vmunmap of areas of a process that runs
LEMMA ClearStep ==
    ASSUME MemoryInv, NEW p \in Procs, at[p] = "user", NEW V \in SUBSET UserVas,
           entry' = Cleared(pagetable[p], V), UNCHANGED <<freelist, mem, trapframe,
               pagetable, loc>>,
           areas' \in [Procs -> Areas],
           state' \in [Procs -> {"UNUSED", "RUNNABLE", "ZOMBIE"}],
           at' \in [Threads -> Labels], at'[p] \in {"user", "gone", "spins"},
           \A u \in Threads : u # p => at'[u] = at[u],
           \A q \in Procs : q # p => state'[q] = state[q],
           at'[p] # "gone" <=> state'[p] = "RUNNABLE", state'[p] # "UNUSED"
    PROVE  MemoryInv'
<1>1. PICK r : r = pagetable[p]
  OBVIOUS
<1>2. /\ freelist' = freelist /\ mem' = mem /\ trapframe' = trapframe /\ pagetable' = pagetable
      /\ loc' = loc /\ p \in Threads
  BY DEF Threads
<1>3. /\ Slot(p) /\ state[p] = "RUNNABLE" /\ r # NULL /\ trapframe[p] # NULL
      /\ r \in Roots /\ Good(r)
  <2>1. Slot(p)
    BY DEF MemoryInv
  <2>2. state[p] = "RUNNABLE" /\ r # NULL /\ trapframe[p] # NULL
    BY <1>1, <2>1 DEF Slot
  <2>3. r \in Roots
    BY <1>1, <2>2 DEF Roots
  <2> QED
    BY <2>1, <2>2, <2>3, Pairs
<1>4. EntryInv /\ V \in SUBSET VAs /\ entry' = Cleared(r, V)
  BY <1>1, Addresses DEF MemoryInv, Types
<1>5. /\ EntryInv' /\ Good(r)' /\ TablesOf(r)' = TablesOf(r)
      /\ \A vb \in VAs : /\ Walk(r, vb)' = Walk(r, vb)
                         /\ Lookup(r, vb)' = IF vb \in V THEN NULL ELSE Lookup(r, vb)
      /\ \A pg \in Pages : pg \notin TablesOf(r) => entry'[pg] = entry[pg]
  BY <1>2, <1>3, <1>4, ClearTree
<1>6. \A s \in Roots : s # r => Same(s)
  <2> SUFFICES ASSUME NEW s \in Roots, s # r PROVE Same(s)
    OBVIOUS
  <2>1. TablesOf(s) \cap TablesOf(r) = {} /\ TablesOf(s) \subseteq Pages /\ Good(s)
    BY <1>3, Pairs
  <2>2. \A pg \in TablesOf(s) : entry'[pg] = entry[pg] /\ mem'[pg] = mem[pg]
    BY <1>2, <1>5, <2>1
  <2> QED
    BY <1>4, <1>5, <2>1, <2>2, SameTables
<1>7. loc[p] = NoLocals /\ loc[p].child = "none" /\ loc[p].root = NULL
  BY <1>2, AtUser
<1>8. /\ \A u \in Threads : u # p => Shape(u)' /\ Task(u)' /\ Hand(u)' = Hand(u)
      /\ \A u \in Threads : Alone(u)'
      /\ \A q \in Procs : q # p => Slot(q)'
  <2>1. \A u \in Threads : u # p => loc'[u] = loc[u] /\ loc[u].child # p
    BY <1>2, <1>3, NobodysChild
  <2>2. \A u \in Threads : u # p => \A q \in Hand(u) : mem'[q] = mem[q]
    BY <1>2
  <2>3. \A s \in Roots : s # pagetable[p] => \A va \in VAs :
          Walk(s, va)' = Walk(s, va) /\ Lookup(s, va)' = Lookup(s, va)
    BY <1>1, <1>6 DEF Same
  <2>4. \A q \in Procs : q # p => /\ at'[q] = "gone" <=> at[q] = "gone"
                                  /\ state'[q] = state[q]
                                  /\ trapframe'[q] = trapframe[q]
                                  /\ pagetable'[q] = pagetable[q]
    BY <1>2 DEF Threads
  <2>5. pagetable'[p] = pagetable[p]
        /\ \A q \in Procs : q # p /\ pagetable'[p] = pagetable[q] => pagetable'[p] = NULL
    BY <1>2, <1>3 DEF Slot
  <2>7. loc'[p].child = "none" /\ loc[p].child = "none" /\ loc'[p].root = NULL
    BY <1>2, <1>7
  <2> QED
    BY <1>2, <2>1, <2>2, <2>3, <2>4, <2>5, <2>7, Touching
<1>9. Roots' = Roots
  BY <1>2 DEF Roots
<1>10. Shape(p)' /\ Task(p)' /\ Hand(p)' = {}
  BY <1>2, <1>7, Idles
<1>11. Trees'
  BY <1>5, <1>6, <1>9 DEF Trees, Same
<1>12. Apart'
  <2>1. \A s \in Roots' : s \in Pages =>
             /\ Nobody # TableOf(s) => s \in Roots /\ TablesOf(s)' \subseteq TablesOf(s)
             /\ \A vb \in UserVas : Nobody # FrameOf(s, vb) =>
                  Lookup(s, vb)' = NULL \/ (s \in Roots /\ Lookup(s, vb)' = Lookup(s, vb))
    <3> SUFFICES ASSUME NEW s \in Roots'
                 PROVE  /\ s \in Roots /\ TablesOf(s)' \subseteq TablesOf(s)
                        /\ \A vb \in UserVas :
                             \/ Lookup(s, vb)' = NULL
                             \/ s \in Roots /\ Lookup(s, vb)' = Lookup(s, vb)
      OBVIOUS
    <3>1. s \in Roots
      BY <1>9
    <3>2. CASE s = r
      BY <1>5, <3>1, <3>2, Addresses
    <3>3. CASE s # r
      BY <1>6, <3>1, <3>3, Addresses DEF Same
    <3> QED
      BY <3>2, <3>3
  <2>2. \A u \in Threads : Hand(u)' \subseteq Hand(u)
    BY <1>8, <1>10
  <2>3. \A c \in Claims : c # Nobody => Has(c)' \subseteq Has(c)
    BY <1>2, <2>1, <2>2, NoMore
  <2> QED
    BY <2>3, NobodyIs, Kept DEF MemoryInv
<1>13. Slot(p)'
  BY <1>1, <1>2, <1>3 DEF Slot
<1>14. Types' /\ Ones'
  BY <1>2, <1>5 DEF MemoryInv, Types, Ones
<1> QED
  BY <1>8, <1>10, <1>11, <1>12, <1>13, <1>14 DEF MemoryInv

\* What vmunmap gets at are pages of areas
LEMMA UnmapsIn == \A root, vs, inverted : Unmaps(root, vs, inverted) \in SUBSET UserVas
  BY DEF Unmaps

\* GoOn of a process that runs, which has no local variables
LEMMA Turns ==
    ASSUME MemoryInv, NEW p \in Procs, at[p] = "user", NEW label \in {"gone", "spins"},
           GoOn(p, label, NoLocals)
    PROVE  /\ at' \in [Threads -> Labels] /\ at'[p] = label /\ loc' = loc
           /\ \A u \in Threads : u # p => at'[u] = at[u]
<1>1. p \in Threads /\ label \in Labels
  BY DEF Threads, Labels
<1>2. loc[p] = NoLocals /\ NoLocals \in Locals
  BY <1>1, AtUser, Parts
<1>3. PICK l : l = NoLocals
  OBVIOUS
<1>4. loc' = [loc EXCEPT ![p] = l] /\ loc[p] = l /\ loc \in [Threads -> Locals]
  BY <1>2, <1>3 DEF GoOn, MemoryInv, Types
<1>5. loc' = loc
  BY <1>1, <1>4
<1> QED
  BY <1>1, <1>2, <1>5, GoesTo

\* exit unmaps the areas, or it panics on the way
LEMMA ExitStep ==
    ASSUME MemoryInv, NEW p \in Procs, Exit(p)
    PROVE  MemoryInv'
<1>1. PICK vs, inverted :
        /\ entry' = Cleared(pagetable[p], Unmaps(pagetable[p], vs, inverted))
        /\ \/ state' = [state EXCEPT ![p] = "ZOMBIE"] /\ GoOn(p, "gone", NoLocals)
           \/ GoOn(p, "spins", NoLocals) /\ UNCHANGED state
  BY DEF Exit
<1>2. PICK V : V = Unmaps(pagetable[p], vs, inverted)
  OBVIOUS
<1>3. V \in SUBSET UserVas
  BY <1>2, UnmapsIn
<1>4. /\ at[p] = "user" /\ entry' = Cleared(pagetable[p], V)
      /\ UNCHANGED <<freelist, mem, trapframe, pagetable, areas>>
  BY <1>1, <1>2 DEF Exit, Runs
<1>5. areas' \in [Procs -> Areas] /\ state \in [Procs -> {"UNUSED", "RUNNABLE", "ZOMBIE"}]
  BY <1>4 DEF MemoryInv, Types
<1>6. CASE state' = [state EXCEPT ![p] = "ZOMBIE"] /\ GoOn(p, "gone", NoLocals)
  <2>1. /\ at' \in [Threads -> Labels] /\ at'[p] = "gone" /\ loc' = loc
        /\ \A u \in Threads : u # p => at'[u] = at[u]
    BY <1>4, <1>6, Turns
  <2>2. /\ state' \in [Procs -> {"UNUSED", "RUNNABLE", "ZOMBIE"}] /\ state'[p] = "ZOMBIE"
        /\ \A q \in Procs : q # p => state'[q] = state[q]
    BY <1>5, <1>6
  <2> QED
    BY <1>3, <1>4, <1>5, <2>1, <2>2, ClearStep
<1>7. CASE GoOn(p, "spins", NoLocals) /\ UNCHANGED state
  <2>1. /\ at' \in [Threads -> Labels] /\ at'[p] = "spins" /\ loc' = loc
        /\ \A u \in Threads : u # p => at'[u] = at[u]
    BY <1>4, <1>7, Turns
  <2>2. /\ state' \in [Procs -> {"UNUSED", "RUNNABLE", "ZOMBIE"}] /\ state'[p] = "RUNNABLE"
        /\ \A q \in Procs : q # p => state'[q] = state[q]
    BY <1>4, <1>5, <1>7 DEF MemoryInv, Slot
  <2> QED
    BY <1>3, <1>4, <1>5, <2>1, <2>2, ClearStep
<1> QED
  BY <1>1, <1>6, <1>7

\* What munmap does to the tables and to the areas
LEMMA MunmapIs ==
    ASSUME MemoryInv, NEW p \in Procs, NEW addr, NEW sz \in Int, Munmap(p, addr, sz)
    PROVE  /\ at[p] = "user" /\ UNCHANGED <<freelist, mem, state, trapframe, pagetable, loc>>
           /\ \E V \in SUBSET UserVas : entry' = Cleared(pagetable[p], V)
           /\ areas' \in [Procs -> Areas]
           /\ at' \in [Threads -> Labels] /\ at'[p] \in {"user", "spins"}
           /\ \A u \in Threads : u # p => at'[u] = at[u]
<1>1. PICK vs : vs = VasOf(addr, sz)
  OBVIOUS
<1>2. PICK inverted \in Inverted, i \in First({i \in 1..NOMMAPFILE : addr \in Bytes(areas[p][i])}) :
        \/ addr % PGSIZE # 0 /\ GoOn(p, "spins", NoLocals) /\ UNCHANGED <<entry, areas>>
        \/ /\ entry' = Cleared(pagetable[p], Unmaps(pagetable[p], vs, inverted))
           /\ \/ GoOn(p, "spins", NoLocals) /\ UNCHANGED areas
              \/ /\ areas' = [areas EXCEPT ![p][i] =
                                IF areas[p][i].length - sz = 0 THEN NoArea
                                ELSE [@ EXCEPT !.length = areas[p][i].length - sz]]
                 /\ UNCHANGED <<at, loc, panicked>>
  BY <1>1 DEF Munmap
<1>3. at[p] = "user" /\ UNCHANGED <<freelist, mem, state, trapframe, pagetable>>
  BY DEF Munmap, Runs
<1>4. /\ areas \in [Procs -> Areas] /\ at \in [Threads -> Labels] /\ i \in 1..NOMMAPFILE
      /\ entry \in [Pages -> [Idx -> Entry]]
  BY <1>2 DEF MemoryInv, Types, First, EntryInv
<1>5. ASSUME areas' = [areas EXCEPT ![p][i] =
                         IF areas[p][i].length - sz = 0 THEN NoArea
                         ELSE [@ EXCEPT !.length = areas[p][i].length - sz]]
      PROVE  areas' \in [Procs -> Areas]
  <2>1. PICK a : a = IF areas[p][i].length - sz = 0 THEN NoArea
                     ELSE [areas[p][i] EXCEPT !.length = areas[p][i].length - sz]
    OBVIOUS
  <2>2. a \in [addr : Int, length : Int]
    <3>1. areas[p][i] \in [addr : Int, length : Int]
      BY <1>4 DEF Areas
    <3> QED
      BY <2>1, <3>1, NoAreasAre
  <2>3. areas' = [areas EXCEPT ![p] = [areas[p] EXCEPT ![i] = a]]
    BY <1>4, <1>5, <2>1
  <2> QED
    BY <1>4, <2>2, <2>3 DEF Areas
<1>6. areas' \in [Procs -> Areas]
  BY <1>2, <1>4, <1>5
<1>7. /\ at' \in [Threads -> Labels] /\ at'[p] \in {"user", "spins"} /\ loc' = loc
      /\ \A u \in Threads : u # p => at'[u] = at[u]
  <2>1. CASE GoOn(p, "spins", NoLocals)
    BY <1>3, <2>1, Turns
  <2>2. CASE UNCHANGED <<at, loc, panicked>>
    BY <1>3, <1>4, <2>2
  <2> QED
    BY <1>2, <2>1, <2>2
<1>8. \E V \in SUBSET UserVas : entry' = Cleared(pagetable[p], V)
  <2>1. CASE UNCHANGED entry
    <3>1. Cleared(pagetable[p], {}) = entry
      BY <1>4 DEF Cleared
    <3> QED
      BY <2>1, <3>1
  <2>2. CASE entry' = Cleared(pagetable[p], Unmaps(pagetable[p], vs, inverted))
    BY <2>2, UnmapsIn
  <2> QED
    BY <1>2, <2>1, <2>2
<1> QED
  BY <1>3, <1>6, <1>7, <1>8

\* munmap unmaps what lies in an area, or panics on the way
LEMMA MunmapStep ==
    ASSUME MemoryInv, NEW p \in Procs, NEW addr, NEW sz \in Int, Munmap(p, addr, sz)
    PROVE  MemoryInv'
<1>1. PICK V \in SUBSET UserVas : entry' = Cleared(pagetable[p], V)
  BY MunmapIs
<1>2. /\ at[p] = "user" /\ UNCHANGED <<freelist, mem, state, trapframe, pagetable, loc>>
      /\ areas' \in [Procs -> Areas]
      /\ at' \in [Threads -> Labels] /\ at'[p] \in {"user", "spins"}
      /\ \A u \in Threads : u # p => at'[u] = at[u]
  BY MunmapIs
<1>3. /\ state \in [Procs -> {"UNUSED", "RUNNABLE", "ZOMBIE"}] /\ state' = state
      /\ state[p] = "RUNNABLE"
  BY <1>2 DEF MemoryInv, Types, Slot
<1> QED
  BY <1>1, <1>2, <1>3, ClearStep

\* mmap only adds an area
LEMMA MmapStep ==
    ASSUME MemoryInv, NEW p \in Procs, NEW length \in Int, Mmap(p, length)
    PROVE  MemoryInv'
<1>1. PICK addr \in Int, i \in 1..NOMMAPFILE :
        areas' = [areas EXCEPT ![p][i] = [addr |-> addr, length |-> length]]
  <2> DEFINE vmasz == FoldFunction(+, 0, [i \in 1..NOMMAPFILE |-> areas[p][i].length])
             addr == PGROUNDDOWN(MAXVA - PGSIZE * Gap - vmasz - length)
  <2>1. addr \in Int
    BY DEF Mmap
  <2>2. \E i \in First({i \in 1..NOMMAPFILE : areas[p][i] = NoArea}) :
            areas' = [areas EXCEPT ![p][i] = [addr |-> addr, length |-> length]]
    BY DEF Mmap
  <2> HIDE DEF addr
  <2> QED
    BY <2>1, <2>2 DEF First
<1>2. areas' \in [Procs -> Areas]
  <2>1. areas \in [Procs -> Areas]
    BY DEF MemoryInv, Types
  <2>2. [addr |-> addr, length |-> length] \in [addr : Int, length : Int]
    BY <1>1
  <2> QED
    BY <1>1, <2>1, <2>2 DEF Areas
<1> QED
  BY <1>2, StaysButAreas DEF Mmap

-----------------------------------------------------------------------------
(* The theorems *)

\* At boot all pages are free
LEMMA InitInv == MemoryInit => MemoryInv
<1> SUFFICES ASSUME MemoryInit PROVE MemoryInv
  OBVIOUS
<1>1. Roots = {}
  BY DEF MemoryInit, NoLocals, Roots
<1>2. NoLocals \in Locals /\ NoLocals.todo = <<>> /\ NoLocals.new = NULL /\ NoLocals.pa = NULL
      /\ NoLocals.child = "none" /\ NoLocals.root = NULL
  BY NoneIs, Numbers DEF NoLocals, Locals
<1>3. freelist \in Seq(Pages) /\ IsInjective(freelist) /\ ToSet(freelist) \subseteq Pages
  <2>1. freelist = [i \in 1..NPages |-> NPages + 1 - i] /\ NPages \in Nat
    BY Numbers DEF MemoryInit
  <2>2. \A i \in 1..NPages : NPages + 1 - i \in 1..NPages
    BY <2>1
  <2>3. freelist \in [1..NPages -> Pages] /\ DOMAIN freelist = 1..NPages
    BY <2>1, <2>2 DEF Pages
  <2>4. freelist \in Seq(Pages)
    BY <2>1, <2>3
  <2>5. \A i, j \in DOMAIN freelist : freelist[i] = freelist[j] => i = j
    BY <2>1, <2>3
  <2> QED
    BY <2>3, <2>4, <2>5 DEF IsInjective, ToSet
<1>4. EntryInv
  <2>1. Zero \in Entry
    BY Numbers DEF Zero, Entry
  <2>2. ZeroTable \in [Idx -> Entry] /\ \A i \in Idx : ZeroTable[i] = Zero
    BY <2>1 DEF ZeroTable
  <2> QED
    BY <2>2 DEF MemoryInit, EntryInv
<1>5. Types
  <2>1. "user" \in Labels /\ "gone" \in Labels /\ NULL \in 0..NPages /\ "ones" \in Fills
    BY Numbers DEF Labels, Fills
  <2> QED
    BY <1>2, <1>3, <1>4, <2>1, NoAreasAre DEF MemoryInit, Types
<1>6. Ones
  BY <1>3 DEF MemoryInit, Ones
<1>7. Trees
  BY <1>1 DEF Trees
<1>8. \A t \in Threads : at[t] \in {"user", "gone", "spins"} /\ loc[t] = NoLocals /\ Hand(t) = {}
  <2>1. \A t \in Threads : at[t] \in {"user", "gone", "spins"} /\ loc[t] = NoLocals
    BY DEF MemoryInit
  <2> QED
    BY <1>2, <2>1, NoneIs DEF Hand
<1>9. \A t \in Threads : Shape(t) /\ Task(t) /\ Alone(t)
  <2>1. NULL \notin ToSet(<<>>) /\ IsInjective(<<>>)
    BY NoneIs
  <2> QED
    BY <1>2, <1>8, <2>1 DEF Shape, Task, Alone, WithNew
<1>10. \A p \in Procs : Slot(p)
  <2>1. \A p \in Procs : p \in Threads /\ p # Boot
    BY MemoryAssumption DEF Threads
  <2>2. \A p \in Procs : state[p] = "UNUSED" /\ pagetable[p] = NULL /\ at[p] = "gone"
    BY <2>1 DEF MemoryInit
  <2> QED
    BY <2>2 DEF Slot
<1>11. Apart
  <2>1. \A c \in Claims : c # FreeList => Has(c) = {}
    <3> SUFFICES ASSUME NEW c \in Claims, c # FreeList PROVE Has(c) = {}
      OBVIOUS
    <3>1. ASSUME NEW p \in Procs, c = TrapframeOf(p) PROVE Has(c) = {}
      <4>1. Has(TrapframeOf(p)) = {trapframe[p]} \ {NULL} /\ trapframe[p] = NULL
        BY HasNow DEF HasParts, MemoryInit
      <4> QED
        BY <3>1, <4>1
    <3>2. ASSUME NEW t \in Threads, c = HandOf(t) PROVE Has(c) = {}
      BY <1>8, <3>2, HasNow DEF HasParts
    <3>3. ASSUME NEW r \in Pages, c = TableOf(r) PROVE Has(c) = {}
      BY <1>1, <3>3, HasNow DEF HasParts
    <3>4. ASSUME NEW r \in Pages, NEW va \in UserVas, c = FrameOf(r, va) PROVE Has(c) = {}
      BY <1>1, <3>4, HasNow DEF HasParts
    <3> QED
      BY <3>1, <3>2, <3>3, <3>4, ClaimsAre
  <2> QED
    BY <2>1 DEF Apart
<1> QED
  BY <1>5, <1>6, <1>7, <1>9, <1>10, <1>11 DEF MemoryInv

\* Every step preserves the invariant
LEMMA NextStep == ~Overlap /\ MemoryInv /\ [MemoryNext]_memoryVars => MemoryInv'
<1> SUFFICES ASSUME ~Overlap, MemoryInv, [MemoryNext]_memoryVars PROVE MemoryInv'
  OBVIOUS
<1>1. CASE UNCHANGED memoryVars
  BY <1>1, Stays DEF memoryVars
<1>2. ASSUME NEW t \in Threads, Thread(t) PROVE MemoryInv'
  BY <1>2, AllocprocStep, FreeprocStep, KfreeStep, PushStep, LinkStep, MapPagesStep,
     TrapframeStep, UvmcreateStep, RootStep, MappedTrampolineStep, MappedTrapframeStep, ForkStep,
     UnmappedStep, FailedStep, FreeProcPagetableStep, ReapedStep DEF Thread
<1>3. ASSUME NEW p \in Procs, Process(p) PROVE MemoryInv'
  <2>1. p \in Threads
    BY DEF Threads
  <2> QED
    BY <1>3, <2>1, MemoryAssumption, ExitStep, FaultZeroesStep, FaultReadsStep, ExecveStep, ArgvStep, ArgStep,
       ExecveDoneStep, MmapStep, MunmapStep, FaultStep DEF Process
<1> QED
  BY <1>1, <1>2, <1>3 DEF MemoryNext

\* All of it holds in every reachable state.
THEOREM Invariance == ~Overlap => (MemorySpec => []MemoryInv)
<1> SUFFICES ASSUME ~Overlap PROVE MemorySpec => []MemoryInv
  OBVIOUS
<1>1. MemoryInv /\ [MemoryNext]_memoryVars => MemoryInv'
  BY NextStep
<1> QED
  BY <1>1, InitInv, PTL DEF MemorySpec

\* PagesApart is Apart, said of the sequences that the code has.
THEOREM InvImpliesPagesApart == MemoryInv => PagesApart
<1> SUFFICES ASSUME MemoryInv PROVE PagesApart
  OBVIOUS
<1> DEFINE tables == [r \in Roots |-> Tables(r)]
           frames == [u \in Roots \X UserVas |-> Lookup(u[1], u[2])]
           inTables == UNION {ToSet(tables[r]) : r \in Roots}
           inFrames == {frames[u] : u \in Roots \X UserVas}
           trapframes == {trapframe[p] : p \in Procs}
           free == ToSet(freelist)
<1>1. ASSUME NEW r \in Roots
      PROVE  tables[r] = Tables(r) /\ IsInjective(tables[r]) /\ ToSet(tables[r]) = TablesOf(r)
  <2>1. Tree(r) /\ EntryInv
    BY Pairs DEF Good, MemoryInv, Types
  <2> QED
    BY <2>1, TablesIs
<1>15. \A r \in Roots, va \in UserVas : frames[<<r, va>>] = Lookup(r, va)
  OBVIOUS
<1> HIDE DEF tables, frames
<1>2. IsInjective(freelist) /\ \A pg \in free : mem[pg] = "ones"
  BY DEF MemoryInv, Ones
<1>3. \A r \in Roots : IsInjective(tables[r])
  BY <1>1
<1>4. \A r, s \in Roots : r # s => ToSet(tables[r]) \cap ToSet(tables[s]) = {}
  BY <1>1, Pairs
<1>5. free \cap inTables = {}
  BY <1>1, Pairs
<1>6. \A p \in Procs : trapframe[p] \notin free
  BY Pairs
<1>7. ASSUME NEW t \in Threads
      PROVE  free \cap ({loc[t].new, loc[t].pa} \cup ToSet(loc[t].todo)) = {}
  <2>1. free \cap Hand(t) = {} /\ NULL \notin free /\ Trampoline \notin free
    BY Pairs, Numbers DEF MemoryInv, Types, ToSet
  <2>2. loc[t].new \notin free /\ free \cap ToSet(loc[t].todo) = {}
    BY <2>1 DEF Hand
  <2>3. loc[t].pa \notin free
    <3>1. CASE loc[t].child = "none" /\ at[t] # "mapped"
      BY <2>1, <3>1 DEF Hand
    <3>2. CASE loc[t].child = "none" /\ at[t] = "mapped"
      <4>1. Serves(t) /\ loc[t].root \in Roots /\ loc[t].va \in UserVas
        BY <3>2, Who, MapRoot DEF Mapping
      <4>2. Lookup(loc[t].root, loc[t].va) = loc[t].pa
        BY <3>2, <4>1 DEF Serves
      <4> QED
        BY <4>1, <4>2, Pairs
    <3>3. CASE loc[t].child # "none"
      <4>1. Task(t) /\ Shape(t) /\ loc[t] \in Locals
        BY Parts
      <4>2. at[t] \notin {"user", "gone", "spins"}
        BY <3>3, AtUser
      <4>3. loc[t].pa \in {NULL, Trampoline, trapframe[loc[t].child]} /\ loc[t].child \in Procs
        BY <3>3, <4>1, <4>2 DEF Task, Makes, Reaps, Locals
      <4> QED
        BY <2>1, <4>3, Pairs
    <3> QED
      BY <3>1, <3>2, <3>3
  <2> QED
    BY <2>2, <2>3
<1>8. free \cap (inTables \cup inFrames \cup trapframes \cup Held) = {}
  <2>1. free \cap inFrames = {}
    BY <1>15, Pairs
  <2> QED
    BY <1>5, <1>6, <1>7, <2>1 DEF Held
<1>9. \A u, w \in Roots \X UserVas : u # w /\ frames[u] = frames[w] => frames[u] = NULL
  BY <1>15, Pairs
<1>10. \A p, q \in Procs : p # q /\ trapframe[p] = trapframe[q] => trapframe[p] = NULL
  BY Pairs
<1>11. inTables \cap (inFrames \cup trapframes) = {} /\ inFrames \cap trapframes \subseteq {NULL}
  <2>1. inTables \cap inFrames = {}
    BY <1>1, <1>15, Pairs
  <2>2. inTables \cap trapframes = {}
    BY <1>1, Pairs
  <2>3. inFrames \cap trapframes \subseteq {NULL}
    BY <1>15, Pairs
  <2> QED
    BY <2>1, <2>2, <2>3
<1>12. \A t \in Threads : Taken(t) \subseteq Hand(t)
  BY DEF Taken, Hand
<1>13. ASSUME NEW t \in Threads
       PROVE  Taken(t) \cap (inTables \cup inFrames \cup trapframes) = {}
  <2>1. Hand(t) \cap inTables = {}
    BY <1>1, Pairs
  <2>2. Hand(t) \cap inFrames = {}
    BY <1>15, Pairs
  <2>3. Hand(t) \cap trapframes = {}
    BY Pairs
  <2> QED
    BY <1>12, <2>1, <2>2, <2>3
<1>14. \A t, u \in Threads : t # u => Taken(t) \cap Taken(u) = {}
  BY <1>12, Pairs
<1> HIDE DEF inTables, inFrames, trapframes, free
<1> QED
  BY <1>2, <1>3, <1>4, <1>8, <1>9, <1>10, <1>11, <1>13, <1>14
  DEF PagesApart, tables, frames, inTables, inFrames, trapframes, free

\* kalloc.cpp:37-68, vm.cpp:68-145: on every path through allocproc, fork, exit, wait, page
\* faults, munmap and execve a page is of the right shape for what it is used for.
THEOREM MemoryTypeCorrect == ~Overlap => (MemorySpec => []Types)
<1> SUFFICES ASSUME ~Overlap PROVE MemorySpec => []Types
  OBVIOUS
<1>2. MemorySpec => []MemoryInv
  BY Invariance
<1>1. MemoryInv => Types
  BY DEF MemoryInv
<1> QED
  BY <1>1, <1>2, PTL

\* kalloc.cpp:37-68, vm.cpp:68-87, 227-239: a page is on the free list once, or a table or
\* the frame at one address of one root, or the trapframe of one process, or taken by one
\* thread: never two.
THEOREM PagesStayApart == ~Overlap => (MemorySpec => []PagesApart)
<1> SUFFICES ASSUME ~Overlap PROVE MemorySpec => []PagesApart
  OBVIOUS
<1>1. MemorySpec => []MemoryInv
  BY Invariance
<1> QED
  BY <1>1, InvImpliesPagesApart, PTL

-----------------------------------------------------------------------------
(* What a process finds in its memory: the refinement of AddressSpaces *)

\* What the areas of a root show: pages that are zeroed or have what the file holds
FilledAt(r) ==
    \A va \in UserVas : Lookup(r, va) # NULL =>
        Lookup(r, va) \in Pages /\ mem[Lookup(r, va)] \in {"zeroes", "file"}

\* A process finds its registers and the trampoline
Equipped(p) ==
    state[p] = "RUNNABLE" =>
        /\ Lookup(pagetable[p], TRAPFRAME) = trapframe[p] /\ mem[trapframe[p]] = p
        /\ Lookup(pagetable[p], TRAMPOLINE) = Trampoline

\* What a thread has mapped so far
Laid(t) ==
    /\ at[t] = "fault" => Lookup(loc[t].root, loc[t].va) = NULL
    /\ at[t] \in Mapping /\ loc[t].child = "none" =>
         /\ mem[loc[t].pa] = "zeroes"
         /\ at[t] # "mapped" => Lookup(loc[t].root, loc[t].va) = NULL
    /\ at[t] \in Mapping \cup {"forks"} /\ loc[t].child # "none" =>
         /\ \A va \in UserVas : Lookup(loc[t].root, va) = NULL
         /\ at[t] \in {"mapped", "forks"} => Lookup(loc[t].root, loc[t].va) = loc[t].pa
         /\ loc[t].va = TRAPFRAME => Lookup(loc[t].root, TRAMPOLINE) = Trampoline

\* What is so between any two steps
ViewInv ==
    /\ \A r \in Roots : FilledAt(r)
    /\ \A p \in Procs : Equipped(p)
    /\ \A t \in Threads : Laid(t)

\* What a root has at an address
Shows(r, va) ==
    IF Lookup(r, va) = NULL THEN "none"
    ELSE IF Lookup(r, va) = Trampoline THEN "trampoline" ELSE mem[Lookup(r, va)]

\* What a process finds, in terms of its root
LEMMA SpaceNow == \A p \in Procs : \A r : r = pagetable[p] =>
    Space(p) = [va \in VAs |-> IF state[p] # "RUNNABLE" THEN "none" ELSE Shows(r, va)]
  BY DEF Space, Shows, VAs

\* ... and in the next state
LEMMA SpaceNext == (\A p \in Procs : \A r : r = pagetable[p] =>
    Space(p) = [va \in VAs |-> IF state[p] # "RUNNABLE" THEN "none" ELSE Shows(r, va)])'
  BY SpaceNow, PTL

\* Who has not changed a root's tables nor the pages of its areas
LEMMA FilledStays ==
    ASSUME NEW r, FilledAt(r), NEW X, \A pg \in Pages : pg \notin X => mem'[pg] = mem[pg],
           \A va \in UserVas : Lookup(r, va)' = Lookup(r, va) /\ Lookup(r, va) \notin X
    PROVE  FilledAt(r)'
  BY DEF FilledAt

\* A process that runs has a root, and its trapframe is a page
LEMMA Runs1 ==
    ASSUME MemoryInv, NEW p \in Procs, state[p] = "RUNNABLE"
    PROVE  /\ pagetable[p] # NULL /\ pagetable[p] \in Roots /\ pagetable[p] \in Pages
           /\ trapframe[p] # NULL /\ trapframe[p] \in Pages
           /\ trapframe[p] # Trampoline
<1>1. Slot(p)
  BY DEF MemoryInv
<1>2. pagetable[p] # NULL /\ trapframe[p] # NULL
  BY <1>1 DEF Slot
<1>3. trapframe[p] \in 0..NPages
  BY DEF MemoryInv, Types
<1>4. trapframe[p] \in Pages
  BY <1>2, <1>3, Numbers DEF Pages, NULL
<1>5. pagetable[p] \in Roots
  BY <1>2 DEF Roots
<1> QED
  BY <1>2, <1>4, <1>5, Pairs, Numbers

\* A process that runs on finds what it found
LEMMA EquippedStays ==
    ASSUME MemoryInv, ViewInv, NEW p \in Procs, state[p] = "RUNNABLE", NEW X,
           \A pg \in Pages : pg \notin X => mem'[pg] = mem[pg],
           state'[p] = state[p], pagetable'[p] = pagetable[p], trapframe'[p] = trapframe[p],
           \A va \in VAs : \A r : r = pagetable[p] => Lookup(r, va)' = Lookup(r, va),
           \A va \in UserVas : Lookup(pagetable[p], va) \notin X, trapframe[p] \notin X
    PROVE  Equipped(p)' /\ Space(p)' = Space(p)
<1>1. PICK r, x : r = pagetable[p] /\ x = trapframe[p]
  OBVIOUS
<1>2. r = pagetable'[p] /\ x = trapframe'[p] /\ state'[p] = "RUNNABLE"
  BY <1>1
<1>3. /\ Lookup(r, TRAPFRAME) = x /\ mem[x] = p /\ Lookup(r, TRAMPOLINE) = Trampoline
      /\ r \in Roots /\ x \in Pages /\ x # NULL /\ x # Trampoline
  BY <1>1, Runs1 DEF ViewInv, Equipped
<1>4. \A va \in VAs : Lookup(r, va)' = Lookup(r, va)
  BY <1>1
<1>5. mem'[x] = p /\ TRAPFRAME \in VAs /\ TRAMPOLINE \in VAs
  BY <1>1, <1>3 DEF VAs
<1>6. Equipped(p)'
  BY <1>2, <1>3, <1>4, <1>5 DEF Equipped
<1>7. ASSUME NEW va \in VAs PROVE Shows(r, va)' = Shows(r, va)
  <2>1. PICK pg : pg = Lookup(r, va) /\ pg = Lookup(r, va)'
    BY <1>4
  <2>2. pg # NULL /\ pg # Trampoline => pg \in Pages /\ mem'[pg] = mem[pg]
    <3>1. CASE va \in UserVas
      BY <1>1, <1>3, <2>1, <3>1 DEF ViewInv, FilledAt
    <3>2. CASE va = TRAPFRAME
      BY <1>3, <1>5, <2>1, <3>2
    <3>3. CASE va = TRAMPOLINE
      BY <1>3, <2>1, <3>3
    <3> QED
      BY <3>1, <3>2, <3>3 DEF VAs
  <2> QED
    BY <2>1, <2>2 DEF Shows
<1>8. /\ Space(p) = [va \in VAs |-> IF state[p] # "RUNNABLE" THEN "none" ELSE Shows(r, va)]
      /\ Space(p)' = [va \in VAs |-> IF state'[p] # "RUNNABLE" THEN "none"
                                     ELSE Shows(r, va)']
  BY <1>1, <1>2, SpaceNow, SpaceNext
<1>9. Space(p)' = Space(p)
  <2> HIDE DEF Space, Shows
  <2> QED
    BY <1>7, <1>8
<1> QED
  BY <1>6, <1>9

\* A thread that does not move has mapped what it had mapped
LEMMA LaidStays ==
    ASSUME NEW u \in Threads, Laid(u), at'[u] = at[u], loc'[u] = loc[u], NEW X,
           at[u] \in Mapping => loc[u].va \in VAs,
           at[u] \in {"fault", "forks"} => loc[u].va \in VAs,
           \A pg \in Pages : pg \notin X => mem'[pg] = mem[pg],
           at[u] \in Mapping /\ loc[u].child = "none" =>
               loc[u].pa \in Pages /\ loc[u].pa \notin X,
           \A r : r = loc[u].root /\ at[u] \in Mapping \cup {"fault", "forks"} =>
               \A va \in VAs : Lookup(r, va)' = Lookup(r, va)
    PROVE  Laid(u)'
<1>1. PICK r, v, x : r = loc[u].root /\ v = loc[u].va /\ x = loc[u].pa
  OBVIOUS
<1>2. r = loc'[u].root /\ v = loc'[u].va /\ x = loc'[u].pa /\ loc'[u].child = loc[u].child
  BY <1>1
<1>3. at[u] \in Mapping \cup {"fault", "forks"} =>
        v \in VAs /\ \A va \in VAs : Lookup(r, va)' = Lookup(r, va)
  BY <1>1
<1>4. at[u] \in Mapping /\ loc[u].child = "none" => mem'[x] = mem[x]
  BY <1>1
<1>5. UserVas \subseteq VAs /\ TRAMPOLINE \in VAs
  BY DEF VAs
<1> QED
  BY <1>1, <1>2, <1>3, <1>4, <1>5 DEF Laid

\* The same entries in the same tables lead to the same pages
LEMMA SameEntries ==
    ASSUME MemoryInv, mem' = mem, entry' = entry
    PROVE  \A r \in Roots : Same(r)
<1>1. EntryInv'
  BY DEF MemoryInv, Types, EntryInv
<1> QED
  BY <1>1, Untouched

\* What a thread has in hand is no trapframe, in no area and not what others map
LEMMA InHand ==
    ASSUME MemoryInv, NEW t \in Threads, NEW x \in Hand(t)
    PROVE  /\ \A p \in Procs : x # trapframe[p]
           /\ \A r \in Roots, va \in UserVas : Lookup(r, va) # x
           /\ \A u \in Threads : u # t /\ at[u] \in Mapping /\ loc[u].child = "none" =>
                                 loc[u].pa # x
<1>1. \A p \in Procs : x # trapframe[p]
  BY Pairs
<1>2. \A r \in Roots, va \in UserVas : Lookup(r, va) # x
  BY Pairs
<1>3. ASSUME NEW u \in Threads, u # t, at[u] \in Mapping, loc[u].child = "none"
      PROVE  loc[u].pa # x
  <2>1. loc[u].root \in Roots /\ loc[u].va \in UserVas /\ loc[u].pa \in Pages
    BY <1>3, MapRoot
  <2>2. CASE at[u] = "mapped"
    <3>1. Lookup(loc[u].root, loc[u].va) = loc[u].pa
      BY <1>3, <2>2, Who DEF Serves
    <3> QED
      BY <1>2, <2>1, <3>1
  <2>3. CASE at[u] # "mapped"
    <3>1. loc[u].pa \in Hand(u)
      BY <1>3, <2>1, <2>3, Numbers DEF Hand
    <3> QED
      BY <1>3, <3>1, Pairs
  <2> QED
    BY <2>2, <2>3
<1> QED
  BY <1>1, <1>2, <1>3

\* The addresses that a thread maps
LEMMA LaidAt ==
    ASSUME MemoryInv, NEW u \in Threads
    PROVE  /\ at[u] \in Mapping => loc[u].va \in VAs /\ loc[u].root \in Roots
           /\ at[u] \in Mapping /\ loc[u].child = "none" => loc[u].pa \in Pages
           /\ at[u] \in {"fault", "forks"} => loc[u].va \in VAs /\ loc[u].root \in Roots
<1>1. at[u] \in {"fault", "forks"} => loc[u].va \in VAs /\ loc[u].root \in Roots
  <2>1. ASSUME at[u] = "fault" PROVE loc[u].va \in VAs /\ loc[u].root \in Roots
    <3>1. Serves(u) /\ pagetable[u] # NULL
      BY <2>1, Who
    <3>2. u \in Procs /\ loc[u].root = pagetable[u] /\ loc[u].va \in UserVas
      BY <2>1, <3>1 DEF Serves
    <3> QED
      BY <3>1, <3>2 DEF VAs, Roots
  <2>2. ASSUME at[u] = "forks" PROVE loc[u].va \in VAs /\ loc[u].root \in Roots
    BY <2>2, AtForks, Addresses DEF Makes, Roots
  <2> QED
    BY <2>1, <2>2
<1> QED
  BY <1>1, MapRoot

\* What every address of the roots in use is mapped to stays
SameLooks == \A r \in Roots : \A va \in VAs : Lookup(r, va)' = Lookup(r, va)

\* Nobody finds anything else in memory
Still == \A p \in Procs : Space(p)' = Space(p)

\* A step that fills no pages but those in hand, and leaves all tables in use alone
LEMMA Quiet ==
    ASSUME MemoryInv, ViewInv, NEW t \in Threads, NEW X, X \subseteq Hand(t),
           \A pg \in Pages : pg \notin X => mem'[pg] = mem[pg],
           SameLooks,
           \A r \in Roots' : r \notin Roots => \A va \in UserVas : Lookup(r, va)' = NULL,
           \A u \in Threads : u # t => at'[u] = at[u] /\ loc'[u] = loc[u],
           \A p \in Procs : \/ state'[p] = state[p]
                            \/ {state[p], state'[p]} \subseteq {"UNUSED", "ZOMBIE"},
           \A p \in Procs : state[p] = "RUNNABLE" =>
               pagetable'[p] = pagetable[p] /\ trapframe'[p] = trapframe[p],
           Laid(t)'
    PROVE  ViewInv' /\ Still
<1>1. \A r \in Roots : \A va \in VAs : Lookup(r, va)' = Lookup(r, va)
  BY DEF SameLooks
<1>2. ASSUME NEW r \in Roots' PROVE FilledAt(r)'
  <2>1. CASE r \in Roots
    <3>1. FilledAt(r) /\ \A va \in UserVas : va \in VAs
      BY <2>1 DEF ViewInv, VAs
    <3>2. \A va \in UserVas : Lookup(r, va)' = Lookup(r, va) /\ Lookup(r, va) \notin X
      BY <1>1, <2>1, <3>1, InHand
    <3> QED
      BY <3>1, <3>2, FilledStays
  <2>2. CASE r \notin Roots
    BY <2>2 DEF FilledAt
  <2> QED
    BY <2>1, <2>2
<1>3. ASSUME NEW p \in Procs PROVE Equipped(p)' /\ Space(p)' = Space(p)
  <2>1. CASE state[p] = "RUNNABLE"
    <3>1. state'[p] = state[p] /\ pagetable'[p] = pagetable[p] /\ trapframe'[p] = trapframe[p]
      BY <2>1
    <3>2. pagetable[p] \in Roots
      BY <2>1, Runs1
    <3>3. \A va \in VAs : \A r : r = pagetable[p] => Lookup(r, va)' = Lookup(r, va)
      BY <1>1, <3>2
    <3>4. (\A va \in UserVas : Lookup(pagetable[p], va) \notin X) /\ trapframe[p] \notin X
      BY <3>2, InHand
    <3> QED
      BY <2>1, <3>1, <3>3, <3>4, EquippedStays
  <2>2. CASE state[p] # "RUNNABLE"
    BY <2>2 DEF Equipped, Space
  <2> QED
    BY <2>1, <2>2
<1>4. ASSUME NEW u \in Threads, u # t PROVE Laid(u)'
  <2>1. Laid(u) /\ at'[u] = at[u] /\ loc'[u] = loc[u]
    BY <1>4 DEF ViewInv
  <2>2. at[u] \in Mapping /\ loc[u].child = "none" => loc[u].pa \notin X
    BY <1>4, InHand
  <2>3. \A r : r = loc[u].root /\ at[u] \in Mapping \cup {"fault", "forks"} =>
          \A va \in VAs : Lookup(r, va)' = Lookup(r, va)
    BY <1>1, LaidAt
  <2> QED
    BY <2>1, <2>2, <2>3, LaidAt, LaidStays
<1>5. \A u \in Threads : Laid(u)'
  BY <1>4
<1> QED
  BY <1>2, <1>3, <1>5 DEF ViewInv, Still

\* ... by who goes on in the kernel
LEMMA QuietStep ==
    ASSUME MemoryInv, ViewInv, NEW t \in Threads, NEW label, NEW l,
           GoOn(t, label, l), UNCHANGED procs, NEW X, X \subseteq Hand(t),
           \A pg \in Pages : pg \notin X => mem'[pg] = mem[pg],
           SameLooks, l.root \in Roots \cup {NULL},
           label \in Mapping \cup {"fault", "forks"} /\ at'[t] = label /\ loc'[t] = l => Laid(t)'
    PROVE  ViewInv' /\ Still
<1>1. /\ at'[t] = label /\ loc'[t] = l
      /\ \A u \in Threads : u # t => at'[u] = at[u] /\ loc'[u] = loc[u]
  BY DEF GoOn, MemoryInv, Types
<1>2. Laid(t)'
  <2>1. CASE label \in Mapping \cup {"fault", "forks"}
    BY <1>1, <2>1
  <2>2. CASE label \notin Mapping \cup {"fault", "forks"}
    BY <1>1, <2>2 DEF Laid
  <2> QED
    BY <2>1, <2>2
<1>3. \A u \in Threads : loc'[u].root \in Roots \cup {NULL}
  BY <1>1 DEF Roots
<1>4. state' = state /\ trapframe' = trapframe /\ pagetable' = pagetable
  BY DEF procs
<1>5. Roots' \subseteq Roots
  <2> SUFFICES ASSUME NEW r \in Roots' PROVE r \in Roots
    OBVIOUS
  <2>1. /\ r # NULL
        /\ (\E p \in Procs : r = pagetable'[p]) \/ (\E u \in Threads : r = loc'[u].root)
    BY DEF Roots
  <2> QED
    BY <1>3, <1>4, <2>1 DEF Roots
<1> QED
  BY <1>1, <1>2, <1>4, <1>5, Quiet

\* ... and leaves all pages alone
LEMMA QuietIdle ==
    ASSUME MemoryInv, ViewInv, NEW t \in Threads, NEW label, NEW l,
           GoOn(t, label, l), UNCHANGED procs, mem' = mem, entry' = entry,
           l.root \in Roots \cup {NULL},
           label \in Mapping \cup {"fault", "forks"} /\ at'[t] = label /\ loc'[t] = l
             /\ SameLooks => Laid(t)'
    PROVE  ViewInv' /\ Still
<1>1. SameLooks
  BY SameEntries DEF SameLooks, Same
<1>2. {} \subseteq Hand(t) /\ \A pg \in Pages : pg \notin {} => mem'[pg] = mem[pg]
  OBVIOUS
<1> QED
  BY <1>1, <1>2, QuietStep

\* Nobody goes on, and no page changes
LEMMA NobodyGoes ==
    ASSUME MemoryInv, ViewInv, UNCHANGED <<pages, state, trapframe, pagetable, at, loc>>
    PROVE  ViewInv' /\ Still
<1>1. /\ mem' = mem /\ entry' = entry /\ state' = state /\ trapframe' = trapframe
      /\ pagetable' = pagetable /\ at' = at /\ loc' = loc
  BY DEF pages
<1>2. SameLooks
  BY <1>1, SameEntries DEF SameLooks, Same
<1>3. Boot \in Threads /\ Laid(Boot)
  BY DEF Threads, ViewInv
<1>4. {} \subseteq Hand(Boot) /\ \A pg \in Pages : pg \notin {} => mem'[pg] = mem[pg]
  BY <1>1
<1>5. ASSUME NEW r, r = loc[Boot].root /\ at[Boot] \in Mapping \cup {"fault", "forks"}
      PROVE  \A va \in VAs : Lookup(r, va)' = Lookup(r, va)
  <2>1. r \in Roots
    BY <1>3, <1>5, LaidAt
  <2> QED
    BY <1>2, <2>1 DEF SameLooks
<1>6. at'[Boot] = at[Boot] /\ loc'[Boot] = loc[Boot]
  BY <1>1
<1>7. Laid(Boot)'
  <2>1. PICK X : X = {}
    OBVIOUS
  <2>2. \A pg \in Pages : pg \notin X => mem'[pg] = mem[pg]
    BY <1>1
  <2>3. at[Boot] \in Mapping /\ loc[Boot].child = "none" =>
            loc[Boot].pa \in Pages /\ loc[Boot].pa \notin X
    BY <1>3, <2>1, LaidAt
  <2>4. /\ at[Boot] \in Mapping => loc[Boot].va \in VAs
        /\ at[Boot] \in {"fault", "forks"} => loc[Boot].va \in VAs
    BY <1>3, LaidAt
  <2>5. \A r : r = loc[Boot].root /\ at[Boot] \in Mapping \cup {"fault", "forks"} =>
            \A va \in VAs : Lookup(r, va)' = Lookup(r, va)
    BY <1>5
  <2> QED
    BY <1>3, <1>6, <2>2, <2>3, <2>4, <2>5, LaidStays
<1>8. Roots' = Roots
  BY <1>1 DEF Roots
<1> QED
  BY <1>1, <1>2, <1>3, <1>4, <1>7, <1>8, Quiet

\* A thread that panics changes no page table
LEMMA PanicView ==
    ASSUME MemoryInv, ViewInv, NEW why, Panic(why)
    PROVE  ViewInv' /\ Still
  BY NobodyGoes DEF Panic, procs

\* The root a thread works on
LEMMA RootOf == ASSUME NEW t \in Threads PROVE loc[t].root \in Roots \cup {NULL}
  BY DEF Roots

\* The page that kfree fills was in the thread's hand ...
LEMMA KfreeView ==
    ASSUME MemoryInv, ViewInv, NEW t \in Threads, Kfree(t)
    PROVE  ViewInv' /\ Still
<1>1. UNCHANGED procs /\ at[t] = "kfree"
  BY DEF Kfree, Runs
<1>2. CASE loc[t].todo = <<>>
  <2>1. GoOn(t, "kfreed", loc[t]) /\ UNCHANGED pages
    BY <1>2 DEF Kfree
  <2>2. mem' = mem /\ entry' = entry /\ "kfreed" \notin Mapping \cup {"fault", "forks"}
    BY <2>1 DEF pages, Mapping
  <2> QED
    BY <1>1, <2>1, <2>2, RootOf, QuietIdle
<1>3. CASE loc[t].todo # <<>>
  <2>1. PICK x : x = Head(loc[t].todo)
    OBVIOUS
  <2>2. Fill(x, "ones") /\ GoOn(t, "push", loc[t])
    BY <1>3, <2>1 DEF Kfree
  <2>3. x \in Hand(t) /\ x \in Pages
    BY <1>1, <1>3, <2>1, HeadIs
  <2>4. SameLooks /\ \A pg \in Pages : pg \notin {x} => mem'[pg] = mem[pg]
    BY <2>2, <2>3, Pairs, Filling DEF SameLooks, Same
  <2>5. "push" \notin Mapping \cup {"fault", "forks"} /\ {x} \subseteq Hand(t)
    BY <2>3 DEF Mapping
  <2> QED
    BY <1>1, <2>2, <2>4, <2>5, RootOf, QuietStep
<1> QED
  BY <1>2, <1>3

\* ... and no table changes when it goes on the free list
LEMMA PushView ==
    ASSUME MemoryInv, ViewInv, NEW t \in Threads, Push(t)
    PROVE  ViewInv' /\ Still
<1>1. PICK l : l = [loc[t] EXCEPT !.todo = Tail(@)]
  OBVIOUS
<1>2. UNCHANGED procs /\ mem' = mem /\ entry' = entry /\ GoOn(t, "kfree", l)
  BY <1>1 DEF Push
<1>3. l.root = loc[t].root /\ "kfree" \notin Mapping \cup {"fault", "forks"}
  BY <1>1, Parts DEF Mapping, Locals
<1> QED
  BY <1>2, <1>3, RootOf, QuietIdle

\* What a thread has mapped stays so while it goes on with the same page
LEMMA LaidOn ==
    ASSUME MemoryInv, ViewInv, NEW t \in Threads, at[t] \in Mapping \ {"mapped"},
           at'[t] \in Mapping \ {"mapped"}, NEW new, loc'[t] = [loc[t] EXCEPT !.new = new],
           NEW x, loc[t].pa # x, \A pg \in Pages : pg # x => mem'[pg] = mem[pg],
           SameLooks
    PROVE  Laid(t)'
<1>1. PICK r, v, pa : r = loc[t].root /\ v = loc[t].va /\ pa = loc[t].pa
  OBVIOUS
<1>2. /\ r = loc'[t].root /\ v = loc'[t].va /\ pa = loc'[t].pa
      /\ loc'[t].child = loc[t].child
  BY <1>1, Parts DEF Locals
<1>3. \A va \in VAs : Lookup(r, va)' = Lookup(r, va)
  BY <1>1, LaidAt DEF SameLooks
<1>4. v \in VAs /\ (loc[t].child = "none" => pa \in Pages)
  BY <1>1, LaidAt
<1>5. UserVas \subseteq VAs /\ TRAMPOLINE \in VAs /\ Laid(t)
  BY DEF VAs, ViewInv
<1>6. loc[t].child = "none" => mem'[pa] = mem[pa]
  BY <1>1, <1>4
<1>7. at'[t] # "fault" /\ at'[t] # "mapped" /\ at'[t] # "forks"
  BY DEF Mapping
<1> QED
  BY <1>1, <1>2, <1>3, <1>4, <1>5, <1>6, <1>7 DEF Laid

\* What walk changes when it links the new table
LEMMA LinkIs ==
    ASSUME MemoryInv, NEW t \in Threads, Link(t),
           NEW r, r = loc[t].root, NEW x, x = loc[t].new
    PROVE  /\ x \in Hand(t) /\ x \in Pages /\ x # loc[t].pa
           /\ EntryInv' /\ Good(r)' /\ TablesOf(r)' = TablesOf(r) \cup {x}
           /\ \A va \in VAs : Lookup(r, va)' = Lookup(r, va)
           /\ \A pg \in Pages : pg # x => mem'[pg] = mem[pg]
           /\ \A pg \in Pages : pg # x /\ pg \notin TablesOf(r) => entry'[pg] = entry[pg]
           /\ \A s \in Roots : s # r => Same(s)
<1>1. PICK va, l : va = loc[t].va /\ l = [loc[t] EXCEPT !.new = NULL]
  OBVIOUS
<1>2. /\ at[t] = "link" /\ at[t] \in Mapping /\ r \in Roots /\ Good(r) /\ va \in VAs
      /\ r # NULL
      /\ Shape(t) /\ Task(t) /\ loc[t] \in Locals
  <2>1. at[t] = "link" /\ at[t] \in Mapping
    BY DEF Link, Runs, Mapping
  <2> QED
    BY <1>1, <2>1, MapRoot, Parts
<1>3. x # NULL /\ x # loc[t].pa /\ x \in Pages /\ x \in Hand(t)
  <2>1. x # NULL /\ x # loc[t].pa
    BY <1>1, <1>2 DEF Shape, WithNew
  <2>2. x \in Hand(t)
    BY <1>1, <2>1 DEF Hand
  <2> QED
    BY <2>1, <2>2, Pairs
<1>4. EntryInv /\ freelist' = freelist /\ UNCHANGED procs /\ DOMAIN mem = Pages
      /\ GoOn(t, "map", l) /\ mem' = [mem EXCEPT ![x] = "zeroes"]
  BY <1>1 DEF MemoryInv, Types, Link
<1>5. PICK up, i :
        /\ up = Walk(r, va).table /\ i = PX(Walk(r, va).level, va)
        /\ entry' = [entry EXCEPT ![x] = ZeroTable, ![up][i] = [to |-> x, leaf |-> FALSE]]
  BY <1>1 DEF Link
<1>6. Walk(r, va).level > 0
  BY <1>1, <1>2 DEF Task
<1>7. \A s \in Roots : x \notin TablesOf(s)
  BY <1>3, Pairs
<1>8. /\ EntryInv' /\ Good(r)' /\ TablesOf(r)' = TablesOf(r) \cup {x}
      /\ \A vb \in VAs : Lookup(r, vb)' = Lookup(r, vb)
      /\ \A pg \in Pages : pg # x => mem'[pg] = mem[pg]
      /\ \A pg \in Pages : pg # x /\ pg \notin TablesOf(r) => entry'[pg] = entry[pg]
  <2>1. x \notin TablesOf(r) /\ DOMAIN mem = Pages /\ EntryInv
    BY <1>2, <1>4, <1>7
  <2>2. Linked(x, up, i)
    BY <1>4, <1>5 DEF Linked
  <2>3. Good(r) /\ va \in VAs /\ x \in Pages
    BY <1>2, <1>3
  <2>4. up = Walk(r, va).table /\ i = PX(Walk(r, va).level, va) /\ Walk(r, va).level > 0
    BY <1>5, <1>6
  <2> QED
    BY <2>1, <2>2, <2>3, <2>4, LinkTree
<1>9. \A s \in Roots : s # r => Same(s)
  <2> SUFFICES ASSUME NEW s \in Roots, s # r PROVE Same(s)
    OBVIOUS
  <2>1. TablesOf(s) \cap TablesOf(r) = {} /\ TablesOf(s) \subseteq Pages /\ Good(s)
    BY <1>2, Pairs
  <2>2. \A pg \in TablesOf(s) : entry'[pg] = entry[pg] /\ mem'[pg] = mem[pg]
    BY <1>7, <1>8, <2>1
  <2> QED
    BY <1>4, <1>8, <2>1, <2>2, SameTables
<1> QED
  BY <1>3, <1>8, <1>9

\* A new table, with nothing in it, is linked
LEMMA LinkView ==
    ASSUME MemoryInv, ViewInv, NEW t \in Threads, Link(t)
    PROVE  ViewInv' /\ Still
<1>1. PICK x, r, l : x = loc[t].new /\ r = loc[t].root /\ l = [loc[t] EXCEPT !.new = NULL]
  OBVIOUS
<1>2. /\ at[t] = "link" /\ GoOn(t, "map", l) /\ UNCHANGED procs
      /\ {"link", "map"} \subseteq Mapping
      /\ \A pg \in Pages : pg # x => mem'[pg] = mem[pg]
  BY <1>1 DEF Link, Runs, Mapping, MemoryInv, Types
<1>3. x \in Hand(t) /\ x \in Pages /\ x # loc[t].pa
  <2>1. x # NULL /\ x # loc[t].pa
    BY <1>1, <1>2, Parts DEF Shape, WithNew
  <2>2. x \in Hand(t)
    BY <1>1, <2>1 DEF Hand
  <2> QED
    BY <2>1, <2>2, Pairs
<1>4. SameLooks
  <2>1. (\A va \in VAs : Lookup(r, va)' = Lookup(r, va)) /\ \A s \in Roots : s # r => Same(s)
    BY <1>1, LinkIs
  <2> QED
    BY <2>1 DEF Same, SameLooks
<1>5. ASSUME at'[t] = "map", loc'[t] = l PROVE Laid(t)'
  <2>1. at[t] \in Mapping \ {"mapped"} /\ at'[t] \in Mapping \ {"mapped"}
    BY <1>2, <1>5
  <2> QED
    BY <1>1, <1>2, <1>3, <1>4, <1>5, <2>1, LaidOn
<1>6. l.root \in Roots \cup {NULL}
  BY <1>1, Parts, RootOf DEF Locals
<1> QED
  BY <1>2, <1>3, <1>4, <1>5, <1>6, QuietStep

\* Who goes on with something else than a mapping, and leaves all pages alone
LEMMA TurnView ==
    ASSUME MemoryInv, ViewInv, NEW t \in Threads, NEW label, NEW l,
           GoOn(t, label, l), UNCHANGED procs, mem' = mem, entry' = entry,
           label \notin Mapping \cup {"fault", "forks"}, l.root \in Roots \cup {NULL}
    PROVE  ViewInv' /\ Still
  BY QuietIdle

\* Somebody in user mode has a root
LEMMA UserRoot ==
    ASSUME MemoryInv, NEW p \in Procs, at[p] = "user"
    PROVE  state[p] = "RUNNABLE" /\ pagetable[p] \in Roots
<1>1. state[p] = "RUNNABLE"
  BY DEF MemoryInv, Slot
<1> QED
  BY <1>1, Runs1

\* allocproc only claims the slot
LEMMA AllocprocView ==
    ASSUME MemoryInv, ViewInv, NEW t \in Threads, NEW p \in Procs, Allocproc(t, p)
    PROVE  ViewInv' /\ Still
<1>0. PICK swapped \in Swapped :
        GoOn(t, "trapframe", [NoLocals EXCEPT !.child = p, !.new = Head(freelist),
                                              !.swapped = swapped])
  BY DEF Allocproc
<1>15. PICK l : l = [NoLocals EXCEPT !.child = p, !.new = Head(freelist), !.swapped = swapped]
  OBVIOUS
<1>1. GoOn(t, "trapframe", l) /\ l.root = NULL
  BY <1>0, <1>15 DEF NoLocals
<1>2. UNCHANGED procs /\ mem' = mem /\ entry' = entry
  BY DEF Allocproc
<1>3. "trapframe" \notin Mapping \cup {"fault", "forks"}
  BY DEF Mapping
<1> QED
  BY <1>1, <1>2, <1>3, TurnView

\* A page is taken for a root
LEMMA UvmcreateView ==
    ASSUME MemoryInv, ViewInv, NEW t \in Threads, Uvmcreate(t)
    PROVE  ViewInv' /\ Still
<1>1. /\ UNCHANGED procs
      /\ "nopage" \notin Mapping \cup {"fault", "forks"} /\ "root" \notin Mapping \cup {"fault", "forks"}
  BY DEF Uvmcreate, Mapping
<1>2. CASE Full
  <2>1. GoOn(t, "nopage", loc[t]) /\ mem' = mem /\ entry' = entry
    BY <1>2 DEF Uvmcreate, pages
  <2> QED
    BY <1>1, <2>1, RootOf, TurnView
<1>3. CASE ~Full
  <2>1. PICK l : l = [loc[t] EXCEPT !.new = Head(freelist)]
    OBVIOUS
  <2>2. GoOn(t, "root", l) /\ mem' = mem /\ entry' = entry
    BY <1>3, <2>1 DEF Uvmcreate, Take
  <2>3. l.root = loc[t].root
    BY <2>1, Parts DEF Locals
  <2> QED
    BY <1>1, <2>2, <2>3, RootOf, TurnView
<1> QED
  BY <1>2, <1>3

\* The tables of a root that maps nothing are to be freed
LEMMA UnmappedView ==
    ASSUME MemoryInv, ViewInv, NEW t \in Threads, Unmapped(t)
    PROVE  ViewInv' /\ Still
<1>1. PICK l : l = [loc[t] EXCEPT !.todo = Tables(loc[t].root), !.root = NULL]
  OBVIOUS
<1>2. GoOn(t, "kfree", l) /\ UNCHANGED procs /\ mem' = mem /\ entry' = entry
  BY <1>1 DEF Unmapped, pages
<1>3. l.root = NULL /\ "kfree" \notin Mapping \cup {"fault", "forks"}
  BY <1>1, Parts DEF Locals, Mapping
<1> QED
  BY <1>2, <1>3, TurnView

LEMMA ReturnView ==
    ASSUME MemoryInv, ViewInv, NEW t \in Threads, ToUser(t), UNCHANGED <<pages, procs>>
    PROVE  ViewInv' /\ Still
<1>1. GoOn(t, "user", NoLocals) /\ UNCHANGED procs /\ mem' = mem /\ entry' = entry
  BY DEF ToUser, pages
<1>2. NoLocals.root = NULL /\ "user" \notin Mapping \cup {"fault", "forks"}
  BY DEF NoLocals, Mapping
<1> QED
  BY <1>1, <1>2, TurnView

LEMMA FailedView ==
    ASSUME MemoryInv, ViewInv, NEW t \in Threads, Failed(t)
    PROVE  ViewInv' /\ Still
  BY PanicView, ReturnView DEF Failed

LEMMA ExecveDoneView ==
    ASSUME MemoryInv, ViewInv, NEW t \in Threads, ExecveDone(t)
    PROVE  ViewInv' /\ Still
  BY ReturnView DEF ExecveDone

\* execve's pages for its arguments and environment are in nobody's memory
LEMMA ExecveView ==
    ASSUME MemoryInv, ViewInv, NEW p \in Procs, Execve(p)
    PROVE  ViewInv' /\ Still
<1>1. PICK l : l = [NoLocals EXCEPT !.root = pagetable[p]]
  OBVIOUS
<1>2. GoOn(p, "argv", l) /\ UNCHANGED procs /\ mem' = mem /\ entry' = entry /\ at[p] = "user"
  BY <1>1 DEF Execve, pages, Runs
<1>3. l.root \in Roots /\ "argv" \notin Mapping \cup {"fault", "forks"} /\ p \in Threads
  BY <1>1, <1>2, UserRoot DEF NoLocals, Mapping, Threads
<1> QED
  BY <1>2, <1>3, TurnView

LEMMA ArgvView ==
    ASSUME MemoryInv, ViewInv, NEW p \in Threads, Argv(p)
    PROVE  ViewInv' /\ Still
<1>1. CASE Panic("undefined")
  BY <1>1, PanicView
<1>2. "kfree" \notin Mapping \cup {"fault", "forks"} /\ "arg" \notin Mapping \cup {"fault", "forks"}
  BY DEF Mapping
<1>3. CASE GoOn(p, "kfree", loc[p]) /\ UNCHANGED pages /\ UNCHANGED procs
  BY <1>2, <1>3, RootOf, TurnView DEF pages
<1>4. CASE Take(p, "arg") /\ UNCHANGED procs
  <2>1. PICK l : l = [loc[p] EXCEPT !.new = Head(freelist)]
    OBVIOUS
  <2>2. GoOn(p, "arg", l) /\ mem' = mem /\ entry' = entry
    BY <1>4, <2>1 DEF Take
  <2>3. l.root = loc[p].root
    BY <2>1, Parts DEF Locals
  <2> QED
    BY <1>2, <1>4, <2>2, <2>3, RootOf, TurnView
<1> QED
  BY <1>1, <1>3, <1>4 DEF Argv

LEMMA MmapView ==
    ASSUME MemoryInv, ViewInv, NEW p \in Procs, NEW length, Mmap(p, length)
    PROVE  ViewInv' /\ Still
  BY NobodyGoes DEF Mmap

\* A page in hand is filled
LEMMA FillView ==
    ASSUME MemoryInv, NEW t \in Threads, NEW x \in Hand(t), NEW with, Fill(x, with)
    PROVE  /\ x \in Pages /\ {x} \subseteq Hand(t) /\ SameLooks
           /\ \A pg \in Pages : pg \notin {x} => mem'[pg] = mem[pg]
           /\ mem'[x] = with /\ entry'[x] = ZeroTable /\ EntryInv'
<1>1. x \in Pages /\ \A r \in Roots : x \notin TablesOf(r)
  BY Pairs
<1>2. /\ EntryInv' /\ (\A r \in Roots : Same(r)) /\ entry'[x] = ZeroTable
      /\ \A pg \in Pages : mem'[pg] = IF pg = x THEN with ELSE mem[pg]
  BY <1>1, Filling
<1> QED
  BY <1>1, <1>2 DEF Same, SameLooks

LEMMA InNew ==
    ASSUME MemoryInv, NEW t \in Threads, at[t] \in WithNew
    PROVE  loc[t].new \in Hand(t)
  BY Parts DEF Shape, Hand

LEMMA ArgView ==
    ASSUME MemoryInv, ViewInv, NEW p \in Threads, Arg(p)
    PROVE  ViewInv' /\ Still
<1>1. CASE Panic("kernel virtual address")
  BY <1>1, PanicView
<1>2. PICK x, l : /\ x = loc[p].new
                  /\ l = [loc[p] EXCEPT !.todo = Append(@, loc[p].new), !.new = NULL]
  OBVIOUS
<1>3. CASE Fill(x, "string") /\ GoOn(p, "argv", l) /\ UNCHANGED procs
  <2>1. x \in Hand(p)
    BY <1>2, InNew DEF Arg, Runs, WithNew
  <2>2. l.root = loc[p].root /\ "argv" \notin Mapping \cup {"fault", "forks"}
    BY <1>2, Parts DEF Locals, Mapping
  <2>3. /\ {x} \subseteq Hand(p) /\ SameLooks
        /\ \A pg \in Pages : pg \notin {x} => mem'[pg] = mem[pg]
    BY <1>3, <2>1, FillView
  <2> QED
    BY <1>3, <2>2, <2>3, RootOf, QuietStep
<1> QED
  BY <1>1, <1>2, <1>3 DEF Arg

\* A page fault where nothing is mapped takes a page ...
LEMMA FaultView ==
    ASSUME MemoryInv, ViewInv, NEW p \in Procs, NEW va, Fault(p, va)
    PROVE  ViewInv' /\ Still
<1>1. CASE Full \/ va \notin UserVas
  BY <1>1, PanicView DEF Fault
<1>2. CASE ~Full /\ va \in UserVas
  <2>1. PICK r, l : r = pagetable[p] /\ l = [NoLocals EXCEPT !.va = va, !.root = pagetable[p],
                                                 !.new = Head(freelist)]
    OBVIOUS
  <2>2. /\ GoOn(p, "fault", l) /\ UNCHANGED procs /\ mem' = mem /\ entry' = entry
        /\ at[p] = "user" /\ Lookup(r, va) = NULL
    <3>1. /\ at[p] = "user" /\ Lookup(pagetable[p], va) = NULL
          /\ UNCHANGED procs /\ mem' = mem /\ entry' = entry
          /\ GoOn(p, "fault", [NoLocals EXCEPT !.va = va, !.root = pagetable[p],
                                               !.new = Head(freelist)])
      BY <1>2 DEF Fault, Runs
    <3> QED
      BY <2>1, <3>1
  <2>3. r \in Roots /\ p \in Threads /\ va \in VAs
    BY <1>2, <2>1, <2>2, UserRoot DEF Threads, VAs
  <2>4. l.root = r /\ l.va = va
    BY <2>1 DEF NoLocals
  <2>5. ASSUME at'[p] = "fault", loc'[p] = l, SameLooks PROVE Laid(p)'
    <3>1. Lookup(r, va)' = NULL
      BY <2>2, <2>3, <2>5 DEF SameLooks
    <3>2. loc'[p].root = r /\ loc'[p].va = va /\ at'[p] = "fault"
      BY <2>4, <2>5
    <3> QED
      BY <3>1, <3>2 DEF Laid, Mapping
  <2> QED
    BY <2>2, <2>3, <2>4, <2>5, QuietIdle
<1> QED
  BY <1>1, <1>2

\* ... and has it zeroed
LEMMA FaultZeroesView ==
    ASSUME MemoryInv, ViewInv, NEW t \in Threads, FaultZeroes(t)
    PROVE  ViewInv' /\ Still
<1>1. PICK l, x, r, v : /\ l = [loc[t] EXCEPT !.pa = loc[t].new, !.new = NULL]
                        /\ x = loc[t].new
                        /\ r = loc[t].root /\ v = loc[t].va
  OBVIOUS
<1>2. at[t] = "fault" /\ Fill(x, "zeroes") /\ GoOn(t, "map", l) /\ UNCHANGED procs
  BY <1>1 DEF FaultZeroes, Runs
<1>3. x \in Hand(t) /\ loc[t].child = "none"
  BY <1>1, <1>2, InNew, Who DEF WithNew
<1>4. /\ {x} \subseteq Hand(t) /\ SameLooks /\ mem'[x] = "zeroes"
      /\ \A pg \in Pages : pg \notin {x} => mem'[pg] = mem[pg]
  BY <1>2, <1>3, FillView
<1>5. l.root = r /\ l.va = v /\ l.child = "none" /\ l.pa = x
  BY <1>1, <1>3, Parts DEF Locals
<1>6. r \in Roots /\ v \in VAs /\ Lookup(r, v) = NULL
  BY <1>1, <1>2, LaidAt DEF ViewInv, Laid
<1>7. ASSUME at'[t] = "map", loc'[t] = l PROVE Laid(t)'
  <2>1. Lookup(r, v)' = NULL
    BY <1>4, <1>6 DEF SameLooks
  <2>2. loc'[t].root = r /\ loc'[t].va = v /\ loc'[t].child = "none" /\ loc'[t].pa = x
    BY <1>5, <1>7
  <2> QED
    BY <1>4, <1>7, <2>1, <2>2 DEF Laid
<1> QED
  BY <1>2, <1>4, <1>5, <1>6, <1>7, QuietStep

\* The trampoline is mapped, and the trapframe is next
LEMMA MappedTrampolineView ==
    ASSUME MemoryInv, ViewInv, NEW t \in Threads, MappedTrampoline(t)
    PROVE  ViewInv' /\ Still
<1>1. PICK l, r : /\ r = loc[t].root
                  /\ l = [loc[t] EXCEPT !.va = TRAPFRAME, !.pa = trapframe[loc[t].child]]
  OBVIOUS
<1>2. /\ at[t] = "mapped" /\ loc[t].va = TRAMPOLINE /\ GoOn(t, "map", l) /\ UNCHANGED procs
      /\ mem' = mem /\ entry' = entry
  BY <1>1 DEF MappedTrampoline, Runs, pages
<1>3. at[t] \in Mapping /\ loc[t].child # "none" /\ Makes(t)
  BY <1>2, Who, Addresses DEF Mapping
<1>4. l.root = r /\ l.child # "none" /\ l.va = TRAPFRAME
  BY <1>1, <1>3, Parts DEF Locals
<1>5. loc[t].pa = Trampoline
  BY <1>2, <1>3, Addresses DEF Makes
<1>6. /\ r \in Roots /\ Lookup(r, TRAMPOLINE) = Trampoline
      /\ \A va \in UserVas : Lookup(r, va) = NULL
  BY <1>1, <1>2, <1>3, <1>5, LaidAt DEF ViewInv, Laid
<1>7. ASSUME at'[t] = "map", loc'[t] = l, SameLooks PROVE Laid(t)'
  <2>1. Lookup(r, TRAMPOLINE)' = Trampoline /\ \A va \in UserVas : Lookup(r, va)' = NULL
    BY <1>6, <1>7, Addresses DEF SameLooks
  <2>2. loc'[t].root = r /\ loc'[t].child # "none" /\ at'[t] = "map"
    BY <1>4, <1>7
  <2> QED
    BY <2>1, <2>2 DEF Laid
<1> QED
  BY <1>2, <1>4, <1>6, <1>7, QuietIdle

\* ... who changes what a process has that does not run
LEMMA ChildView ==
    ASSUME MemoryInv, ViewInv, NEW t \in Threads, NEW label, NEW l, GoOn(t, label, l),
           NEW c \in Procs, state[c] # "RUNNABLE", state'[c] \in {"UNUSED", "ZOMBIE"},
           \A p \in Procs : p # c => /\ state'[p] = state[p] /\ trapframe'[p] = trapframe[p]
                                     /\ pagetable'[p] = pagetable[p],
           pagetable'[c] \in {pagetable[c], NULL},
           NEW X, X \subseteq Hand(t), \A pg \in Pages : pg \notin X => mem'[pg] = mem[pg],
           SameLooks, label \notin Mapping \cup {"fault", "forks"}, l.root \in Roots \cup {NULL}
    PROVE  ViewInv' /\ Still
<1>1. /\ at'[t] = label /\ loc'[t] = l
      /\ \A u \in Threads : u # t => at'[u] = at[u] /\ loc'[u] = loc[u]
  BY DEF GoOn, MemoryInv, Types
<1>2. Laid(t)'
  BY <1>1 DEF Laid
<1>3. Roots' \subseteq Roots
  <2> SUFFICES ASSUME NEW r \in Roots' PROVE r \in Roots
    OBVIOUS
  <2>1. /\ r # NULL
        /\ (\E p \in Procs : r = pagetable'[p]) \/ (\E u \in Threads : r = loc'[u].root)
    BY DEF Roots
  <2>2. \A u \in Threads : loc'[u].root \in Roots \cup {NULL}
    BY <1>1 DEF Roots
  <2>3. \A p \in Procs : pagetable'[p] \in Roots \cup {NULL}
    BY DEF Roots
  <2> QED
    BY <2>1, <2>2, <2>3
<1>4. state[c] \in {"UNUSED", "ZOMBIE"}
  BY DEF MemoryInv, Types
<1>5. \A p \in Procs : \/ state'[p] = state[p]
                       \/ {state[p], state'[p]} \subseteq {"UNUSED", "ZOMBIE"}
  BY <1>4
<1>6. \A p \in Procs : state[p] = "RUNNABLE" =>
          pagetable'[p] = pagetable[p] /\ trapframe'[p] = trapframe[p]
  OBVIOUS
<1> QED
  BY <1>1, <1>2, <1>3, <1>5, <1>6, Quiet

\* The trapframe is for a process that does not run
LEMMA TrapframeView ==
    ASSUME MemoryInv, ViewInv, NEW t \in Threads, Trapframe(t)
    PROVE  ViewInv' /\ Still
<1>1. PICK l, x, c : l = [loc[t] EXCEPT !.new = NULL] /\ x = loc[t].new /\ c = loc[t].child
  OBVIOUS
<1>2. /\ at[t] = "trapframe" /\ GoOn(t, "Uvmcreate", l) /\ Fill(x, "fives")
      /\ trapframe' = [trapframe EXCEPT ![c] = x] /\ state' = state /\ pagetable' = pagetable
  BY <1>1 DEF Trapframe, Runs
<1>3. c # "none" /\ Makes(t) /\ loc[t] \in Locals
  BY <1>1, <1>2, Who, Parts DEF Making
<1>4. c \in Procs /\ state[c] = "UNUSED"
  BY <1>1, <1>3 DEF Locals, Makes
<1>5. x \in Hand(t)
  BY <1>1, <1>2, InNew DEF WithNew
<1>6. /\ {x} \subseteq Hand(t) /\ SameLooks
      /\ \A pg \in Pages : pg \notin {x} => mem'[pg] = mem[pg]
  BY <1>2, <1>5, FillView
<1>7. \A p \in Procs : p # c => trapframe'[p] = trapframe[p]
  BY <1>2 DEF MemoryInv, Types
<1>8. l.root = loc[t].root /\ "Uvmcreate" \notin Mapping \cup {"fault", "forks"}
  BY <1>1, <1>3 DEF Locals, Mapping
<1> QED
  BY <1>2, <1>4, <1>6, <1>7, <1>8, RootOf, ChildView

\* What freeproc takes back belonged to a process that does not run
LEMMA FreeprocView ==
    ASSUME MemoryInv, ViewInv, NEW t \in Threads, NEW c \in Procs, Freeproc(t, c)
    PROVE  ViewInv' /\ Still
<1>1. PICK l : l = [NoLocals EXCEPT !.child = c, !.va = TRAPFRAME, !.todo = <<trapframe[c]>>]
  OBVIOUS
<1>2. /\ GoOn(t, "kfree", l) /\ trapframe' = [trapframe EXCEPT ![c] = NULL]
      /\ mem' = mem /\ entry' = entry /\ state' = state /\ pagetable' = pagetable
      /\ state[c] = "ZOMBIE"
  BY <1>1 DEF Freeproc, pages
<1>3. SameLooks
  BY <1>2, SameEntries DEF SameLooks, Same
<1>4. {} \subseteq Hand(t) /\ \A pg \in Pages : pg \notin {} => mem'[pg] = mem[pg]
  BY <1>2
<1>5. l.root = NULL /\ "kfree" \notin Mapping \cup {"fault", "forks"}
  BY <1>1 DEF NoLocals, Mapping
<1>6. \A p \in Procs : p # c => trapframe'[p] = trapframe[p]
  BY <1>2 DEF MemoryInv, Types
<1> QED
  BY <1>2, <1>3, <1>4, <1>5, <1>6, ChildView

LEMMA FreeProcPagetableView ==
    ASSUME MemoryInv, ViewInv, NEW t \in Threads, FreeProcPagetable(t)
    PROVE  ViewInv' /\ Still
<1>1. PICK c, l : /\ c = loc[t].child
                  /\ l = [loc[t] EXCEPT !.va = 0, !.todo = Tables(pagetable[loc[t].child])]
  OBVIOUS
<1>2. CASE Panic("vmunmap") \/ Panic("freewalk: leaf")
  BY <1>2, PanicView
<1>3. CASE /\ GoOn(t, "kfree", l) /\ pagetable' = [pagetable EXCEPT ![c] = NULL]
           /\ UNCHANGED <<pages, state, trapframe, areas>>
  <2>1. mem' = mem /\ entry' = entry /\ state' = state /\ trapframe' = trapframe
    BY <1>3 DEF pages
  <2>2. at[t] = "kfreed" /\ loc[t].va = TRAPFRAME
    BY DEF FreeProcPagetable, Runs
  <2>3. c # "none" /\ Reaps(t) /\ loc[t] \in Locals
    BY <1>1, <2>2, Who, Parts
  <2>4. c \in Procs /\ state[c] = "ZOMBIE"
    BY <1>1, <2>3 DEF Locals, Reaps
  <2>5. pagetable'[c] = NULL /\ \A p \in Procs : p # c => pagetable'[p] = pagetable[p]
    BY <1>3, <2>4 DEF MemoryInv, Types
  <2>6. SameLooks
    BY <2>1, SameEntries DEF SameLooks, Same
  <2>7. {} \subseteq Hand(t) /\ \A pg \in Pages : pg \notin {} => mem'[pg] = mem[pg]
    BY <2>1
  <2>8. l.root = loc[t].root /\ "kfree" \notin Mapping \cup {"fault", "forks"}
    BY <1>1, <2>3 DEF Locals, Mapping
  <2> QED
    BY <1>3, <2>1, <2>4, <2>5, <2>6, <2>7, <2>8, RootOf, ChildView
<1> QED
  BY <1>1, <1>2, <1>3 DEF FreeProcPagetable

LEMMA ReapedView ==
    ASSUME MemoryInv, ViewInv, NEW t \in Threads, Reaped(t)
    PROVE  ViewInv' /\ Still
<1>1. PICK c, l : c = loc[t].child /\ l = NoLocals
  OBVIOUS
<1>2. /\ GoOn(t, "user", l) /\ state' = [state EXCEPT ![c] = "UNUSED"]
      /\ mem' = mem /\ entry' = entry /\ trapframe' = trapframe /\ pagetable' = pagetable
      /\ at[t] = "kfreed" /\ loc[t].va = 0 /\ c # "none"
  BY <1>1 DEF Reaped, pages, ToUser, Runs
<1>3. Reaps(t) /\ loc[t] \in Locals
  BY <1>1, <1>2, Who, Parts
<1>4. c \in Procs /\ state[c] = "ZOMBIE"
  BY <1>1, <1>2, <1>3 DEF Locals, Reaps
<1>5. state'[c] = "UNUSED" /\ \A p \in Procs : p # c => state'[p] = state[p]
  BY <1>2, <1>4 DEF MemoryInv, Types
<1>6. SameLooks
  BY <1>2, SameEntries DEF SameLooks, Same
<1>7. {} \subseteq Hand(t) /\ \A pg \in Pages : pg \notin {} => mem'[pg] = mem[pg]
  BY <1>2
<1>8. l.root = NULL /\ "user" \notin Mapping \cup {"fault", "forks"}
  BY <1>1 DEF NoLocals, Mapping
<1> QED
  BY <1>2, <1>4, <1>5, <1>6, <1>7, <1>8, ChildView

\* A new root is empty
LEMMA RootView ==
    ASSUME MemoryInv, ViewInv, NEW t \in Threads, Root(t)
    PROVE  ViewInv' /\ Still
<1>1. PICK l, x : /\ l = [loc[t] EXCEPT !.root = loc[t].new, !.new = NULL, !.va = TRAMPOLINE,
                                      !.pa = Trampoline]
                  /\ x = loc[t].new
  OBVIOUS
<1>2. /\ at[t] = "root" /\ GoOn(t, "map", l) /\ Fill(x, "zeroes") /\ UNCHANGED procs
  BY <1>1 DEF Root, Runs
<1>3. loc[t].child # "none" /\ loc[t] \in Locals
  BY <1>2, Who, Parts DEF Making
<1>4. x \in Hand(t)
  BY <1>1, <1>2, InNew DEF WithNew
<1>5. /\ {x} \subseteq Hand(t) /\ SameLooks /\ x \in Pages /\ EntryInv'
      /\ mem'[x] = "zeroes" /\ entry'[x] = ZeroTable
      /\ \A pg \in Pages : pg \notin {x} => mem'[pg] = mem[pg]
  BY <1>2, <1>4, FillView
<1>6. l.root = x /\ l.va = TRAMPOLINE /\ l.child # "none"
  BY <1>1, <1>3 DEF Locals
<1>7. \A va \in UserVas : Lookup(x, va)' = NULL
  BY <1>5, NewRootNext, Addresses
<1>8. /\ at'[t] = "map" /\ loc'[t] = l
      /\ \A u \in Threads : u # t => at'[u] = at[u] /\ loc'[u] = loc[u]
  BY <1>2 DEF GoOn, MemoryInv, Types
<1>9. Laid(t)'
  BY <1>6, <1>7, <1>8, Addresses DEF Laid
<1>10. Roots' \subseteq Roots \cup {x}
  <2> SUFFICES ASSUME NEW r \in Roots' PROVE r \in Roots \cup {x}
    OBVIOUS
  <2>1. /\ r # NULL
        /\ (\E p \in Procs : r = pagetable'[p]) \/ (\E u \in Threads : r = loc'[u].root)
    BY DEF Roots
  <2>2. pagetable' = pagetable
    BY <1>2 DEF procs
  <2> QED
    BY <1>6, <1>8, <2>1, <2>2 DEF Roots
<1>11. \A r \in Roots' : r \notin Roots => \A va \in UserVas : Lookup(r, va)' = NULL
  <2> SUFFICES ASSUME NEW r \in Roots', r \notin Roots
               PROVE  \A va \in UserVas : Lookup(r, va)' = NULL
    OBVIOUS
  <2>1. r = x
    BY <1>10
  <2> QED
    BY <1>7, <2>1
<1>12. state' = state /\ trapframe' = trapframe /\ pagetable' = pagetable
  BY <1>2 DEF procs
<1> QED
  BY <1>5, <1>8, <1>9, <1>11, <1>12, Quiet

\* MapPages goes for a table, or does without
LEMMA GoesMapping ==
    ASSUME MemoryInv, ViewInv, NEW t \in Threads, at[t] = "map",
           NEW label \in {"link", "unmapped"}, NEW new, NEW l, l = [loc[t] EXCEPT !.new = new],
           GoOn(t, label, l), UNCHANGED procs, mem' = mem, entry' = entry
    PROVE  ViewInv' /\ Still
<1>1. at[t] \in Mapping \ {"mapped"} /\ label \in Mapping \ {"mapped"}
  BY DEF Mapping
<1>2. l.root = loc[t].root
  BY Parts DEF Locals
<1>3. ASSUME at'[t] = label, loc'[t] = l, SameLooks PROVE Laid(t)'
  <2>1. loc[t].pa # NULL
    BY <1>1, MapRoot, Numbers
  <2>2. \A pg \in Pages : pg # NULL => mem'[pg] = mem[pg]
    OBVIOUS
  <2> QED
    BY <1>1, <1>3, <2>1, <2>2, LaidOn
<1> QED
  BY <1>2, <1>3, RootOf, QuietIdle

\* nobody looks at what was not mapped
LEMMA UnmappedReadsView ==
    ASSUME MemoryInv, ViewInv, NEW t \in Threads, FaultReads(t), at[t] = "unmapped"
    PROVE  ViewInv' /\ Still
<1>1. PICK l, x : l = NoLocals /\ x = loc[t].pa
  OBVIOUS
<1>2. /\ GoOn(t, "user", l) /\ UNCHANGED procs /\ mem' = [mem EXCEPT ![x] = "file"]
      /\ entry' = entry /\ loc[t].va \in UserVas /\ at[t] \in Mapping
  BY <1>1 DEF FaultReads, ToUser, Mapping
<1>3. loc[t].child = "none"
  BY <1>2, Who
<1>4. x \in Hand(t) /\ x \in Pages
  BY <1>1, <1>2, <1>3, MapRoot, Numbers DEF Hand
<1>5. \A pg \in Pages : pg \notin {x} => mem'[pg] = mem[pg]
  BY <1>2 DEF MemoryInv, Types
<1>6. SameLooks
  <2>1. EntryInv'
    BY <1>2 DEF MemoryInv, Types, EntryInv
  <2>2. \A s \in Roots : \A q \in TablesOf(s) : entry'[q] = entry[q] /\ mem'[q] = mem[q]
    BY <1>2, <1>4, <1>5, Pairs
  <2> QED
    BY <2>1, <2>2, Untouched DEF Same, SameLooks
<1>7. l.root = NULL /\ "user" \notin Mapping \cup {"fault", "forks"} /\ {x} \subseteq Hand(t)
  BY <1>1, <1>4 DEF NoLocals, Mapping
<1> QED
  BY <1>2, <1>5, <1>6, <1>7, QuietStep

\* A step of one thread on one root and for one process, which the others do not see
Alters(t, r, X, c) ==
    /\ \A pg \in Pages : pg \notin X => mem'[pg] = mem[pg]
    /\ \A s \in Roots : s # r => \A va \in VAs : Lookup(s, va)' = Lookup(s, va)
    /\ \A s \in Roots : s # r => \A va \in UserVas : Lookup(s, va) \notin X
    /\ \A p \in Procs : p # c => /\ state'[p] = state[p] /\ pagetable'[p] = pagetable[p]
                                 /\ trapframe'[p] = trapframe[p]
    /\ \A p \in Procs : p # c /\ state[p] = "RUNNABLE" =>
                            pagetable[p] # r /\ trapframe[p] \notin X
    /\ \A u \in Threads : u # t => loc'[u] = loc[u] /\ (at'[u] = at[u] \/ at'[u] = "user")
    /\ \A u \in Threads : u # t /\ at[u] \in Mapping \cup {"fault", "forks"} => loc[u].root # r
    /\ \A u \in Threads : u # t /\ at[u] \in Mapping /\ loc[u].child = "none" =>
                              loc[u].pa \notin X
    /\ Roots' \subseteq Roots

\* Only the root that the thread works on shows something else, to one process
LEMMA OneChanges ==
    ASSUME MemoryInv, ViewInv, NEW t \in Threads, NEW r, NEW X, NEW c, Alters(t, r, X, c),
           FilledAt(r)', c \in Procs => Equipped(c)', Laid(t)'
    PROVE  ViewInv' /\ \A p \in Procs : p # c => Space(p)' = Space(p)
<1> USE DEF Alters
<1>1. ASSUME NEW s \in Roots' PROVE FilledAt(s)'
  <2>1. CASE s = r
    BY <2>1
  <2>2. CASE s # r
    <3>1. s \in Roots /\ FilledAt(s) /\ \A va \in UserVas : va \in VAs
      BY DEF ViewInv, VAs
    <3>2. \A va \in UserVas : Lookup(s, va)' = Lookup(s, va) /\ Lookup(s, va) \notin X
      BY <2>2, <3>1
    <3> QED
      BY <3>1, <3>2, FilledStays
  <2> QED
    BY <2>1, <2>2
<1>2. ASSUME NEW p \in Procs, p # c PROVE Equipped(p)' /\ Space(p)' = Space(p)
  <2>1. CASE state[p] = "RUNNABLE"
    <3>1. /\ state'[p] = state[p] /\ pagetable'[p] = pagetable[p]
          /\ trapframe'[p] = trapframe[p]
          /\ pagetable[p] # r /\ trapframe[p] \notin X
      BY <1>2, <2>1
    <3>2. pagetable[p] \in Roots
      BY <2>1, Runs1
    <3>3. \A va \in VAs : \A s : s = pagetable[p] => Lookup(s, va)' = Lookup(s, va)
      BY <3>1, <3>2
    <3>4. \A va \in UserVas : Lookup(pagetable[p], va) \notin X
      BY <3>1, <3>2
    <3> QED
      BY <2>1, <3>1, <3>3, <3>4, EquippedStays
  <2>2. CASE state[p] # "RUNNABLE"
    <3>1. state'[p] = state[p]
      BY <1>2
    <3> QED
      BY <2>2, <3>1 DEF Equipped, Space
  <2> QED
    BY <2>1, <2>2
<1>3. ASSUME NEW u \in Threads, u # t PROVE Laid(u)'
  <2>1. CASE at'[u] = "user"
    BY <2>1 DEF Laid, Mapping
  <2>2. CASE at'[u] = at[u]
    <3>1. Laid(u) /\ loc'[u] = loc[u]
      BY <1>3 DEF ViewInv
    <3>2. at[u] \in Mapping /\ loc[u].child = "none" => loc[u].pa \notin X
      BY <1>3
    <3>3. ASSUME NEW s, s = loc[u].root /\ at[u] \in Mapping \cup {"fault", "forks"}
          PROVE  \A va \in VAs : Lookup(s, va)' = Lookup(s, va)
      BY <1>3, <3>3, LaidAt
    <3>4. \A s : s = loc[u].root /\ at[u] \in Mapping \cup {"fault", "forks"} =>
            \A va \in VAs : Lookup(s, va)' = Lookup(s, va)
      BY <3>3
    <3>5. /\ at[u] \in Mapping => loc[u].va \in VAs
          /\ at[u] \in {"fault", "forks"} => loc[u].va \in VAs
          /\ at[u] \in Mapping /\ loc[u].child = "none" => loc[u].pa \in Pages
      BY LaidAt
    <3> QED
      BY <2>2, <3>1, <3>2, <3>4, <3>5, LaidStays
  <2> QED
    BY <1>3, <2>1, <2>2
<1>4. \A u \in Threads : Laid(u)'
  BY <1>3
<1>5. \A p \in Procs : Equipped(p)'
  BY <1>2
<1> QED
  BY <1>1, <1>2, <1>4, <1>5 DEF ViewInv

\* Others work on other roots
LEMMA OthersRoots ==
    ASSUME MemoryInv, NEW t \in Threads, at[t] \in Mapping, NEW u \in Threads, u # t
    PROVE  loc[u].root # loc[t].root
  BY OneRoot, MapRoot

\* A new mapping of a root
LEMMA LeafOf ==
    ASSUME MemoryInv, NEW r \in Roots, NEW va \in VAs, Walk(r, va).level = 0,
           NEW pa \in 1..Trampoline, mem' = mem,
           entry' = [entry EXCEPT ![Walk(r, va).table][PX(0, va)] = [to |-> pa, leaf |-> TRUE]]
    PROVE  /\ \A vb \in VAs : Lookup(r, vb)' = IF vb = va THEN pa ELSE Lookup(r, vb)
           /\ \A s \in Roots : s # r => \A vb \in VAs : Lookup(s, vb)' = Lookup(s, vb)
<1>1. EntryInv /\ Good(r)
  BY Pairs DEF MemoryInv, Types
<1>2. /\ EntryInv' /\ Good(r)' /\ TablesOf(r)' = TablesOf(r)
      /\ \A vb \in VAs : /\ Walk(r, vb)' = Walk(r, vb)
                         /\ Lookup(r, vb)' = IF vb = va THEN pa ELSE Lookup(r, vb)
      /\ \A pg \in Pages : pg \notin TablesOf(r) => entry'[pg] = entry[pg]
  BY <1>1, LeafTree
<1>3. \A s \in Roots : s # r => Same(s)
  <2> SUFFICES ASSUME NEW s \in Roots, s # r PROVE Same(s)
    OBVIOUS
  <2>1. TablesOf(s) \cap TablesOf(r) = {} /\ TablesOf(s) \subseteq Pages /\ Good(s)
    BY Pairs
  <2>2. \A pg \in TablesOf(s) : entry'[pg] = entry[pg] /\ mem'[pg] = mem[pg]
    BY <1>2, <2>1
  <2> QED
    BY <1>1, <1>2, <2>1, <2>2, SameTables
<1> QED
  BY <1>2, <1>3 DEF Same

\* What MapPages changes
LEMMA LeafIs ==
    ASSUME MemoryInv, NEW t \in Threads, at[t] = "map",
           Leaf(t, Walk(loc[t].root, loc[t].va)), Walk(loc[t].root, loc[t].va).level = 0,
           GoOn(t, "mapped", loc[t]), UNCHANGED <<freelist, mem, procs>>
    PROVE  /\ at'[t] = "mapped" /\ loc' = loc
           /\ \A u \in Threads : u # t => at'[u] = at[u]
           /\ Roots' \subseteq Roots
           /\ \A r, va, pa : r = loc[t].root /\ va = loc[t].va /\ pa = loc[t].pa =>
                /\ \A vb \in VAs : Lookup(r, vb)' = IF vb = va THEN pa ELSE Lookup(r, vb)
                /\ \A s \in Roots : s # r => \A vb \in VAs : Lookup(s, vb)' = Lookup(s, vb)
<1>1. ASSUME NEW r, NEW va, NEW pa, r = loc[t].root /\ va = loc[t].va /\ pa = loc[t].pa
      PROVE  /\ \A vb \in VAs : Lookup(r, vb)' = IF vb = va THEN pa ELSE Lookup(r, vb)
             /\ \A s \in Roots : s # r => \A vb \in VAs : Lookup(s, vb)' = Lookup(s, vb)
  <2>1. r \in Roots /\ va \in VAs /\ pa \in 1..Trampoline
    BY <1>1, MapRoot DEF Mapping
  <2>2. entry' = [entry EXCEPT ![Walk(r, va).table][PX(0, va)] = [to |-> pa, leaf |-> TRUE]]
    BY <1>1 DEF Leaf
  <2>3. Walk(r, va).level = 0
    BY <1>1
  <2>4. mem' = mem
    OBVIOUS
  <2> QED
    BY <2>1, <2>2, <2>3, <2>4, LeafOf
<1>2. /\ at'[t] = "mapped" /\ loc' = loc /\ \A u \in Threads : u # t => at'[u] = at[u]
  BY DEF GoOn, MemoryInv, Types
<1>3. Roots' \subseteq Roots
  BY <1>2 DEF Roots, procs
<1> QED
  BY <1>1, <1>2, <1>3

\* What a process that runs finds where
LEMMA Finds ==
    ASSUME MemoryInv, ViewInv, NEW p \in Procs, state[p] = "RUNNABLE", NEW r, r = pagetable[p]
    PROVE  /\ r \in Roots
           /\ Lookup(r, TRAPFRAME) = trapframe[p] /\ Lookup(r, TRAMPOLINE) = Trampoline
           /\ mem[trapframe[p]] = p /\ trapframe[p] # NULL /\ trapframe[p] \in Pages
           /\ Space(p) = [va \in VAs |-> Shows(r, va)]
           /\ Space(p)[TRAPFRAME] = p
<1>1. /\ r \in Roots
      /\ Lookup(r, TRAPFRAME) = trapframe[p] /\ Lookup(r, TRAMPOLINE) = Trampoline
      /\ mem[trapframe[p]] = p /\ trapframe[p] # NULL /\ trapframe[p] \in Pages
      /\ trapframe[p] # Trampoline
  BY Runs1 DEF ViewInv, Equipped
<1>2. Space(p) = [va \in VAs |-> Shows(r, va)]
  BY SpaceNow
<1>3. Shows(r, TRAPFRAME) = p
  BY <1>1 DEF Shows
<1> QED
  BY <1>1, <1>2, <1>3, Addresses

\* ... and afterwards
LEMMA FindsNext ==
    ASSUME NEW p \in Procs, state'[p] = "RUNNABLE", NEW r, r = pagetable'[p]
    PROVE  Space(p)' = [va \in VAs |-> Shows(r, va)']
  BY SpaceNext

\* Nobody but p finds anything else in memory
OnlySees(p) == \A q \in Procs : q # p => Space(q)' = Space(q)

\* What the abstract process does, by what p finds afterwards
MapsAt(p, va) ==
    /\ Space(p)[TRAPFRAME] = p /\ Space(p)[va] = "none"
    /\ Space(p)' = [vb \in VAs |-> IF vb = va THEN "zeroes" ELSE Space(p)[vb]]
ReadsAt(p, va) ==
    /\ Space(p)[va] = "zeroes"
    /\ Space(p)' = [vb \in VAs |-> IF vb = va THEN "file" ELSE Space(p)[vb]]
UnmapsAll(p, W) ==
    /\ \A va \in W : Space(p)[va] \in {"zeroes", "file"}
    /\ Space(p)' = [vb \in VAs |-> IF vb \in W THEN "none" ELSE Space(p)[vb]]
Starts(p) ==
    /\ \A va \in VAs : Space(p)[va] = "none"
    /\ Space(p)' = [va \in VAs |-> IF va = TRAMPOLINE THEN "trampoline"
                                   ELSE IF va = TRAPFRAME THEN p ELSE "none"]
Ends(p) == Space(p)' = [va \in VAs |-> "none"]

\* A page for an area that had none
LeafOfProcess(t) ==
    /\ at[t] = "map" /\ Leaf(t, Walk(loc[t].root, loc[t].va))
    /\ Walk(loc[t].root, loc[t].va).level = 0
    /\ GoOn(t, "mapped", loc[t]) /\ UNCHANGED <<freelist, mem, procs>>

\* Only the process that faulted finds the page of zeroes
LEMMA AreaLeafView ==
    ASSUME MemoryInv, ViewInv, NEW t \in Threads, LeafOfProcess(t), loc[t].child = "none"
    PROVE  ViewInv' /\ t \in Procs /\ OnlySees(t) /\ \E va \in UserVas : MapsAt(t, va)
<1>1. PICK r, va, pa : r = loc[t].root /\ va = loc[t].va /\ pa = loc[t].pa
  OBVIOUS
<1>2. /\ at[t] = "map" /\ at[t] \in Mapping /\ mem' = mem /\ UNCHANGED procs
  BY DEF LeafOfProcess, Mapping
<1>3. /\ at'[t] = "mapped" /\ loc' = loc
      /\ \A u \in Threads : u # t => at'[u] = at[u]
      /\ Roots' \subseteq Roots
      /\ \A vb \in VAs : Lookup(r, vb)' = IF vb = va THEN pa ELSE Lookup(r, vb)
      /\ \A s \in Roots : s # r => \A vb \in VAs : Lookup(s, vb)' = Lookup(s, vb)
  BY <1>1, LeafIs DEF LeafOfProcess
<1>4. /\ t \in Procs /\ r = pagetable[t] /\ va \in UserVas /\ pa \in Pages /\ r \in Roots
  BY <1>1, <1>2, Who, MapRoot DEF Serves
<1>5. state[t] = "RUNNABLE"
  BY <1>2, <1>4 DEF MemoryInv, Slot
<1>6. /\ mem[pa] = "zeroes" /\ Lookup(r, va) = NULL
  BY <1>1, <1>2 DEF ViewInv, Laid
<1>7. /\ Lookup(r, TRAPFRAME) = trapframe[t] /\ Lookup(r, TRAMPOLINE) = Trampoline
      /\ mem[trapframe[t]] = t /\ Space(t) = [vb \in VAs |-> Shows(r, vb)]
      /\ Space(t)[TRAPFRAME] = t
  BY <1>4, <1>5, Finds
<1>8. state' = state /\ pagetable' = pagetable /\ trapframe' = trapframe
  BY <1>2 DEF procs
<1>9. FilledAt(r)'
  <2>1. FilledAt(r)
    BY <1>4 DEF ViewInv
  <2> QED
    BY <1>2, <1>3, <1>4, <1>6, <2>1, Addresses DEF FilledAt
<1>10. Equipped(t)'
  <2>1. r = pagetable'[t] /\ trapframe'[t] = trapframe[t]
    BY <1>4, <1>8
  <2>2. Lookup(r, TRAPFRAME)' = trapframe'[t] /\ Lookup(r, TRAMPOLINE)' = Trampoline
    BY <1>3, <1>4, <1>7, <1>8, Addresses
  <2>3. mem'[trapframe'[t]] = t
    BY <1>2, <1>7, <1>8
  <2> QED
    BY <2>1, <2>2, <2>3 DEF Equipped
<1>11. Laid(t)'
  <2>1. loc'[t].child = "none" /\ loc'[t].pa = pa /\ mem'[pa] = "zeroes"
    BY <1>1, <1>2, <1>3, <1>6
  <2> QED
    BY <1>3, <2>1 DEF Laid
<1>12. ViewInv' /\ OnlySees(t)
  <2>1. PICK X : X = {}
    OBVIOUS
  <2>2. /\ \A pg \in Pages : pg \notin X => mem'[pg] = mem[pg]
        /\ \A s \in Roots : s # r => \A vb \in UserVas : Lookup(s, vb) \notin X
    BY <1>2, <2>1
  <2>3. \A p \in Procs : p # t => /\ state'[p] = state[p] /\ pagetable'[p] = pagetable[p]
                                  /\ trapframe'[p] = trapframe[p]
    BY <1>8
  <2>4. \A p \in Procs : p # t /\ state[p] = "RUNNABLE" =>
            pagetable[p] # r /\ trapframe[p] \notin X
    <3>1. Slot(t) /\ r # NULL
      BY <1>4 DEF MemoryInv, Roots
    <3> QED
      BY <1>4, <2>1, <3>1 DEF Slot
  <2>5. \A u \in Threads : u # t => loc'[u] = loc[u] /\ (at'[u] = at[u] \/ at'[u] = "user")
    BY <1>3
  <2>6. \A u \in Threads : u # t /\ at[u] \in Mapping \cup {"fault", "forks"} => loc[u].root # r
    BY <1>1, <1>2, OthersRoots
  <2>7. \A u \in Threads : u # t /\ at[u] \in Mapping /\ loc[u].child = "none" =>
            loc[u].pa \notin X
    BY <2>1
  <2>a. Alters(t, r, X, t)
    BY <1>3, <1>9, <1>10, <1>11, <2>2, <2>3, <2>4, <2>5, <2>6, <2>7 DEF Alters
  <2> QED
    BY <1>9, <1>10, <1>11, <2>a, OneChanges DEF OnlySees
<1>13. MapsAt(t, va)
  <2>1. Space(t)[va] = "none"
    BY <1>4, <1>6, <1>7, Addresses DEF Shows
  <2>2. Space(t)' = [vb \in VAs |-> Shows(r, vb)']
    <3>1. r = pagetable'[t] /\ state'[t] = "RUNNABLE"
      BY <1>4, <1>5, <1>8
    <3> QED
      BY <1>4, <3>1, FindsNext
  <2>3. ASSUME NEW vb \in VAs
        PROVE  Shows(r, vb)' = IF vb = va THEN "zeroes" ELSE Shows(r, vb)
    <3>1. pa # NULL /\ pa # Trampoline
      BY <1>4, Numbers
    <3> QED
      BY <1>2, <1>3, <1>6, <3>1 DEF Shows
  <2>4. \A vb \in VAs : Space(t)[vb] = Shows(r, vb)
    BY <1>7
  <2>5. Space(t)' = [vb \in VAs |-> IF vb = va THEN "zeroes" ELSE Space(t)[vb]]
    <3> HIDE DEF Space, Shows
    <3> QED
      BY <2>2, <2>3, <2>4
  <2> QED
    BY <1>7, <2>1, <2>5 DEF MapsAt
<1> QED
  BY <1>4, <1>12, <1>13

\* A page or the trampoline for a process that is being made
LEMMA ChildLeafView ==
    ASSUME MemoryInv, ViewInv, NEW t \in Threads, LeafOfProcess(t), loc[t].child # "none"
    PROVE  ViewInv' /\ Still
<1>1. PICK r, va, pa : r = loc[t].root /\ va = loc[t].va /\ pa = loc[t].pa
  OBVIOUS
<1>2. /\ at[t] = "map" /\ at[t] \in Mapping /\ mem' = mem /\ UNCHANGED procs
  BY DEF LeafOfProcess, Mapping
<1>3. /\ at'[t] = "mapped" /\ loc' = loc
      /\ \A u \in Threads : u # t => at'[u] = at[u]
      /\ Roots' \subseteq Roots
      /\ \A vb \in VAs : Lookup(r, vb)' = IF vb = va THEN pa ELSE Lookup(r, vb)
      /\ \A s \in Roots : s # r => \A vb \in VAs : Lookup(s, vb)' = Lookup(s, vb)
  BY <1>1, LeafIs DEF LeafOfProcess
<1>4. /\ Makes(t) /\ r \in Roots /\ va \in VAs /\ va \notin UserVas
      /\ \A p \in Procs : pagetable[p] # r
  BY <1>1, <1>2, Who, MapRoot DEF Makes
<1>5. state' = state /\ pagetable' = pagetable /\ trapframe' = trapframe
  BY <1>2 DEF procs
<1>6. /\ \A vb \in UserVas : Lookup(r, vb)' = NULL
      /\ va = TRAPFRAME => Lookup(r, TRAMPOLINE)' = Trampoline
  <2>1. /\ \A vb \in UserVas : Lookup(r, vb) = NULL
        /\ va = TRAPFRAME => Lookup(r, TRAMPOLINE) = Trampoline
    BY <1>1, <1>2 DEF ViewInv, Laid
  <2> QED
    BY <1>3, <1>4, <2>1, Addresses
<1>7. FilledAt(r)'
  BY <1>6 DEF FilledAt
<1>8. Laid(t)'
  <2>1. loc'[t].child # "none" /\ loc'[t].pa = pa /\ loc'[t].root = r /\ loc'[t].va = va
    BY <1>1, <1>3
  <2>2. Lookup(r, va)' = pa
    BY <1>3, <1>4
  <2> QED
    BY <1>3, <1>6, <2>1, <2>2 DEF Laid
<1>9. ViewInv' /\ \A p \in Procs : p # "none" => Space(p)' = Space(p)
  <2>1. PICK X, c : X = {} /\ c = "none"
    OBVIOUS
  <2>2. /\ \A pg \in Pages : pg \notin X => mem'[pg] = mem[pg]
        /\ \A s \in Roots : s # r => \A vb \in UserVas : Lookup(s, vb) \notin X
    BY <1>2, <2>1
  <2>3. \A p \in Procs : p # c => /\ state'[p] = state[p] /\ pagetable'[p] = pagetable[p]
                                  /\ trapframe'[p] = trapframe[p]
    BY <1>5
  <2>4. \A p \in Procs : p # c /\ state[p] = "RUNNABLE" =>
            pagetable[p] # r /\ trapframe[p] \notin X
    BY <1>4, <2>1
  <2>5. \A u \in Threads : u # t => loc'[u] = loc[u] /\ (at'[u] = at[u] \/ at'[u] = "user")
    BY <1>3
  <2>6. \A u \in Threads : u # t /\ at[u] \in Mapping \cup {"fault", "forks"} => loc[u].root # r
    BY <1>1, <1>2, OthersRoots
  <2>7. \A u \in Threads : u # t /\ at[u] \in Mapping /\ loc[u].child = "none" =>
            loc[u].pa \notin X
    BY <2>1
  <2>8. c \notin Procs
    BY <2>1, MemoryAssumption
  <2>a. Alters(t, r, X, c)
    BY <1>3, <1>7, <1>8, <2>2, <2>3, <2>4, <2>5, <2>6, <2>7, <2>8 DEF Alters
  <2>9. ViewInv' /\ \A p \in Procs : p # c => Space(p)' = Space(p)
    BY <1>7, <1>8, <2>8, <2>a, OneChanges
  <2> QED
    BY <2>1, <2>9
<1> QED
  BY <1>9, MemoryAssumption DEF Still

\* Nobody runs with the tables of a new process yet
LEMMA MappedTrapframeView ==
    ASSUME MemoryInv, ViewInv, NEW t \in Threads, MappedTrapframe(t)
    PROVE  ViewInv' /\ Still
<1>1. PICK c, r, l : c = loc[t].child /\ r = loc[t].root /\ l = loc[t]
  OBVIOUS
<1>2. /\ at[t] = "mapped" /\ at[t] \in Mapping /\ loc[t].va = TRAPFRAME
      /\ loc[t] \in Locals /\ c # "none" /\ c \in Procs /\ Makes(t)
  <2>1. at[t] = "mapped" /\ loc[t].va = TRAPFRAME /\ at[t] \in Mapping
    BY DEF MappedTrapframe, Runs, Mapping
  <2>2. loc[t] \in Locals /\ c # "none" /\ Makes(t)
    BY <1>1, <2>1, Parts, Who, Addresses
  <2>3. c \in Procs
    BY <1>1, <2>2 DEF Locals
  <2> QED
    BY <2>1, <2>2, <2>3
<1>3. /\ pagetable' = [pagetable EXCEPT ![c] = r] /\ mem' = mem /\ entry' = entry
      /\ state' = state /\ trapframe' = trapframe /\ GoOn(t, "forks", l)
  BY <1>1 DEF MappedTrapframe, pages
<1>4. /\ at'[t] = "forks" /\ loc' = loc /\ \A u \in Threads : u # t => at'[u] = at[u]
  <2>1. at \in [Threads -> Labels] /\ loc \in [Threads -> Locals]
    BY DEF MemoryInv, Types
  <2> QED
    BY <1>1, <1>3, <2>1 DEF GoOn
<1>5. state[c] = "UNUSED" /\ r \in Roots
  BY <1>1, <1>2 DEF Makes, Roots
<1>6. \A p \in Procs : pagetable'[p] = IF p = c THEN r ELSE pagetable[p]
  BY <1>2, <1>3 DEF MemoryInv, Types
<1>7. Roots' \subseteq Roots
  BY <1>4, <1>5, <1>6 DEF Roots
<1>8. SameLooks
  BY <1>3, SameEntries DEF SameLooks, Same
<1>9. Laid(t)'
  <2>1. /\ \A va \in UserVas : Lookup(r, va) = NULL
        /\ Lookup(r, TRAPFRAME) = loc[t].pa /\ Lookup(r, TRAMPOLINE) = Trampoline
    BY <1>1, <1>2 DEF ViewInv, Laid
  <2>2. /\ \A va \in UserVas : Lookup(r, va)' = NULL
        /\ Lookup(r, TRAPFRAME)' = loc[t].pa /\ Lookup(r, TRAMPOLINE)' = Trampoline
    BY <1>5, <1>8, <2>1, Addresses DEF SameLooks
  <2>3. loc'[t].root = r /\ loc'[t].va = TRAPFRAME /\ loc'[t].pa = loc[t].pa
    BY <1>1, <1>2, <1>4
  <2> QED
    BY <1>4, <2>2, <2>3 DEF Laid, Mapping
<1>10. {} \subseteq Hand(t) /\ \A pg \in Pages : pg \notin {} => mem'[pg] = mem[pg]
  BY <1>3
<1>11. \A p \in Procs : state[p] = "RUNNABLE" =>
          pagetable'[p] = pagetable[p] /\ trapframe'[p] = trapframe[p]
  BY <1>3, <1>5, <1>6
<1> QED
  BY <1>3, <1>4, <1>7, <1>8, <1>9, <1>10, <1>11, Quiet

\* A process finds its registers and the trampoline, and nobody finds anything else
LEMMA ForkView ==
    ASSUME MemoryInv, ViewInv, NEW t \in Threads, Fork(t)
    PROVE  ViewInv' /\ \E c \in Procs : OnlySees(c) /\ Starts(c)
<1>1. PICK c, r, l, pg : /\ c = loc[t].child /\ r = loc[t].root /\ l = NoLocals
                         /\ pg = trapframe[loc[t].child]
  OBVIOUS
<1>2. at[t] = "forks" /\ c # "none" /\ c \in Procs /\ Makes(t)
  <2>1. at[t] = "forks"
    BY DEF Fork, Runs
  <2> QED
    BY <1>1, <2>1, AtForks
<1>3. /\ pagetable' = pagetable /\ mem' = [mem EXCEPT ![pg] = c]
      /\ state' = [state EXCEPT ![c] = "RUNNABLE"]
      /\ at' = [at EXCEPT ![t] = IF t = Boot THEN "gone" ELSE "user", ![c] = "user"]
      /\ loc' = [loc EXCEPT ![t] = l] /\ entry' = entry /\ trapframe' = trapframe
  BY <1>1 DEF Fork
<1>4. /\ state[c] = "UNUSED" /\ pg # NULL /\ pg \in Pages /\ r # NULL /\ r \in Roots
      /\ pagetable[c] = r /\ \A p \in Procs : p # c => pagetable[p] # r
  <2>1. state[c] = "UNUSED" /\ pg # NULL /\ r # NULL /\ pagetable[c] = r
    BY <1>1, <1>2 DEF Makes
  <2>3. \A p \in Procs : p # c => pagetable[p] # r
    BY <1>2, <2>1 DEF MemoryInv, Slot
  <2>2. pg \in 0..NPages
    BY <1>1, <1>2 DEF MemoryInv, Types
  <2> QED
    BY <1>1, <2>1, <2>2, <2>3, Numbers DEF Roots
<1>5. /\ \A s \in Roots : pg \notin TablesOf(s)
      /\ \A s \in Roots, va \in UserVas : Lookup(s, va) # pg
      /\ \A u \in Threads : pg \notin Hand(u)
      /\ \A p \in Procs : p # c => trapframe[p] # pg
  BY <1>1, <1>2, <1>4, Pairs
<1>6. mem'[pg] = c /\ \A q \in Pages : q # pg => mem'[q] = mem[q]
  BY <1>3, <1>4 DEF MemoryInv, Types
<1>7. \A s \in Roots : \A va \in VAs : Lookup(s, va)' = Lookup(s, va)
  <2>1. EntryInv'
    BY <1>3 DEF MemoryInv, Types, EntryInv
  <2>2. \A s \in Roots : \A q \in TablesOf(s) : entry'[q] = entry[q] /\ mem'[q] = mem[q]
    BY <1>3, <1>5, <1>6, Pairs
  <2> QED
    BY <2>1, <2>2, Untouched DEF Same
<1>8. /\ at'[t] \in {"user", "gone", "spins"} /\ loc'[t] = l
      /\ \A u \in Threads : u # t => loc'[u] = loc[u] /\ (at'[u] = at[u] \/ at'[u] = "user")
  <2>1. at \in [Threads -> Labels] /\ loc \in [Threads -> Locals]
    BY DEF MemoryInv, Types
  <2> QED
    BY <1>3, <2>1
<1>9. /\ pagetable'[c] = r /\ state'[c] = "RUNNABLE"
      /\ \A p \in Procs : p # c => /\ state'[p] = state[p] /\ pagetable'[p] = pagetable[p]
                                   /\ trapframe'[p] = trapframe[p]
  BY <1>2, <1>3, <1>4 DEF MemoryInv, Types
<1>10. Roots' \subseteq Roots
  BY <1>1, <1>4, <1>8, <1>9 DEF Roots, NoLocals
<1>11. /\ \A va \in UserVas : Lookup(r, va)' = NULL
       /\ Lookup(r, TRAPFRAME)' = pg /\ Lookup(r, TRAMPOLINE)' = Trampoline
  <2>1. loc[t].pa = pg /\ loc[t].va = TRAPFRAME
    BY <1>1, <1>2 DEF Makes
  <2>2. /\ \A va \in UserVas : Lookup(r, va) = NULL
        /\ Lookup(r, TRAPFRAME) = pg /\ Lookup(r, TRAMPOLINE) = Trampoline
    BY <1>1, <1>2, <2>1 DEF ViewInv, Laid
  <2> QED
    BY <1>4, <1>7, <2>2, Addresses
<1>12. FilledAt(r)'
  BY <1>11 DEF FilledAt
<1>13. Equipped(c)'
  <2>1. trapframe'[c] = pg
    BY <1>1, <1>3
  <2> QED
    BY <1>6, <1>9, <1>11, <2>1 DEF Equipped
<1>14. Laid(t)'
  BY <1>8 DEF Laid, Mapping
<1>15. ViewInv' /\ OnlySees(c)
  <2>1. PICK X : X = {pg}
    OBVIOUS
  <2>2. /\ \A q \in Pages : q \notin X => mem'[q] = mem[q]
        /\ \A s \in Roots : s # r => \A va \in UserVas : Lookup(s, va) \notin X
    BY <1>5, <1>6, <2>1
  <2>3. \A s \in Roots : s # r => \A va \in VAs : Lookup(s, va)' = Lookup(s, va)
    BY <1>7
  <2>4. \A p \in Procs : p # c /\ state[p] = "RUNNABLE" =>
            pagetable[p] # r /\ trapframe[p] \notin X
    BY <1>4, <1>5, <2>1
  <2>5. \A u \in Threads : u # t /\ at[u] \in Mapping \cup {"fault", "forks"} => loc[u].root # r
    <3>1. \A u \in Threads : u # t /\ loc[u].root = r => r = NULL
      BY <1>1, OneRoot
    <3> QED
      BY <1>4, <3>1
  <2>6. ASSUME NEW u \in Threads, u # t, at[u] \in Mapping, loc[u].child = "none"
        PROVE  loc[u].pa \notin X
    <3>1. loc[u].root \in Roots /\ loc[u].va \in UserVas /\ loc[u].pa \in Pages
      BY <2>6, MapRoot
    <3>2. CASE at[u] = "mapped"
      <4>1. Lookup(loc[u].root, loc[u].va) = loc[u].pa
        BY <2>6, <3>2, Who DEF Serves
      <4> QED
        BY <1>5, <2>1, <3>1, <4>1
    <3>3. CASE at[u] # "mapped"
      <4>1. loc[u].pa \in Hand(u)
        BY <2>6, <3>1, <3>3, Numbers DEF Hand
      <4> QED
        BY <1>5, <2>1, <4>1
    <3> QED
      BY <3>2, <3>3
  <2>7. c \in Procs => Equipped(c)'
    BY <1>13
  <2>a. Alters(t, r, X, c)
    BY <1>8, <1>9, <1>10, <1>12, <1>14, <2>2, <2>3, <2>4, <2>5, <2>6, <2>7 DEF Alters
  <2> QED
    BY <1>12, <1>14, <2>7, <2>a, OneChanges DEF OnlySees
<1>16. Starts(c)
  <2>1. \A va \in VAs : Space(c)[va] = "none"
    <3>1. PICK s : s = pagetable[c]
      OBVIOUS
    <3>2. Space(c) = [va \in VAs |-> IF state[c] # "RUNNABLE" THEN "none" ELSE Shows(s, va)]
      BY <1>2, <3>1, SpaceNow
    <3>3. state[c] # "RUNNABLE"
      BY <1>4
    <3> QED
      BY <3>2, <3>3
  <2>2. Space(c)' = [va \in VAs |-> Shows(r, va)']
    BY <1>2, <1>9, FindsNext
  <2>3. ASSUME NEW va \in VAs
        PROVE  Shows(r, va)' = IF va = TRAMPOLINE THEN "trampoline"
                               ELSE IF va = TRAPFRAME THEN c ELSE "none"
    <3>1. CASE va \in UserVas
      BY <1>11, <3>1, Addresses DEF Shows
    <3>2. CASE va = TRAPFRAME
      BY <1>4, <1>6, <1>11, <3>2, Addresses, Numbers DEF Shows
    <3>3. CASE va = TRAMPOLINE
      BY <1>11, <3>3, Addresses, Numbers DEF Shows
    <3> QED
      BY <3>1, <3>2, <3>3 DEF VAs
  <2> HIDE DEF Space, Shows
  <2>4. Space(c)' = [va \in VAs |-> IF va = TRAMPOLINE THEN "trampoline"
                                    ELSE IF va = TRAPFRAME THEN c ELSE "none"]
    BY <2>2, <2>3
  <2> QED
    BY <2>1, <2>4 DEF Starts
<1> QED
  BY <1>2, <1>15, <1>16

\* The file is read into the page of an area
LEMMA MappedReadsView ==
    ASSUME MemoryInv, ViewInv, NEW t \in Threads, FaultReads(t), at[t] = "mapped"
    PROVE  ViewInv' /\ t \in Procs /\ OnlySees(t) /\ \E va \in UserVas : ReadsAt(t, va)
<1>1. PICK r, va, pa, l : r = loc[t].root /\ va = loc[t].va /\ pa = loc[t].pa /\ l = NoLocals
  OBVIOUS
<1>2. /\ GoOn(t, "user", l) /\ UNCHANGED procs /\ mem' = [mem EXCEPT ![pa] = "file"]
      /\ entry' = entry /\ va \in UserVas /\ at[t] \in Mapping
  BY <1>1 DEF FaultReads, ToUser, Mapping
<1>3. /\ t \in Procs /\ r = pagetable[t] /\ pa \in Pages /\ r \in Roots
      /\ loc[t].child = "none" /\ Lookup(r, va) = pa
  <2>1. loc[t].child = "none" /\ Serves(t)
    BY <1>1, <1>2, Who
  <2> QED
    BY <1>1, <1>2, <2>1, MapRoot DEF Serves
<1>4. state[t] = "RUNNABLE"
  BY <1>2, <1>3 DEF MemoryInv, Slot
<1>5. mem[pa] = "zeroes"
  BY <1>1, <1>2, <1>3 DEF ViewInv, Laid
<1>6. mem'[pa] = "file" /\ \A pg \in Pages : pg # pa => mem'[pg] = mem[pg]
  BY <1>2, <1>3 DEF MemoryInv, Types
<1>7. state' = state /\ pagetable' = pagetable /\ trapframe' = trapframe
  BY <1>2 DEF procs
<1>8. pa # NULL /\ pa # Trampoline
  BY <1>3, Numbers
<1>9. /\ \A s \in Roots : pa \notin TablesOf(s)
      /\ \A s \in Roots, vb \in UserVas : Lookup(s, vb) = pa => s = r /\ vb = va
      /\ \A u \in Threads : pa \notin Hand(u)
      /\ \A p \in Procs : trapframe[p] # pa
  BY <1>2, <1>3, <1>8, Pairs
<1>10. \A s \in Roots : \A vb \in VAs : Lookup(s, vb)' = Lookup(s, vb)
  <2>1. EntryInv'
    BY <1>2 DEF MemoryInv, Types, EntryInv
  <2>2. \A s \in Roots : \A q \in TablesOf(s) : entry'[q] = entry[q] /\ mem'[q] = mem[q]
    BY <1>2, <1>6, <1>9, Pairs
  <2> QED
    BY <2>1, <2>2, Untouched DEF Same
<1>11. /\ at'[t] = "user" /\ loc'[t] = l
       /\ \A u \in Threads : u # t => loc'[u] = loc[u] /\ at'[u] = at[u]
  BY <1>2 DEF GoOn, MemoryInv, Types
<1>12. Roots' \subseteq Roots
  BY <1>1, <1>7, <1>11 DEF Roots, NoLocals
<1>13. /\ Lookup(r, TRAPFRAME) = trapframe[t] /\ Lookup(r, TRAMPOLINE) = Trampoline
       /\ mem[trapframe[t]] = t /\ trapframe[t] \in Pages
       /\ Space(t) = [vb \in VAs |-> Shows(r, vb)]
  BY <1>3, <1>4, Finds
<1>14. FilledAt(r)'
  <2>1. FilledAt(r)
    BY <1>3 DEF ViewInv
  <2> QED
    BY <1>3, <1>6, <1>10, <2>1, Addresses DEF FilledAt
<1>15. Equipped(t)'
  <2>1. r = pagetable'[t] /\ trapframe'[t] = trapframe[t]
    BY <1>3, <1>7
  <2>2. Lookup(r, TRAPFRAME)' = trapframe'[t] /\ Lookup(r, TRAMPOLINE)' = Trampoline
    BY <1>3, <1>10, <1>13, <2>1, Addresses
  <2>3. mem'[trapframe'[t]] = t
    BY <1>3, <1>6, <1>9, <1>13, <2>1
  <2> QED
    BY <2>1, <2>2, <2>3 DEF Equipped
<1>16. Laid(t)'
  BY <1>11 DEF Laid, Mapping
<1>17. ViewInv' /\ OnlySees(t)
  <2>1. PICK X : X = {pa}
    OBVIOUS
  <2>2. /\ \A q \in Pages : q \notin X => mem'[q] = mem[q]
        /\ \A s \in Roots : s # r => \A vb \in UserVas : Lookup(s, vb) \notin X
    BY <1>6, <1>9, <2>1
  <2>3. \A s \in Roots : s # r => \A vb \in VAs : Lookup(s, vb)' = Lookup(s, vb)
    BY <1>10
  <2>4. \A p \in Procs : p # t /\ state[p] = "RUNNABLE" =>
            pagetable[p] # r /\ trapframe[p] \notin X
    <3>1. Slot(t) /\ r # NULL
      BY <1>3 DEF MemoryInv, Roots
    <3> QED
      BY <1>3, <1>9, <2>1, <3>1 DEF Slot
  <2>5. \A u \in Threads : u # t /\ at[u] \in Mapping \cup {"fault", "forks"} => loc[u].root # r
    BY <1>1, <1>2, OthersRoots
  <2>6. ASSUME NEW u \in Threads, u # t, at[u] \in Mapping, loc[u].child = "none"
        PROVE  loc[u].pa \notin X
    <3>1. /\ loc[u].root \in Roots /\ loc[u].va \in UserVas /\ loc[u].pa \in Pages
          /\ loc[u].root # r
      BY <1>1, <1>2, <2>6, MapRoot, OthersRoots
    <3>2. CASE at[u] = "mapped"
      <4>1. Lookup(loc[u].root, loc[u].va) = loc[u].pa
        BY <2>6, <3>2, Who DEF Serves
      <4> QED
        BY <1>9, <2>1, <3>1, <4>1
    <3>3. CASE at[u] # "mapped"
      <4>1. loc[u].pa \in Hand(u)
        BY <2>6, <3>1, <3>3, Numbers DEF Hand
      <4> QED
        BY <1>9, <2>1, <4>1
    <3> QED
      BY <3>2, <3>3
  <2>7. \A p \in Procs : p # t => /\ state'[p] = state[p] /\ pagetable'[p] = pagetable[p]
                                  /\ trapframe'[p] = trapframe[p]
    BY <1>7
  <2>8. t \in Procs => Equipped(t)'
    BY <1>15
  <2>a. Alters(t, r, X, t)
    BY <1>11, <1>12, <1>14, <1>16, <2>2, <2>3, <2>4, <2>5, <2>6, <2>7, <2>8 DEF Alters
  <2> QED
    BY <1>14, <1>16, <2>8, <2>a, OneChanges DEF OnlySees
<1>18. ReadsAt(t, va)
  <2>1. \A vb \in VAs : Space(t)[vb] = Shows(r, vb)
    BY <1>13
  <2>2. Shows(r, va) = "zeroes"
    BY <1>3, <1>5, <1>8 DEF Shows
  <2>3. Space(t)' = [vb \in VAs |-> Shows(r, vb)']
    <3>1. r = pagetable'[t] /\ state'[t] = "RUNNABLE"
      BY <1>3, <1>4, <1>7
    <3> QED
      BY <1>3, <3>1, FindsNext
  <2>4. ASSUME NEW vb \in VAs
        PROVE  Shows(r, vb)' = IF vb = va THEN "file" ELSE Shows(r, vb)
    <3>1. PICK pg : pg = Lookup(r, vb) /\ pg = Lookup(r, vb)'
      BY <1>3, <1>10
    <3>2. CASE vb = va
      BY <1>3, <1>6, <1>8, <3>1, <3>2 DEF Shows
    <3>3. CASE vb # va
      <4>1. pg # pa /\ (pg # NULL /\ pg # Trampoline => pg \in Pages)
        <5>1. CASE vb \in UserVas
          BY <1>3, <1>9, <3>1, <3>3, <5>1 DEF ViewInv, FilledAt
        <5>2. CASE vb = TRAPFRAME
          BY <1>3, <1>9, <1>13, <3>1, <5>2
        <5>3. CASE vb = TRAMPOLINE
          BY <1>8, <1>13, <3>1, <5>3
        <5> QED
          BY <5>1, <5>2, <5>3 DEF VAs
      <4> QED
        BY <1>6, <3>1, <3>3, <4>1 DEF Shows
    <3> QED
      BY <3>2, <3>3
  <2> HIDE DEF Space, Shows
  <2>5. Space(t)' = [vb \in VAs |-> IF vb = va THEN "file" ELSE Space(t)[vb]]
    BY <2>1, <2>3, <2>4
  <2>6. Space(t)[va] = "zeroes"
    BY <1>2, <2>1, <2>2, Addresses
  <2> QED
    BY <2>5, <2>6 DEF ReadsAt
<1> QED
  BY <1>2, <1>3, <1>17, <1>18

\* The areas of a root are unmapped
LEMMA ClearOf ==
    ASSUME MemoryInv, NEW r \in Roots, NEW V \in SUBSET UserVas, mem' = mem,
           entry' = Cleared(r, V)
    PROVE  /\ \A vb \in VAs : Lookup(r, vb)' = IF vb \in V THEN NULL ELSE Lookup(r, vb)
           /\ \A s \in Roots : s # r => \A vb \in VAs : Lookup(s, vb)' = Lookup(s, vb)
<1>1. EntryInv /\ Good(r) /\ V \in SUBSET VAs
  BY Pairs, Addresses DEF MemoryInv, Types
<1>2. /\ EntryInv' /\ Good(r)' /\ TablesOf(r)' = TablesOf(r)
      /\ \A vb \in VAs : /\ Walk(r, vb)' = Walk(r, vb)
                         /\ Lookup(r, vb)' = IF vb \in V THEN NULL ELSE Lookup(r, vb)
      /\ \A pg \in Pages : pg \notin TablesOf(r) => entry'[pg] = entry[pg]
  BY <1>1, ClearTree
<1>3. \A s \in Roots : s # r => Same(s)
  <2> SUFFICES ASSUME NEW s \in Roots, s # r PROVE Same(s)
    OBVIOUS
  <2>1. TablesOf(s) \cap TablesOf(r) = {} /\ TablesOf(s) \subseteq Pages /\ Good(s)
    BY Pairs
  <2>2. \A pg \in TablesOf(s) : entry'[pg] = entry[pg] /\ mem'[pg] = mem[pg]
    BY <1>2, <2>1
  <2> QED
    BY <1>1, <1>2, <2>1, <2>2, SameTables
<1> QED
  BY <1>2, <1>3 DEF Same

Clears(p, V) ==
    /\ at[p] = "user" /\ V \in SUBSET UserVas /\ entry' = Cleared(pagetable[p], V)
    /\ mem' = mem /\ trapframe' = trapframe /\ pagetable' = pagetable /\ loc' = loc
    /\ at'[p] \in {"user", "gone", "spins"} /\ \A u \in Threads : u # p => at'[u] = at[u]
    /\ \A q \in Procs : q # p => state'[q] = state[q]

\* Only the process finds nothing where it has unmapped its areas
LEMMA ClearView ==
    ASSUME MemoryInv, ViewInv, NEW p \in Procs, NEW V, Clears(p, V)
    PROVE  /\ ViewInv' /\ OnlySees(p)
           /\ state'[p] = "RUNNABLE" => \E W \in SUBSET VAs : UnmapsAll(p, W)
<1>1. PICK r : r = pagetable[p]
  OBVIOUS
<1>2. state[p] = "RUNNABLE" /\ r \in Roots /\ p \in Threads
  BY <1>1, UserRoot DEF Clears, Threads
<1>3. /\ \A vb \in VAs : Lookup(r, vb)' = IF vb \in V THEN NULL ELSE Lookup(r, vb)
      /\ \A s \in Roots : s # r => \A vb \in VAs : Lookup(s, vb)' = Lookup(s, vb)
  BY <1>1, <1>2, ClearOf DEF Clears
<1>4. /\ Lookup(r, TRAPFRAME) = trapframe[p] /\ Lookup(r, TRAMPOLINE) = Trampoline
      /\ mem[trapframe[p]] = p /\ Space(p) = [vb \in VAs |-> Shows(r, vb)]
  BY <1>1, <1>2, Finds
<1>5. V \subseteq UserVas /\ mem' = mem
  BY DEF Clears
<1>6. FilledAt(r) /\ FilledAt(r)'
  <2>1. FilledAt(r)
    BY <1>2 DEF ViewInv
  <2> QED
    BY <1>3, <1>5, <2>1, Addresses DEF FilledAt
<1>7. Equipped(p)'
  <2>1. r = pagetable'[p] /\ trapframe'[p] = trapframe[p]
    BY <1>1 DEF Clears
  <2>2. Lookup(r, TRAPFRAME)' = trapframe'[p] /\ Lookup(r, TRAMPOLINE)' = Trampoline
    BY <1>3, <1>4, <1>5, <2>1, Addresses
  <2>3. mem'[trapframe'[p]] = p
    BY <1>4, <1>5, <2>1
  <2> QED
    BY <2>1, <2>2, <2>3 DEF Equipped
<1>8. Laid(p)'
  BY DEF Laid, Mapping, Clears
<1>9. ViewInv' /\ OnlySees(p)
  <2>1. PICK X : X = {}
    OBVIOUS
  <2>2. /\ \A pg \in Pages : pg \notin X => mem'[pg] = mem[pg]
        /\ \A s \in Roots : s # r => \A vb \in UserVas : Lookup(s, vb) \notin X
        /\ \A u \in Threads : u # p /\ at[u] \in Mapping /\ loc[u].child = "none" =>
              loc[u].pa \notin X
    BY <1>5, <2>1
  <2>3. \A q \in Procs : q # p => /\ state'[q] = state[q] /\ pagetable'[q] = pagetable[q]
                                  /\ trapframe'[q] = trapframe[q]
    BY DEF Clears
  <2>4. \A q \in Procs : q # p /\ state[q] = "RUNNABLE" =>
            pagetable[q] # r /\ trapframe[q] \notin X
    <3>1. Slot(p) /\ r # NULL
      BY <1>2 DEF MemoryInv, Roots
    <3> QED
      BY <1>1, <2>1, <3>1 DEF Slot
  <2>5. \A u \in Threads : u # p => loc'[u] = loc[u] /\ (at'[u] = at[u] \/ at'[u] = "user")
    BY DEF Clears
  <2>6. \A u \in Threads : u # p /\ at[u] \in Mapping \cup {"fault", "forks"} => loc[u].root # r
    <3>1. /\ at[p] \in {"user", "gone", "spins"} /\ pagetable[p] # NULL
          /\ state[p] = "RUNNABLE"
      BY <1>1, <1>2, UserRoot DEF Clears, Roots
    <3>2. \A u \in Threads : loc[u].child # p
      BY <3>1, NobodysChild
    <3> QED
      BY <1>1, <3>1, <3>2, OwnRoot
  <2>7. Roots' \subseteq Roots
    BY DEF Clears, Roots
  <2>8. Alters(p, r, X, p)
    BY <1>3, <2>2, <2>3, <2>4, <2>5, <2>6, <2>7 DEF Alters
  <2> QED
    BY <1>2, <1>6, <1>7, <1>8, <2>8, OneChanges DEF OnlySees
<1>10. ASSUME state'[p] = "RUNNABLE" PROVE \E W \in SUBSET VAs : UnmapsAll(p, W)
  <2>1. PICK W : W = {vb \in V : Lookup(r, vb) # NULL}
    OBVIOUS
  <2>2. W \subseteq VAs /\ W \subseteq V
    BY <1>5, <2>1, Addresses
  <2>3. \A vb \in VAs : Space(p)[vb] = Shows(r, vb)
    BY <1>4
  <2>4. \A vb \in W : Shows(r, vb) \in {"zeroes", "file"}
    <3> SUFFICES ASSUME NEW vb \in W PROVE Shows(r, vb) \in {"zeroes", "file"}
      OBVIOUS
    <3>1. vb \in UserVas /\ Lookup(r, vb) # NULL
      BY <1>5, <2>1
    <3> QED
      BY <1>6, <3>1, Numbers DEF FilledAt, Shows
  <2>5. Space(p)' = [vb \in VAs |-> Shows(r, vb)']
    <3>1. r = pagetable'[p]
      BY <1>1 DEF Clears
    <3> QED
      BY <1>10, <3>1, FindsNext
  <2>6. ASSUME NEW vb \in VAs PROVE Shows(r, vb)' = IF vb \in W THEN "none" ELSE Shows(r, vb)
    BY <1>3, <1>5, <2>1 DEF Shows
  <2> HIDE DEF Space, Shows
  <2>7. Space(p)' = [vb \in VAs |-> IF vb \in W THEN "none" ELSE Space(p)[vb]]
    BY <2>3, <2>5, <2>6
  <2>8. UnmapsAll(p, W)
    BY <2>2, <2>3, <2>4, <2>7 DEF UnmapsAll
  <2> QED
    BY <2>2, <2>8
<1> QED
  BY <1>9, <1>10

\* exit unmaps all areas, and the process stops
LEMMA ExitView ==
    ASSUME MemoryInv, ViewInv, NEW p \in Procs, Exit(p)
    PROVE  ViewInv' /\ OnlySees(p) /\ (Ends(p) \/ \E W \in SUBSET VAs : UnmapsAll(p, W))
<1>1. PICK vs, inverted :
        /\ entry' = Cleared(pagetable[p], Unmaps(pagetable[p], vs, inverted))
        /\ \/ state' = [state EXCEPT ![p] = "ZOMBIE"] /\ GoOn(p, "gone", NoLocals)
           \/ GoOn(p, "spins", NoLocals) /\ UNCHANGED state
  BY DEF Exit
<1>2. PICK V : V = Unmaps(pagetable[p], vs, inverted)
  OBVIOUS
<1>3. /\ at[p] = "user" /\ entry' = Cleared(pagetable[p], V) /\ V \in SUBSET UserVas
      /\ UNCHANGED <<freelist, mem, trapframe, pagetable, areas>>
  BY <1>1, <1>2, UnmapsIn DEF Exit, Runs
<1>4. state \in [Procs -> {"UNUSED", "RUNNABLE", "ZOMBIE"}]
  BY DEF MemoryInv, Types
<1>5. CASE state' = [state EXCEPT ![p] = "ZOMBIE"] /\ GoOn(p, "gone", NoLocals)
  <2>1. /\ at'[p] = "gone" /\ loc' = loc /\ \A u \in Threads : u # p => at'[u] = at[u]
    BY <1>3, <1>5, Turns
  <2>2. state'[p] = "ZOMBIE" /\ \A q \in Procs : q # p => state'[q] = state[q]
    BY <1>4, <1>5
  <2>3. Clears(p, V)
    BY <1>3, <2>1, <2>2 DEF Clears
  <2>4. ViewInv' /\ OnlySees(p)
    BY <2>3, ClearView
  <2>5. Ends(p)
    <3>1. \A s : s = pagetable'[p] =>
            Space(p)' = [va \in VAs |-> IF state'[p] # "RUNNABLE" THEN "none"
                                        ELSE Shows(s, va)']
      BY SpaceNext
    <3>2. PICK s : s = pagetable'[p]
      OBVIOUS
    <3> QED
      BY <2>2, <3>1, <3>2 DEF Ends
  <2> QED
    BY <2>4, <2>5
<1>6. CASE GoOn(p, "spins", NoLocals) /\ UNCHANGED state
  <2>1. /\ at'[p] = "spins" /\ loc' = loc /\ \A u \in Threads : u # p => at'[u] = at[u]
    BY <1>3, <1>6, Turns
  <2>2. state'[p] = "RUNNABLE" /\ \A q \in Procs : q # p => state'[q] = state[q]
    BY <1>3, <1>6, UserRoot
  <2>3. Clears(p, V)
    BY <1>3, <2>1, <2>2 DEF Clears
  <2> QED
    BY <2>2, <2>3, ClearView
<1> QED
  BY <1>1, <1>5, <1>6

\* munmap unmaps pages of areas
LEMMA MunmapView ==
    ASSUME MemoryInv, ViewInv, NEW p \in Procs, NEW addr, NEW sz \in Int,
           Munmap(p, addr, sz)
    PROVE  ViewInv' /\ OnlySees(p) /\ \E W \in SUBSET VAs : UnmapsAll(p, W)
<1>1. PICK V \in SUBSET UserVas : entry' = Cleared(pagetable[p], V)
  BY MunmapIs
<1>2. /\ at[p] = "user" /\ UNCHANGED <<freelist, mem, state, trapframe, pagetable, loc>>
      /\ at'[p] \in {"user", "spins"} /\ \A u \in Threads : u # p => at'[u] = at[u]
  BY MunmapIs
<1>3. state'[p] = "RUNNABLE"
  BY <1>2, UserRoot
<1>4. Clears(p, V)
  BY <1>1, <1>2 DEF Clears
<1> QED
  BY <1>3, <1>4, ClearView

\* What MapPages may do
LEMMA MapPagesView ==
    ASSUME MemoryInv, ViewInv, NEW t \in Threads, MapPages(t)
    PROVE  /\ ViewInv'
           /\ Still \/ (t \in Procs /\ OnlySees(t) /\ \E va \in UserVas : MapsAt(t, va))
<1>1. at[t] = "map"
  BY DEF MapPages, Runs
<1>2. PICK w, l : /\ w = Walk(loc[t].root, loc[t].va)
                  /\ l = [loc[t] EXCEPT !.new = Head(freelist)]
  OBVIOUS
<1>3. CASE Panic("undefined") \/ Panic("ramap") \/ Panic("get pagetable entry")
  BY <1>3, PanicView
<1>4. CASE Take(t, "link") /\ UNCHANGED procs
  <2>1. GoOn(t, "link", l) /\ mem' = mem /\ entry' = entry
    BY <1>2, <1>4 DEF Take
  <2> QED
    BY <1>1, <1>2, <1>4, <2>1, GoesMapping
<1>5. CASE GoOn(t, "unmapped", loc[t]) /\ UNCHANGED <<pages, procs>>
  <2>1. PICK m : m = loc[t]
    OBVIOUS
  <2>2. PICK new : new = m.new
    OBVIOUS
  <2>3. m = [loc[t] EXCEPT !.new = new]
    <3>1. loc[t] \in Locals
      BY Parts
    <3> QED
      BY <2>1, <2>2, <3>1 DEF Locals
  <2>4. GoOn(t, "unmapped", m) /\ mem' = mem /\ entry' = entry /\ UNCHANGED procs
    BY <1>5, <2>1 DEF pages
  <2> QED
    BY <1>1, <2>3, <2>4, GoesMapping
<1>6. CASE /\ ~(w.level > 0) /\ Leaf(t, w) /\ GoOn(t, "mapped", loc[t])
           /\ UNCHANGED <<freelist, mem, procs>>
  <2>1. w.level \in {0, 1, 2}
    <3>1. PICK r, va : r = loc[t].root /\ va = loc[t].va
      OBVIOUS
    <3>2. Good(r) /\ va \in VAs /\ EntryInv
      BY <1>1, <3>1, MapRoot DEF Mapping, MemoryInv, Types
    <3>3. WalkShape(r, va)
      BY <3>2, WalkNow
    <3> QED
      BY <1>2, <3>1, <3>3 DEF WalkShape
  <2>2. LeafOfProcess(t)
    BY <1>1, <1>2, <1>6, <2>1 DEF LeafOfProcess
  <2> QED
    BY <2>2, AreaLeafView, ChildLeafView
<1> QED
  BY <1>2, <1>3, <1>4, <1>5, <1>6 DEF MapPages

\* What a process finds is a function on its addresses
LEMMA SpaceIs == \A p \in Procs : Space(p) = [va \in VAs |-> Space(p)[va]]
  BY SpaceNow

\* What every process finds: the state of AddressSpaces
Found == [p \in Procs |-> Space(p)]

\* A step that nobody sees is a stutter
LEMMA StillSame == Still => Found' = Found
  BY DEF Still, Found

\* Only p finds something else
LEMMA OneSees ==
    ASSUME NEW p \in Procs, OnlySees(p), NEW f, Space(p)' = f
    PROVE  Found' = [Found EXCEPT ![p] = f]
  BY DEF OnlySees, Found

\* What a process sees of its own step is a step of AddressSpaces
LEMMA StartsIs ==
    ASSUME NEW p \in Procs, OnlySees(p), Starts(p)
    PROVE  Spaces!Next
<1>1. PICK f : f = [va \in VAs |-> IF va = TRAMPOLINE THEN "trampoline"
                                   ELSE IF va = TRAPFRAME THEN p ELSE "none"]
  OBVIOUS
<1>2. Found' = [Found EXCEPT ![p] = f]
  BY <1>1, OneSees DEF Starts
<1>3. Space(p) = [va \in VAs |-> "none"]
  BY SpaceIs DEF Starts
<1>4. Spaces!Start(p)
  BY <1>1, <1>2, <1>3 DEF Spaces!Start, Spaces!Empty, Found, VAs
<1> QED
  BY <1>4 DEF Spaces!Next

LEMMA MapsIs ==
    ASSUME NEW p \in Procs, OnlySees(p), NEW va \in UserVas, MapsAt(p, va)
    PROVE  Spaces!Next
<1>1. PICK f : f = [vb \in VAs |-> IF vb = va THEN "zeroes" ELSE Space(p)[vb]]
  OBVIOUS
<1>2. Found' = [Found EXCEPT ![p] = f]
  BY <1>1, OneSees DEF MapsAt
<1>3. va \in VAs /\ TRAPFRAME \in VAs /\ Space(p)[va] = "none" /\ Space(p)[TRAPFRAME] = p
      /\ p # "none"
  BY Addresses, MemoryAssumption DEF MapsAt
<1>4. f = [Space(p) EXCEPT ![va] = "zeroes"]
  BY <1>1, <1>3, SpaceIs
<1>5. Space(p) # [vb \in VAs |-> "none"]
  BY <1>3
<1>6. Spaces!Map(p, va)
  BY <1>2, <1>3, <1>4, <1>5 DEF Spaces!Map, Spaces!Empty, Found, VAs
<1> QED
  BY <1>3, <1>6 DEF Spaces!Next, VAs

LEMMA ReadsIs ==
    ASSUME NEW p \in Procs, OnlySees(p), NEW va \in UserVas, ReadsAt(p, va)
    PROVE  Spaces!Next
<1>1. PICK f : f = [vb \in VAs |-> IF vb = va THEN "file" ELSE Space(p)[vb]]
  OBVIOUS
<1>2. Found' = [Found EXCEPT ![p] = f]
  BY <1>1, OneSees DEF ReadsAt
<1>3. va \in VAs /\ Space(p)[va] = "zeroes"
  BY Addresses DEF ReadsAt
<1>4. f = [Space(p) EXCEPT ![va] = "file"]
  BY <1>1, <1>3, SpaceIs
<1>5. Spaces!Read(p, va)
  BY <1>2, <1>3, <1>4 DEF Spaces!Read, Found
<1> QED
  BY <1>3, <1>5 DEF Spaces!Next, VAs

LEMMA UnmapsIs ==
    ASSUME NEW p \in Procs, OnlySees(p), NEW W \in SUBSET VAs, UnmapsAll(p, W)
    PROVE  Spaces!Next
<1>1. PICK f : f = [vb \in VAs |-> IF vb \in W THEN "none" ELSE Space(p)[vb]]
  OBVIOUS
<1>2. Found' = [Found EXCEPT ![p] = f] /\ Found[p] = Space(p)
  BY <1>1, OneSees DEF UnmapsAll, Found
<1>3. W \in SUBSET {va \in VAs : Found[p][va] \in {"zeroes", "file"}}
  BY <1>2 DEF UnmapsAll
<1>4. Found' = [Found EXCEPT ![p] = [va \in VAs |-> IF va \in W THEN "none" ELSE @[va]]]
  BY <1>1, <1>2
<1>5. Spaces!Unmap(p)
  BY <1>3, <1>4 DEF Spaces!Unmap, Found, VAs
<1> QED
  BY <1>5 DEF Spaces!Next

LEMMA EndsIs ==
    ASSUME NEW p \in Procs, OnlySees(p), Ends(p)
    PROVE  Spaces!Next
<1>1. PICK f : f = [va \in VAs |-> "none"]
  OBVIOUS
<1>2. Found' = [Found EXCEPT ![p] = f]
  BY <1>1, OneSees DEF Ends
<1>3. Spaces!End(p)
  BY <1>1, <1>2 DEF Spaces!End, Spaces!Empty, Found, VAs
<1> QED
  BY <1>3 DEF Spaces!Next

\* Nobody has memory at first
LEMMA InitView == MemoryInit => ViewInv /\ Spaces!Init
<1> SUFFICES ASSUME MemoryInit PROVE ViewInv /\ Spaces!Init
  OBVIOUS
<1>1. Roots = {}
  BY DEF MemoryInit, NoLocals, Roots
<1>2. \A p \in Procs : state[p] = "UNUSED"
  BY DEF MemoryInit
<1>3. \A t \in Threads : at[t] \in {"user", "gone", "spins"}
  BY DEF MemoryInit
<1>4. ViewInv
  BY <1>1, <1>2, <1>3 DEF ViewInv, Equipped, Laid, Mapping
<1>5. \A p \in Procs : Space(p) = [va \in VAs |-> "none"]
  BY <1>2 DEF Space, VAs
<1>6. Spaces!Init
  BY <1>5 DEF Spaces!Init, Spaces!Empty, VAs
<1> QED
  BY <1>4, <1>6

\* Every step is one of the abstract specification's, or none
LEMMA NextView ==
    ASSUME ~Overlap, MemoryInv, ViewInv, [MemoryNext]_memoryVars
    PROVE  ViewInv' /\ (Spaces!Next \/ Found' = Found)
<1>1. CASE UNCHANGED memoryVars
  <2>1. UNCHANGED <<pages, state, trapframe, pagetable, at, loc>>
    BY <1>1 DEF memoryVars, procs
  <2> QED
    BY <2>1, NobodyGoes, StillSame
<1>2. ASSUME NEW t \in Threads, Thread(t) PROVE ViewInv' /\ (Spaces!Next \/ Found' = Found)
  <2>1. CASE MapPages(t)
    BY <2>1, MapPagesView, MapsIs, StillSame
  <2>2. CASE Fork(t)
    BY <2>2, ForkView, StartsIs
  <2>3. CASE ~MapPages(t) /\ ~Fork(t)
    <3>1. ViewInv' /\ Still
      BY <1>2, <2>3, AllocprocView, FreeprocView, KfreeView, PushView, LinkView,
         TrapframeView, UvmcreateView, RootView, MappedTrampolineView, MappedTrapframeView,
         UnmappedView, FailedView, FreeProcPagetableView, ReapedView DEF Thread
    <3> QED
      BY <3>1, StillSame
  <2> QED
    BY <2>1, <2>2, <2>3
<1>3. ASSUME NEW p \in Procs, Process(p) PROVE ViewInv' /\ (Spaces!Next \/ Found' = Found)
  <2>1. p \in Threads
    BY DEF Threads
  <2>2. CASE Exit(p)
    BY <2>2, ExitView, EndsIs, UnmapsIs
  <2>3. CASE FaultReads(p)
    <3>1. at[p] \in {"mapped", "unmapped"}
      BY <2>3 DEF FaultReads
    <3>2. CASE at[p] = "mapped"
      BY <2>1, <2>3, <3>2, MappedReadsView, ReadsIs
    <3>3. CASE at[p] = "unmapped"
      BY <2>1, <2>3, <3>3, UnmappedReadsView, StillSame
    <3> QED
      BY <3>1, <3>2, <3>3
  <2>4. CASE \E addr : \E sz \in Sizes : Munmap(p, addr, sz)
    BY <2>4, MemoryAssumption, MunmapView, UnmapsIs
  <2>5. CASE /\ ~Exit(p) /\ ~FaultReads(p)
             /\ ~\E addr : \E sz \in Sizes : Munmap(p, addr, sz)
    <3>1. ViewInv' /\ Still
      BY <1>3, <2>1, <2>5, FaultZeroesView, ExecveView, ArgvView, ArgView, ExecveDoneView,
         MmapView, FaultView DEF Process
    <3> QED
      BY <3>1, StillSame
  <2> QED
    BY <2>2, <2>3, <2>4, <2>5
<1> QED
  BY <1>1, <1>2, <1>3 DEF MemoryNext

\* vm.cpp:68-145, kalloc.cpp:37-68: a process finds in its memory what it has mapped
\* there, whatever others allocate, free and map.
THEOREM MemoryIsAddressSpaces == ~Overlap => (MemorySpec => ActsAsAddressSpaces)
<1> SUFFICES ASSUME ~Overlap PROVE MemorySpec => ActsAsAddressSpaces
  OBVIOUS
<1>1. MemoryInit => ViewInv /\ Spaces!Init
  BY InitView
<1>2. ASSUME MemoryInv, ViewInv, [MemoryNext]_memoryVars
      PROVE  ViewInv' /\ [Spaces!Next]_([p \in Procs |-> Space(p)])
  BY <1>2, NextView DEF Found
<1> QED
  BY <1>1, <1>2, Invariance, PTL DEF MemorySpec, ActsAsAddressSpaces, Spaces!Spec

=============================================================================
