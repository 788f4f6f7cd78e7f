-------------------------- MODULE ProcTreeProofs --------------------------
(***************************************************************************)
(* Proofs about ProcTree, for a table of any size and any set of statuses. *)
(*                                                                         *)
(* TreeSound and NoWaiterForgotten are not inductive by themselves.  Tree  *)
(* adds what a process in the middle of a system call relies on: PcInv,    *)
(* that it is alive, an exiting process has no children left and wait4's   *)
(* child is still its own; and ForkInv, that the slot of a fork under way  *)
(* is untouched by others.  ForkInv needs forks one at a time: hence the   *)
(* hypothesis on Workload.                                                 *)
(***************************************************************************)
EXTENDS ProcTree, TLAPS

\* what each label of pc says of the process that stands there
PcInv ==
    \A p \in Slots :
        /\ pc[p] # "user" => Alive(p)
        /\ pc[p] \in {"fork", "forked", "exiting"} => state[p] = "RUNNABLE"
        /\ pc[p] = "exiting" => p # initproc /\ \A c \in Slots : parent[c] # p
        /\ pc[p] = "wait4" => parent[child[p]] = p
        /\ state[p] = "SLEEPING" => pc[p] \in {"wait", "wait4"}

\* the slot between allocproc and RUNNABLE
ForkInv ==
    /\ \A p, q \in Slots : Forking(p) /\ Forking(q) => p = q
    /\ \A p \in Slots : pc[p] = "fork" =>
        state[child[p]] = "UNUSED" /\ parent[child[p]] = NULL
    /\ \A p \in Slots : pc[p] = "forked" =>
        state[child[p]] = "UNUSED" /\ parent[child[p]] = p

Tree == TreeSound /\ PcInv /\ ForkInv /\ NoWaiterForgotten

LEMMA SlotsFacts == 0 \in Slots /\ initproc \in Slots /\ NULL \notin Slots
  BY ProcTreeAssumption DEF Slots, initproc, NULL

\* the part of TypeOK that Tree rests on
States == {"UNUSED", "SLEEPING", "RUNNABLE", "ZOMBIE"}
Pcs == {"user", "fork", "forked", "exiting", "wait", "wait4"}
Types ==
    /\ state \in [Slots -> States]
    /\ parent \in [Slots -> Slots \cup {NULL}]
    /\ pc \in [Slots -> Pcs]
    /\ child \in [Slots -> Slots]

-----------------------------------------------------------------------------
(* Every action keeps Tree *)

LEMMA ForkAllocTree ==
    ASSUME Types, Tree, NEW p \in Slots, "overlap" \notin Workload, ForkAlloc(p)
    PROVE  Tree'
<1>1. PICK c \in Slots : c \in Unused /\ child' = [child EXCEPT ![p] = c]
  BY DEF ForkAlloc, First, Unused
<1>2. /\ state[c] = "UNUSED" /\ pc[p] = "user" /\ state[p] = "RUNNABLE"
      /\ \A q \in Slots : ~Forking(q)
  BY <1>1 DEF Unused, ForkAlloc, Runs
<1>3. parent[c] = NULL
  BY <1>1, <1>2 DEF Tree, TreeSound, Forking, Types
<1>4. state' = state /\ parent' = parent /\ pc' = [pc EXCEPT ![p] = "fork"]
  BY DEF ForkAlloc, Goto
<1>5. TreeSound'
  BY <1>1, <1>2, <1>4 DEF Tree, TreeSound, Alive
<1>6. PcInv'
  BY <1>1, <1>2, <1>4 DEF Tree, PcInv, Alive
<1>7. ForkInv'
  BY <1>1, <1>2, <1>3, <1>4 DEF ForkInv, Types, Forking
<1>8. NoWaiterForgotten'
  BY <1>1, <1>2, <1>4 DEF Tree, NoWaiterForgotten, Dead, Children
<1> QED
  BY <1>5, <1>6, <1>7, <1>8 DEF Tree

LEMMA ForkOverrunsTree ==
    ASSUME Types, Tree, NEW p \in Slots, ForkOverruns(p)
    PROVE  Tree'
<1>1. UNCHANGED <<state, parent, pc, child>>
  BY DEF ForkOverruns
<1>2. TreeSound'
  BY <1>1 DEF Tree, TreeSound, Alive
<1>3. PcInv'
  BY <1>1 DEF Tree, PcInv, Alive
<1>4. ForkInv'
  BY <1>1 DEF Tree, ForkInv, Forking
<1>5. NoWaiterForgotten'
  BY <1>1 DEF Tree, NoWaiterForgotten, Dead, Children
<1> QED
  BY <1>2, <1>3, <1>4, <1>5 DEF Tree

LEMMA ForkFailsTree ==
    ASSUME Types, Tree, NEW p \in Slots, ForkFails(p)
    PROVE  Tree'
<1>1. pc[p] = "fork" /\ state[p] = "RUNNABLE"
  BY DEF ForkFails, Runs
<1>2. UNCHANGED <<state, parent, child>> /\ pc' = [pc EXCEPT ![p] = "user"]
  BY DEF ForkFails, Goto
<1>3. TreeSound'
  BY <1>1, <1>2 DEF Tree, TreeSound, Alive
<1>4. PcInv'
  BY <1>1, <1>2 DEF Tree, PcInv, Alive
<1>5. ForkInv'
  BY <1>2 DEF Tree, ForkInv, Forking
<1>6. NoWaiterForgotten'
  BY <1>1, <1>2 DEF Tree, NoWaiterForgotten, Dead, Children
<1> QED
  BY <1>3, <1>4, <1>5, <1>6 DEF Tree

LEMMA ForkParentTree ==
    ASSUME Types, Tree, NEW p \in Slots, ForkParent(p)
    PROVE  Tree'
<1>1. PICK c \in Slots : c = child[p]
  BY DEF Types
<1>2. pc[p] = "fork" /\ state[p] = "RUNNABLE" /\ state[c] = "UNUSED" /\ parent[c] = NULL
  BY <1>1 DEF ForkParent, Runs, Tree, ForkInv
<1>3. /\ UNCHANGED <<state, child>> /\ pc' = [pc EXCEPT ![p] = "forked"]
      /\ parent' = [parent EXCEPT ![c] = p]
  BY <1>1 DEF ForkParent, Goto
<1>4. TreeSound'
  BY <1>1, <1>2, <1>3 DEF Tree, TreeSound, Types, Alive
<1>5. PcInv'
  BY <1>2, <1>3, SlotsFacts DEF Tree, PcInv, Alive
<1>6. ForkInv'
  BY <1>1, <1>2, <1>3 DEF Tree, ForkInv, Types, Forking
<1>7. NoWaiterForgotten'
  BY <1>2, <1>3 DEF Tree, NoWaiterForgotten, Dead, Children
<1> QED
  BY <1>4, <1>5, <1>6, <1>7 DEF Tree

LEMMA ForkReadyTree ==
    ASSUME Types, Tree, NEW p \in Slots, ForkReady(p)
    PROVE  Tree'
<1>1. PICK c \in Slots : c = child[p]
  BY DEF Types
<1>2. pc[p] = "forked" /\ state[p] = "RUNNABLE" /\ parent[c] = p /\ state[c] = "UNUSED"
  BY <1>1 DEF ForkReady, Runs, Tree, ForkInv
<1>3. /\ UNCHANGED <<parent, child>> /\ state' = [state EXCEPT ![c] = "RUNNABLE"]
      /\ pc' = [pc EXCEPT ![p] = "user", ![c] = "user"]
  BY <1>1 DEF ForkReady
<1>4. TreeSound'
  BY <1>2, <1>3, SlotsFacts DEF Tree, TreeSound, PcInv, Types, Alive
<1>5. PcInv'
  BY <1>2, <1>3 DEF Tree, PcInv, Types, Alive
<1>6. ForkInv'
  BY <1>2, <1>3 DEF Tree, ForkInv, Types, Forking
<1>7. NoWaiterForgotten'
  BY <1>2, <1>3 DEF Tree, NoWaiterForgotten, Dead, Children, Types
<1> QED
  BY <1>4, <1>5, <1>6, <1>7 DEF Tree

LEMMA ExitReparentTree ==
    ASSUME Types, Tree, NEW p \in Slots, ExitReparent(p)
    PROVE  Tree'
<1>1. pc[p] = "user" /\ state[p] = "RUNNABLE" /\ p # initproc
  BY DEF ExitReparent, Runs
<1>2. /\ UNCHANGED <<state, child>> /\ pc' = [pc EXCEPT ![p] = "exiting"]
      /\ parent' = [c \in Slots |-> IF parent[c] = p THEN initproc ELSE parent[c]]
  BY DEF ExitReparent, Goto
<1>3. TreeSound'
  BY <1>1, <1>2, SlotsFacts DEF Tree, TreeSound, Alive
<1>4. PcInv'
  BY <1>1, <1>2 DEF Tree, PcInv, Types, Alive
<1>5. ForkInv'
  BY <1>2, SlotsFacts DEF Tree, ForkInv, Types, Forking
<1>6. NoWaiterForgotten'
  BY <1>1, <1>2 DEF Tree, NoWaiterForgotten, Dead, Children
<1> QED
  BY <1>3, <1>4, <1>5, <1>6 DEF Tree

LEMMA ExitZombieTree ==
    ASSUME Types, Tree, NEW p \in Slots, ExitZombie(p)
    PROVE  Tree'
<1>1. /\ pc[p] = "exiting" /\ state[p] = "RUNNABLE" /\ p # initproc
      /\ \A c \in Slots : parent[c] # p
  BY DEF ExitZombie, Runs, Tree, PcInv
<1>2. /\ UNCHANGED <<parent, child>> /\ pc' = [pc EXCEPT ![p] = "user"]
      /\ state' = [Woken(parent[p]) EXCEPT ![p] = "ZOMBIE"]
  BY DEF ExitZombie, Goto
<1>3. \A q \in Slots : state'[q] =
        IF q = p THEN "ZOMBIE"
        ELSE IF q = parent[p] /\ state[q] = "SLEEPING" THEN "RUNNABLE" ELSE state[q]
  BY <1>2 DEF Woken
<1>4. TreeSound'
  BY <1>1, <1>2, <1>3, SlotsFacts DEF Tree, TreeSound, Types, Alive
<1>5. PcInv'
  BY <1>2, <1>3 DEF Tree, PcInv, Types, Alive
<1>6. ForkInv'
  BY <1>1, <1>2, <1>3 DEF Tree, ForkInv, Types, Forking
<1>7. NoWaiterForgotten'
  BY <1>2, <1>3 DEF Tree, PcInv, NoWaiterForgotten, Dead, Children, Types
<1> QED
  BY <1>4, <1>5, <1>6, <1>7 DEF Tree

LEMMA ZombieWakesInitTree ==
    ASSUME Types, Tree, NEW z \in Slots, ZombieWakesInit(z)
    PROVE  Tree'
<1>1. UNCHANGED <<parent, pc, child>> /\ state' = Woken(initproc)
  BY DEF ZombieWakesInit
<1>2. \A q \in Slots : state'[q] =
        IF q = initproc /\ state[q] = "SLEEPING" THEN "RUNNABLE" ELSE state[q]
  BY <1>1 DEF Woken
<1>3. TreeSound'
  BY <1>1, <1>2, SlotsFacts DEF Tree, TreeSound, Types, Alive
<1>4. PcInv'
  BY <1>1, <1>2 DEF Tree, PcInv, Alive
<1>5. ForkInv'
  BY <1>1, <1>2 DEF Tree, ForkInv, Types, Forking
<1>6. NoWaiterForgotten'
  BY <1>1, <1>2 DEF Tree, NoWaiterForgotten, Dead, Children, Types
<1> QED
  BY <1>3, <1>4, <1>5, <1>6 DEF Tree

LEMMA WaitReapsTree ==
    ASSUME Types, Tree, NEW p \in Slots, NEW copy \in Copies, WaitReaps(p, copy)
    PROVE  Tree'
<1>1. PICK c \in Slots : c \in Dead(p) /\ Freeproc(c)
  BY DEF WaitReaps, First, Dead, Children
<1>2. /\ state[c] = "ZOMBIE" /\ parent[c] = p
      /\ state[p] = "RUNNABLE" /\ pc[p] \in {"user", "wait"}
  BY <1>1 DEF WaitReaps, Scans, Runs, Dead, Children
<1>3. /\ child' = child /\ pc' = [pc EXCEPT ![p] = "user"]
      /\ state' = [state EXCEPT ![c] = "UNUSED"] /\ parent' = [parent EXCEPT ![c] = NULL]
  BY <1>1 DEF WaitReaps, Goto, Freeproc
<1>4. TreeSound'
  BY <1>2, <1>3 DEF Tree, TreeSound, Types, Alive
<1>5. PcInv'
  BY <1>2, <1>3, SlotsFacts DEF Tree, PcInv, Alive
<1>6. ForkInv'
  BY <1>2, <1>3 DEF Tree, ForkInv, Forking
<1>7. NoWaiterForgotten'
  BY <1>2, <1>3 DEF Tree, NoWaiterForgotten, Dead, Children, Types
<1> QED
  BY <1>4, <1>5, <1>6, <1>7 DEF Tree

LEMMA WaitFailsTree ==
    ASSUME Types, Tree, NEW p \in Slots, WaitFails(p)
    PROVE  Tree'
<1>1. state[p] = "RUNNABLE" /\ pc[p] \in {"user", "wait"}
  BY DEF WaitFails, Scans, Runs
<1>2. UNCHANGED <<state, parent, child>> /\ pc' = [pc EXCEPT ![p] = "user"]
  BY DEF WaitFails, Goto
<1>3. TreeSound'
  BY <1>1, <1>2 DEF Tree, TreeSound, Alive
<1>4. PcInv'
  BY <1>1, <1>2 DEF Tree, PcInv, Alive
<1>5. ForkInv'
  BY <1>2 DEF Tree, ForkInv, Forking
<1>6. NoWaiterForgotten'
  BY <1>1, <1>2 DEF Tree, NoWaiterForgotten, Dead, Children
<1> QED
  BY <1>3, <1>4, <1>5, <1>6 DEF Tree

LEMMA WaitSleepsTree ==
    ASSUME Types, Tree, NEW p \in Slots, WaitSleeps(p)
    PROVE  Tree'
<1>1. state[p] = "RUNNABLE" /\ pc[p] \in {"user", "wait"} /\ Dead(p) = {}
  BY DEF WaitSleeps, Scans, Runs
<1>2. /\ UNCHANGED <<parent, child>> /\ pc' = [pc EXCEPT ![p] = "wait"]
      /\ state' = [state EXCEPT ![p] = "SLEEPING"]
  BY DEF WaitSleeps, Goto
<1>3. TreeSound'
  BY <1>1, <1>2 DEF Tree, TreeSound, Alive
<1>4. PcInv'
  BY <1>2 DEF Tree, PcInv, Types, Alive
<1>5. ForkInv'
  BY <1>1, <1>2 DEF Tree, ForkInv, Forking
<1>6. NoWaiterForgotten'
  BY <1>1, <1>2 DEF Tree, NoWaiterForgotten, Dead, Children, Types
<1> QED
  BY <1>3, <1>4, <1>5, <1>6 DEF Tree

LEMMA WaitChildlessTree ==
    ASSUME Types, Tree, NEW p \in Slots, WaitChildless(p)
    PROVE  Tree'
<1>1. UNCHANGED <<state, parent, pc, child>>
  BY DEF WaitChildless
<1>2. TreeSound'
  BY <1>1 DEF Tree, TreeSound, Alive
<1>3. PcInv'
  BY <1>1 DEF Tree, PcInv, Alive
<1>4. ForkInv'
  BY <1>1 DEF Tree, ForkInv, Forking
<1>5. NoWaiterForgotten'
  BY <1>1 DEF Tree, NoWaiterForgotten, Dead, Children
<1> QED
  BY <1>2, <1>3, <1>4, <1>5 DEF Tree

LEMMA Wait4EnterTree ==
    ASSUME Types, Tree, NEW p \in Slots, NEW c \in Slots, Wait4Enter(p, c)
    PROVE  Tree'
<1>1. state[p] = "RUNNABLE" /\ pc[p] = "user" /\ parent[c] = p
  BY DEF Wait4Enter, Runs
<1>2. /\ UNCHANGED <<state, parent>> /\ pc' = [pc EXCEPT ![p] = "wait4"]
      /\ child' = [child EXCEPT ![p] = c]
  BY DEF Wait4Enter, Goto
<1>3. TreeSound'
  BY <1>1, <1>2 DEF Tree, TreeSound, Alive
<1>4. PcInv'
  BY <1>1, <1>2 DEF Tree, PcInv, Types, Alive
<1>5. ForkInv'
  BY <1>1, <1>2 DEF Tree, ForkInv, Forking
<1>6. NoWaiterForgotten'
  BY <1>1, <1>2 DEF Tree, NoWaiterForgotten, Dead, Children
<1> QED
  BY <1>3, <1>4, <1>5, <1>6 DEF Tree

LEMMA Wait4ReapsTree ==
    ASSUME Types, Tree, NEW p \in Slots, NEW copy \in Copies, Wait4Reaps(p, copy)
    PROVE  Tree'
<1>1. PICK c \in Slots : c = child[p]
  BY DEF Types
<1>2. state[c] = "ZOMBIE" /\ parent[c] = p /\ state[p] = "RUNNABLE" /\ pc[p] = "wait4"
  BY <1>1 DEF Wait4Reaps, Runs, Tree, PcInv
<1>3. /\ child' = child /\ pc' = [pc EXCEPT ![p] = "user"]
      /\ state' = [state EXCEPT ![c] = "UNUSED"] /\ parent' = [parent EXCEPT ![c] = NULL]
  BY <1>1 DEF Wait4Reaps, Goto, Freeproc
<1>4. TreeSound'
  BY <1>2, <1>3 DEF Tree, TreeSound, Types, Alive
<1>5. PcInv'
  BY <1>2, <1>3, SlotsFacts DEF Tree, PcInv, Types, Alive
<1>6. ForkInv'
  BY <1>2, <1>3 DEF Tree, ForkInv, Forking
<1>7. NoWaiterForgotten'
  BY <1>2, <1>3 DEF Tree, NoWaiterForgotten, Dead, Children, Types
<1> QED
  BY <1>4, <1>5, <1>6, <1>7 DEF Tree

LEMMA Wait4FailsTree ==
    ASSUME Types, Tree, NEW p \in Slots, Wait4Fails(p)
    PROVE  Tree'
<1>1. state[p] = "RUNNABLE" /\ pc[p] = "wait4"
  BY DEF Wait4Fails, Runs
<1>2. UNCHANGED <<state, parent, child>> /\ pc' = [pc EXCEPT ![p] = "user"]
  BY DEF Wait4Fails, Goto
<1>3. TreeSound'
  BY <1>1, <1>2 DEF Tree, TreeSound, Alive
<1>4. PcInv'
  BY <1>1, <1>2 DEF Tree, PcInv, Alive
<1>5. ForkInv'
  BY <1>2 DEF Tree, ForkInv, Forking
<1>6. NoWaiterForgotten'
  BY <1>1, <1>2 DEF Tree, NoWaiterForgotten, Dead, Children
<1> QED
  BY <1>3, <1>4, <1>5, <1>6 DEF Tree

LEMMA Wait4SleepsTree ==
    ASSUME Types, Tree, NEW p \in Slots, Wait4Sleeps(p)
    PROVE  Tree'
<1>1. state[p] = "RUNNABLE" /\ pc[p] = "wait4" /\ state[child[p]] # "ZOMBIE"
  BY DEF Wait4Sleeps, Runs
<1>2. UNCHANGED <<parent, pc, child>> /\ state' = [state EXCEPT ![p] = "SLEEPING"]
  BY DEF Wait4Sleeps
<1>3. TreeSound'
  BY <1>1, <1>2 DEF Tree, TreeSound, Alive
<1>4. PcInv'
  BY <1>1, <1>2 DEF Tree, PcInv, Alive
<1>5. ForkInv'
  BY <1>1, <1>2 DEF Tree, ForkInv, Forking
<1>6. NoWaiterForgotten'
  BY <1>1, <1>2 DEF Tree, NoWaiterForgotten, Dead, Children
<1> QED
  BY <1>3, <1>4, <1>5, <1>6 DEF Tree

-----------------------------------------------------------------------------
(* Types and statuses *)

LEMMA ShiftedType ==
    ASSUME NEW c \in Slots, xstate \in [Slots -> XStates]
    PROVE  /\ Shifted(c) \in XStates
           /\ Shifted(c)[1] = xstate[c][1] \/ Shifted(c) = <<0, Shifts>>
  BY ProcTreeAssumption DEF Shifted, XStates

LEMMA StatusType ==
    Zero \in XStates /\ \A s \in Status : <<s, 0>> \in XStates /\ <<s, 0>>[1] = s
  BY ProcTreeAssumption DEF XStates, Zero

\* What is to be read from a zombie is its status, or nothing is left of it.
StatusInv ==
    \A c \in Slots : state[c] = "ZOMBIE" =>
        xstate[c][1] = exited[c] \/ xstate[c] = <<0, Shifts>>

LEMMA WokenType ==
    ASSUME state \in [Slots -> States], NEW q
    PROVE  /\ Woken(q) \in [Slots -> States]
           /\ \A c \in Slots : Woken(q)[c] = "ZOMBIE" <=> state[c] = "ZOMBIE"
  BY DEF Woken, States

LEMMA ForkTypes ==
    ASSUME TypeOK, StatusInv, NEW p \in Slots, ForkStep(p)
    PROVE  TypeOK' /\ StatusInv'
<1>1. CASE ForkAlloc(p)
  <2>1. PICK c \in Slots : child' = [child EXCEPT ![p] = c]
    BY <1>1 DEF ForkAlloc, First, Unused
  <2> QED
    BY <1>1, <2>1 DEF ForkAlloc, Goto, TypeOK, StatusInv
<1>2. CASE ForkOverruns(p)
  BY <1>2 DEF ForkOverruns, TypeOK, StatusInv
<1>3. CASE ForkFails(p)
  BY <1>3 DEF ForkFails, Goto, TypeOK, StatusInv
<1>4. CASE ForkParent(p)
  BY <1>4 DEF ForkParent, Goto, TypeOK, StatusInv
<1>5. CASE ForkReady(p)
  BY <1>5 DEF ForkReady, TypeOK, StatusInv
<1> QED
  BY <1>1, <1>2, <1>3, <1>4, <1>5 DEF ForkStep

LEMMA ExitTypes ==
    ASSUME TypeOK, StatusInv, NEW p \in Slots, ExitStep(p)
    PROVE  TypeOK' /\ StatusInv'
<1>1. CASE ExitReparent(p)
  BY <1>1, SlotsFacts DEF ExitReparent, Goto, TypeOK, StatusInv
<1>2. CASE ExitZombie(p)
  <2>1. PICK s \in Status : xstate' = [xstate EXCEPT ![p] = <<s, 0>>]
                            /\ exited' = [exited EXCEPT ![p] = s]
    BY <1>2 DEF ExitZombie
  <2>2. state' = [Woken(parent[p]) EXCEPT ![p] = "ZOMBIE"]
        /\ pc' = [pc EXCEPT ![p] = "user"] /\ UNCHANGED <<parent, child, told, stopped>>
    BY <1>2 DEF ExitZombie, Goto
  <2>3. state' \in [Slots -> States]
        /\ \A c \in Slots : state'[c] = "ZOMBIE" => c = p \/ state[c] = "ZOMBIE"
    BY <2>2, WokenType DEF TypeOK, States
  <2>4. TypeOK'
    BY <2>1, <2>2, <2>3, StatusType DEF TypeOK, States
  <2>5. StatusInv'
    BY <2>1, <2>3, StatusType DEF TypeOK, StatusInv
  <2> QED
    BY <2>4, <2>5
<1> QED
  BY <1>1, <1>2 DEF ExitStep

LEMMA WaitTypes ==
    ASSUME TypeOK, StatusInv, NEW p \in Slots, WaitStep(p)
    PROVE  TypeOK' /\ StatusInv'
<1>1. ASSUME NEW copy \in Copies, WaitReaps(p, copy) PROVE TypeOK' /\ StatusInv'
  <2>1. PICK c \in Slots : Freeproc(c) /\ Tell(copy, xstate[c])
    BY <1>1 DEF WaitReaps, First, Dead, Children
  <2>2. TypeOK'
    BY <1>1, <2>1, StatusType DEF WaitReaps, Freeproc, Tell, Goto, TypeOK
  <2>3. StatusInv'
    BY <2>1 DEF Freeproc, TypeOK, StatusInv
  <2> QED
    BY <2>2, <2>3
<1>2. CASE WaitFails(p)
  BY <1>2 DEF WaitFails, Goto, TypeOK, StatusInv
<1>3. CASE WaitSleeps(p)
  BY <1>3 DEF WaitSleeps, Goto, TypeOK, StatusInv
<1>4. CASE WaitChildless(p)
  BY <1>4 DEF WaitChildless, TypeOK, StatusInv
<1> QED
  BY <1>1, <1>2, <1>3, <1>4 DEF WaitStep

LEMMA Wait4Types ==
    ASSUME TypeOK, StatusInv, NEW p \in Slots, Wait4Step(p)
    PROVE  TypeOK' /\ StatusInv'
<1>1. ASSUME NEW c \in Slots, Wait4Enter(p, c) PROVE TypeOK' /\ StatusInv'
  BY <1>1 DEF Wait4Enter, Goto, TypeOK, StatusInv
<1>2. PICK c \in Slots : c = child[p]
  BY DEF TypeOK
<1>3. Shifted(c) \in XStates
      /\ (Shifted(c)[1] = xstate[c][1] \/ Shifted(c) = <<0, Shifts>>)
  BY ShiftedType DEF TypeOK
<1>4. ASSUME NEW copy \in Copies, Wait4Reaps(p, copy) PROVE TypeOK' /\ StatusInv'
  <2>1. Freeproc(c) /\ Tell(copy, Shifted(c))
    BY <1>2, <1>4 DEF Wait4Reaps
  <2>2. TypeOK'
    BY <1>3, <1>4, <2>1, StatusType DEF Wait4Reaps, Freeproc, Tell, Goto, TypeOK
  <2>3. StatusInv'
    BY <2>1 DEF Freeproc, TypeOK, StatusInv
  <2> QED
    BY <2>2, <2>3
<1>5. ASSUME Shifted(c)[1] # xstate[c][1] PROVE Shifted(c) = <<0, Shifts>>
  BY <1>3, <1>5
<1>6. ASSUME xstate' = [xstate EXCEPT ![c] = Shifted(c)], UNCHANGED exited,
             \A d \in Slots : state'[d] = "ZOMBIE" => state[d] = "ZOMBIE"
      PROVE  StatusInv'
  <2>1. ASSUME xstate[c] = <<0, Shifts>> PROVE Shifted(c) = <<0, Shifts>>
    BY <2>1 DEF Shifted
  <2> QED
    BY <1>3, <1>6, <2>1 DEF TypeOK, StatusInv
<1>7. CASE Wait4Fails(p)
  <2>1. TypeOK'
    BY <1>2, <1>3, <1>7 DEF Wait4Fails, Goto, TypeOK
  <2> QED
    BY <1>2, <1>6, <1>7, <2>1 DEF Wait4Fails
<1>8. CASE Wait4Sleeps(p)
  <2>1. TypeOK'
    BY <1>2, <1>3, <1>8 DEF Wait4Sleeps, TypeOK
  <2>2. \A d \in Slots : state'[d] = "ZOMBIE" => state[d] = "ZOMBIE"
    BY <1>8 DEF Wait4Sleeps, TypeOK
  <2> QED
    BY <1>2, <1>6, <1>8, <2>1, <2>2 DEF Wait4Sleeps
<1> QED
  BY <1>1, <1>4, <1>7, <1>8 DEF Wait4Step

-----------------------------------------------------------------------------
(* The inductive invariant *)

IInv == TypeOK /\ StatusInv /\ Tree

LEMMA InitIInv == Init => IInv
<1> SUFFICES ASSUME Init PROVE IInv
  OBVIOUS
<1>1. TypeOK
  BY SlotsFacts, StatusType DEF Init, TypeOK
<1>2. StatusInv /\ NoWaiterForgotten
  BY DEF Init, StatusInv, NoWaiterForgotten
<1>3. TreeSound /\ PcInv /\ ForkInv
  BY SlotsFacts DEF Init, TreeSound, PcInv, ForkInv, Alive, Forking
<1> QED
  BY <1>1, <1>2, <1>3 DEF IInv, Tree

LEMMA TreeNext ==
    ASSUME IInv, "overlap" \notin Workload, Next PROVE Tree'
<1>0. Types /\ Tree
  BY DEF IInv, TypeOK, Types, States, Pcs
<1>1. ASSUME NEW p \in Slots, ForkStep(p) PROVE Tree'
  BY <1>0, <1>1, ForkAllocTree, ForkOverrunsTree, ForkFailsTree, ForkParentTree,
     ForkReadyTree DEF ForkStep
<1>2. ASSUME NEW p \in Slots, ExitStep(p) PROVE Tree'
  BY <1>0, <1>2, ExitReparentTree, ExitZombieTree DEF ExitStep
<1>3. ASSUME NEW p \in Slots, WaitStep(p) PROVE Tree'
  BY <1>0, <1>3, WaitReapsTree, WaitFailsTree, WaitSleepsTree, WaitChildlessTree
     DEF WaitStep
<1>4. ASSUME NEW p \in Slots, Wait4Step(p) PROVE Tree'
  BY <1>0, <1>4, Wait4EnterTree, Wait4ReapsTree, Wait4FailsTree, Wait4SleepsTree
     DEF Wait4Step
<1>5. ASSUME NEW z \in Slots, ZombieWakesInit(z) PROVE Tree'
  BY <1>0, <1>5, ZombieWakesInitTree
<1> QED
  BY <1>1, <1>2, <1>3, <1>4, <1>5 DEF Next

LEMMA TypesNext == ASSUME TypeOK, StatusInv, Next PROVE TypeOK' /\ StatusInv'
<1>1. ASSUME NEW z \in Slots, ZombieWakesInit(z) PROVE TypeOK' /\ StatusInv'
  <2>1. state' = Woken(initproc)
    BY <1>1 DEF ZombieWakesInit
  <2>2. state' \in [Slots -> States]
        /\ \A c \in Slots : state'[c] = "ZOMBIE" => state[c] = "ZOMBIE"
    BY <2>1, WokenType DEF TypeOK, States
  <2> QED
    BY <1>1, <2>2 DEF ZombieWakesInit, TypeOK, StatusInv, States
<1> QED
  BY <1>1, ForkTypes, ExitTypes, WaitTypes, Wait4Types DEF Next

LEMMA TypesUnchanged ==
    ASSUME TypeOK, StatusInv, UNCHANGED vars PROVE TypeOK' /\ StatusInv'
  BY DEF vars, TypeOK, StatusInv

LEMMA IInvHolds == ("overlap" \notin Workload /\ Spec) => []IInv
<1> SUFFICES ASSUME "overlap" \notin Workload PROVE Spec => []IInv
  OBVIOUS
<1>1. ASSUME IInv, [Next]_vars PROVE IInv'
  <2>1. CASE Next
    BY <1>1, <2>1, TreeNext, TypesNext DEF IInv
  <2>2. CASE UNCHANGED vars
    BY <1>1, <2>2 DEF vars, IInv, TypeOK, StatusInv, Tree, TreeSound, PcInv, ForkInv,
       NoWaiterForgotten, Alive, Forking, Dead, Children
  <2> QED
    BY <1>1, <2>1, <2>2
<1> QED
  BY <1>1, InitIInv, PTL DEF Spec

-----------------------------------------------------------------------------
(* What the module promises *)

\* Whatever the workload, fork, exit, wait, wait4 and the scheduler keep the fields
\* of procTable in their ranges: parent and `child` only ever name slots of the table.
THEOREM TypeCorrect == Spec => []TypeOK
<1>1. Init => TypeOK /\ StatusInv
  BY InitIInv DEF IInv
<1>2. TypeOK /\ StatusInv /\ [Next]_vars => (TypeOK /\ StatusInv)'
  BY TypesUnchanged, TypesNext
<1> QED
  BY <1>1, <1>2, PTL DEF Spec

\* As long as one fork has done with its slot before the next one starts, exit's
\* handing over of children, fork and freeproc keep every process but init in the
\* care of a living parent, for a table of any size.
THEOREM TreeIsSound == ("overlap" \notin Workload /\ Spec) => []TreeSound
  BY IInvHolds, PTL DEF IInv, Tree

\* Under the same condition a process that sleeps in wait or wait4 has no child to
\* reap: exit wakes the parent in the step that makes the zombie.
THEOREM WaitersAreWoken == ("overlap" \notin Workload /\ Spec) => []NoWaiterForgotten
  BY IInvHolds, PTL DEF IInv, Tree

\* wait and wait4 hand out the status their child passed to exit, or a status that
\* wait4's shifts have used up: it is never one left in the slot by another process.
THEOREM StatusDelivered == Spec => StatusIsTheChilds
<1> DEFINE Delivered == \A c \in Slots : state[c] = "ZOMBIE" /\ state'[c] = "UNUSED" =>
        told' = Nothing \/ told'[1] = exited[c] \/ told' = <<0, Shifts>>
<1>1. ASSUME TypeOK, StatusInv, [Next]_vars PROVE Delivered
  <2> SUFFICES ASSUME NEW c \in Slots, state[c] = "ZOMBIE", state'[c] = "UNUSED"
               PROVE  told' = Nothing \/ told'[1] = exited[c] \/ told' = <<0, Shifts>>
    OBVIOUS
  <2>1. ASSUME NEW d \in Slots, Freeproc(d) PROVE c = d
    BY <2>1 DEF Freeproc, TypeOK
  <2>2. ASSUME NEW p \in Slots, NEW copy \in Copies, WaitReaps(p, copy)
        PROVE  Tell(copy, xstate[c])
    BY <2>1, <2>2 DEF WaitReaps, First, Dead, Children
  <2>3. ASSUME NEW p \in Slots, NEW copy \in Copies, Wait4Reaps(p, copy)
        PROVE  Tell(copy, Shifted(c))
    <3>1. child[p] \in Slots /\ Freeproc(child[p]) /\ Tell(copy, Shifted(child[p]))
      BY <1>1, <2>3 DEF Wait4Reaps, TypeOK
    <3>2. c = child[p]
      BY <2>1, <3>1
    <3> QED
      BY <3>1, <3>2
  <2>4. \E copy \in Copies : Tell(copy, xstate[c]) \/ Tell(copy, Shifted(c))
    <3>1. ASSUME NEW p \in Slots PROVE ~ForkStep(p) /\ ~ExitStep(p)
      BY <1>1 DEF ForkStep, ExitStep, ForkAlloc, ForkOverruns, ForkFails, ForkParent,
         ForkReady, ExitReparent, ExitZombie, Woken, TypeOK
    <3>2. ASSUME NEW p \in Slots PROVE ~WaitFails(p) /\ ~WaitSleeps(p) /\ ~WaitChildless(p)
      BY <1>1 DEF WaitFails, WaitSleeps, WaitChildless, TypeOK
    <3>3. ASSUME NEW p \in Slots
          PROVE  /\ ~Wait4Fails(p) /\ ~Wait4Sleeps(p)
                 /\ \A d \in Slots : ~Wait4Enter(p, d)
      BY <1>1 DEF Wait4Fails, Wait4Sleeps, Wait4Enter, TypeOK
    <3>4. ASSUME NEW z \in Slots PROVE ~ZombieWakesInit(z)
      BY <1>1 DEF ZombieWakesInit, Woken, TypeOK
    <3>5. Next
      BY <1>1 DEF vars
    <3> QED
      BY <2>2, <2>3, <3>1, <3>2, <3>3, <3>4, <3>5 DEF Next, WaitStep, Wait4Step
  <2>5. Shifted(c)[1] = xstate[c][1] \/ Shifted(c) = <<0, Shifts>>
    BY <1>1, ShiftedType DEF TypeOK
  <2>6. xstate[c] = <<0, Shifts>> => Shifted(c) = <<0, Shifts>>
    BY DEF Shifted
  <2>7. xstate[c][1] = exited[c] \/ xstate[c] = <<0, Shifts>>
    BY <1>1 DEF StatusInv
  <2> QED
    BY <2>4, <2>5, <2>6, <2>7 DEF Tell
<1>2. Init => TypeOK /\ StatusInv
  BY InitIInv DEF IInv
<1>3. TypeOK /\ StatusInv /\ [Next]_vars => (TypeOK /\ StatusInv)'
  BY TypesUnchanged, TypesNext
<1>4. TypeOK /\ StatusInv /\ [Next]_vars => Delivered
  BY <1>1
<1> QED
  BY <1>2, <1>3, <1>4, PTL DEF Spec, StatusIsTheChilds
=============================================================================
