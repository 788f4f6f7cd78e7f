-------------------------------- MODULE Disk --------------------------------
(***************************************************************************)
(* The SD card on its way from a system call to the DMA controller:        *)
(* sdcard_read_sector and sdcard_write_sector (kern/driver/sdcard.cpp)     *)
(* under their sleep lock (kern/sync/sleeplock.cpp), the transfer by DMA   *)
(* (kern/driver/spi.c) and its end, which the process polls, sleeps for    *)
(* and is woken for by dmac_intr (kern/driver/dmac.cpp).                   *)
(*                                                                         *)
(* The processes run on hart 0, where a system call is interrupted         *)
(* wherever it holds no spin lock; the handler may run there or on hart 1. *)
(* The loops that poll the card for a byte are one step each.              *)
(*                                                                         *)
(* panic only spins, with interrupts on: who panics goes no further, and   *)
(* the others go on.                                                       *)
(***************************************************************************)
EXTENDS Integers, FiniteSets

CONSTANTS Procs, Sectors, Data, nobody

ASSUME DiskAssumption == nobody \notin Procs /\ Sectors # {} /\ Data # {}

VARIABLES
    locked,     \* sdcard_lock: the process that holds it, or nobody
    state,      \* "RUNNABLE" or, asleep, the channel: "slk" or "dmac"
    pc,         \* where each process is
    op, sector, data,   \* its call: "read" or "write"; for a read, data is its buffer
    cells,      \* the sectors of the card
    card,       \* what the card does: "idle", "data", "got" or "served"; "lost" when it was
                \* given a command too early
    by,         \* the process that gave it its command
    dma,        \* the process whose transfer the channel makes, or nobody
    irq,        \* the channel's interrupt is raised
    handler     \* dmac_intr: "idle", or "wakeup" when it has cleared irq

procVars == <<op, sector>>
vars == <<locked, state, pc, op, sector, data, cells, card, by, dma, irq, handler>>

Init ==
    /\ locked = nobody /\ by = nobody /\ dma = nobody
    /\ state = [p \in Procs |-> "RUNNABLE"]
    /\ pc = [p \in Procs |-> "user"]
    /\ op = [p \in Procs |-> "read"]
    /\ sector = [p \in Procs |-> CHOOSE s \in Sectors : TRUE]
    /\ data = [p \in Procs |-> CHOOSE d \in Data : TRUE]
    /\ cells \in [Sectors -> Data]
    /\ card = "idle" /\ irq = FALSE /\ handler = "idle"

Runs(p, label) == state[p] = "RUNNABLE" /\ pc[p] = label
Goto(p, label) == pc' = [pc EXCEPT ![p] = label]
Sleep(p, chan) == state' = [state EXCEPT ![p] = chan]
Wakeup(chan) == state' = [p \in Procs |-> IF state[p] = chan THEN "RUNNABLE" ELSE state[p]]

-----------------------------------------------------------------------------
(* sdcard_read_sector and sdcard_write_sector *)

\* for a read, data[p] is what the buffer held before
Call(p) ==
    /\ Runs(p, "user")
    /\ \E o \in {"read", "write"} : op' = [op EXCEPT ![p] = o]
    /\ \E s \in Sectors : sector' = [sector EXCEPT ![p] = s]
    /\ \E d \in Data : data' = [data EXCEPT ![p] = d]
    /\ Goto(p, "lock")
    /\ UNCHANGED <<locked, state, cells, card, by, dma, irq, handler>>

\* acquiresleep, which tests again after it has slept
AcquireSleep(p) ==
    /\ Runs(p, "lock") /\ locked = nobody
    /\ locked' = p
    /\ Goto(p, "command")
    /\ UNCHANGED <<state, procVars, data, cells, card, by, dma, irq, handler>>

\* Mutant: `if` for `while`: the lock is taken when the sleep is over
AcquireSleepWaitsOnce(p) ==
    /\ Runs(p, "lock") /\ locked # nobody
    /\ Sleep(p, "slk")
    /\ Goto(p, "command")
    /\ UNCHANGED <<locked, procVars, data, cells, card, by, dma, irq, handler>>

AcquireSleepWaits(p) ==
    /\ Runs(p, "lock") /\ locked # nobody
    /\ Sleep(p, "slk")
    /\ UNCHANGED <<locked, pc, procVars, data, cells, card, by, dma, irq, handler>>

\* A command, which a card that is not done with the last one is not ready for
TakesCommand(p) ==
    /\ by' = p
    /\ IF card = "idle" THEN card' \in {"idle", "data"} ELSE card' = "lost"

\* CMD17 or CMD24, the card's answer and the token before the data
SendCommand(p) ==
    /\ Runs(p, "command")
    /\ TakesCommand(p) /\ card' # "idle"
    /\ Goto(p, "transfer")
    /\ UNCHANGED <<locked, state, procVars, data, cells, dma, irq, handler>>

\* dmac_set_single_mode clears the channel's interrupt; the channel is idle
StartTransfer(p) ==
    /\ Runs(p, "transfer")
    /\ irq' = FALSE /\ dma' = p
    /\ Goto(p, "wait")
    /\ UNCHANGED <<locked, state, procVars, data, cells, card, by, handler>>

\* Mutant: the transfer is not waited for
TransferDoneUnwaited(p) ==
    /\ Runs(p, "wait")
    /\ Goto(p, "finish")
    /\ UNCHANGED <<locked, state, procVars, data, cells, card, by, dma, irq, handler>>

\* dmac_is_idle says yes: dmac_wait_idle's loop ends
TransferDone(p) ==
    /\ Runs(p, "wait") /\ dma = nobody
    /\ Goto(p, "finish")
    /\ UNCHANGED <<locked, state, procVars, data, cells, card, by, dma, irq, handler>>

\* it says no; the process goes on to acquire(&curproc()->lock)
TransferBusy(p) ==
    /\ Runs(p, "wait") /\ dma # nobody
    /\ Goto(p, "sleep")
    /\ UNCHANGED <<locked, state, procVars, data, cells, card, by, dma, irq, handler>>

\* sleep(dmac_chan); afterwards the loop tests again
TransferSleep(p) ==
    /\ Runs(p, "sleep")
    /\ Sleep(p, "dmac")
    /\ Goto(p, "wait")
    /\ UNCHANGED <<locked, procVars, data, cells, card, by, dma, irq, handler>>

\* the checksum and, for a write, the card's answer and the end of its programming
Finish(p) ==
    /\ Runs(p, "finish") /\ (op[p] = "write" => card \in {"served", "lost"})
    /\ card' = IF card = "lost" THEN "lost" ELSE "idle"
    /\ Goto(p, IF op[p] = "write" THEN "status" ELSE "unlock")
    /\ UNCHANGED <<locked, state, procVars, data, cells, by, dma, irq, handler>>

\* CMD13: the card says that it has written the sector
CheckStatus(p) ==
    /\ Runs(p, "status")
    /\ Goto(p, "unlock")
    /\ UNCHANGED <<locked, state, procVars, data, cells, card, by, dma, irq, handler>>

\* Mutant: nobody is woken
ReleaseSleepSilent(p) ==
    /\ Runs(p, "unlock")
    /\ locked' = nobody
    /\ Goto(p, "user")
    /\ UNCHANGED <<state, procVars, data, cells, card, by, dma, irq, handler>>

ReleaseSleep(p) ==
    /\ Runs(p, "unlock")
    /\ locked' = nobody
    /\ Wakeup("slk")
    /\ Goto(p, "user")
    /\ UNCHANGED <<procVars, data, cells, card, by, dma, irq, handler>>

\* releasesleep, and then panic
GivesUp(p) ==
    /\ locked' = nobody
    /\ Wakeup("slk")
    /\ Goto(p, "panicked")
    /\ UNCHANGED <<procVars, data, cells, dma, irq, handler>>

\* R1 is an error or does not come; the card may have taken the command
CommandFails(p) == Runs(p, "command") /\ TakesCommand(p) /\ GivesUp(p)

\* the token does not come, and panic is called with the lock held
TokenFails(p) ==
    /\ Runs(p, "command") /\ op[p] = "read"
    /\ TakesCommand(p)
    /\ Goto(p, "panicked")
    /\ UNCHANGED <<locked, state, procVars, data, cells, dma, irq, handler>>

\* A write is refused, or its answer or the end of its programming does not come in time.
WriteFails(p) ==
    /\ Runs(p, "finish") /\ op[p] = "write"
    /\ card' \in (CASE card = "got" -> {"idle", "got"} [] card = "lost" -> {"lost"}
                     [] OTHER -> {"idle"})
    /\ GivesUp(p)
    /\ UNCHANGED by

\* CMD13 says that something went wrong
StatusFails(p) == Runs(p, "status") /\ GivesUp(p) /\ UNCHANGED <<card, by>>

-----------------------------------------------------------------------------
(* The DMA controller, the card and dmac_intr *)

\* the channel is idle before its interrupt is taken
DmaEnds ==
    /\ dma # nobody /\ card # "lost"
    /\ IF op[dma] = "read"
       THEN card' = "served" /\ data' = [data EXCEPT ![dma] = cells[sector[dma]]]
       ELSE card' = "got" /\ UNCHANGED data
    /\ dma' = nobody /\ irq' = TRUE
    /\ UNCHANGED <<locked, state, pc, procVars, cells, by, handler>>

\* anything is read, anything is written anywhere
DmaEndsLost ==
    /\ dma # nobody /\ card = "lost"
    /\ \E d \in Data :
        IF op[dma] = "read" THEN data' = [data EXCEPT ![dma] = d] /\ UNCHANGED cells
        ELSE UNCHANGED data /\ \E s \in Sectors : cells' = [cells EXCEPT ![s] = d]
    /\ dma' = nobody /\ irq' = TRUE
    /\ UNCHANGED <<locked, state, pc, procVars, card, by, handler>>

\* A process that has panicked does not wait for it any more.
CardWrites ==
    /\ card = "got"
    /\ \E p \in Procs :
        /\ p = by
        /\ cells' = [cells EXCEPT ![sector[p]] = data[p]]
        /\ card' = IF pc[p] = "panicked" THEN "idle" ELSE "served"
    /\ UNCHANGED <<locked, state, pc, procVars, data, by, dma, irq, handler>>

IntrClear ==
    /\ handler = "idle" /\ irq
    /\ irq' = FALSE /\ handler' = "wakeup"
    /\ UNCHANGED <<locked, state, pc, procVars, data, cells, card, by, dma>>

IntrWakeup ==
    /\ handler = "wakeup"
    /\ Wakeup("dmac")
    /\ handler' = "idle"
    /\ UNCHANGED <<locked, pc, procVars, data, cells, card, by, dma, irq>>

-----------------------------------------------------------------------------
Sector(p) ==
    \/ AcquireSleep(p) \/ AcquireSleepWaits(p) \/ SendCommand(p) \/ StartTransfer(p)
    \/ TransferDone(p) \/ TransferBusy(p) \/ TransferSleep(p) \/ Finish(p)
    \/ CheckStatus(p) \/ ReleaseSleep(p)
Fails(p) == CommandFails(p) \/ TokenFails(p) \/ WriteFails(p) \/ StatusFails(p)
Device == DmaEnds \/ DmaEndsLost \/ CardWrites
Intr == IntrClear \/ IntrWakeup

Next == Device \/ Intr \/ \E p \in Procs : Call(p) \/ Sector(p) \/ Fails(p)

\* Every RUNNABLE process runs (Sched), transfers and programming end, and the
\* interrupt controller delivers.
Fairness == WF_vars(Device) /\ WF_vars(Intr) /\ \A p \in Procs : WF_vars(Sector(p))

Spec == Init /\ [][Next]_vars
FairSpec == Spec /\ Fairness

-----------------------------------------------------------------------------
TypeOK ==
    /\ {locked, by, dma} \subseteq Procs \cup {nobody}
    /\ state \in [Procs -> {"RUNNABLE", "slk", "dmac"}]
    /\ pc \in [Procs -> {"user", "lock", "command", "transfer", "wait", "sleep", "finish",
                         "status", "unlock", "panicked"}]
    /\ op \in [Procs -> {"read", "write"}]
    /\ sector \in [Procs -> Sectors] /\ data \in [Procs -> Data]
    /\ cells \in [Sectors -> Data]
    /\ card \in {"idle", "data", "got", "served", "lost"}
    /\ irq \in BOOLEAN /\ handler \in {"idle", "wakeup"}

\* sdcard.cpp:350, 396 "critical section": a command goes to a card that has done with the
\* one before, unless the process that gave it that one has panicked (:396-437 release the
\* lock of a card that may still be programming), and a transfer to a channel that has
\* done, whoever has panicked.
Sends(p) == pc[p] = "command" /\ pc'[p] # "command"
CommandsApart ==
    [][/\ \A p \in Procs : Sends(p) =>
            dma = nobody /\ (card \in {"idle", "lost"} \/ pc[by] = "panicked")
       /\ dma # nobody /\ dma' # nobody => dma' = dma]_vars

\* The whole path is a device of sectors (BlockDevice): a read returns what the last
\* write of its sector has put there, in some order that respects who returned first.
\* It ends when a command is given to a card that a panicked process has left at work.
Panicked(p) == pc[p] = "panicked"
Busy(p) == pc[p] \notin {"user", "lock", "command"}
Served(p) == Busy(p) /\ (pc[p] \in {"status", "unlock"} \/ card = "served")
Request(p) ==
    IF pc[p] = "user" THEN [op |-> "none"]
    ELSE IF Panicked(p) THEN [op |-> "failed"]
    ELSE IF Served(p) THEN [op |-> "answer", data |-> data[p]]
    ELSE IF op[p] = "read" THEN [op |-> "read", sector |-> sector[p]]
    ELSE [op |-> "write", sector |-> sector[p], data |-> data[p]]
Requests == [p \in Procs |-> Request(p)]
Late == {[op |-> "write", sector |-> sector[p], data |-> data[p]] :
            p \in {q \in Procs : q = by /\ card = "got" /\ Panicked(q)}}
Blocks == INSTANCE BlockDevice WITH
    blocks <- cells, request <- Requests, late <- Late, lost <- card = "lost"
ActsAsBlockDevice == Blocks!Spec

\* dmac_wait_idle reads the channel and sleeps in two steps: p sleeps although the
\* transfer is over and its interrupt has been handled.
Missed(p) == state[p] = "dmac" /\ dma = nobody /\ ~irq /\ handler = "idle"

\* acquiresleep, releasesleep, dmac_wait_idle and dmac_intr: who sleeps for the lock
\* is woken, also by one that panics, unless the holder has panicked with the lock
\* (sdcard.cpp:362) or has missed the end of its transfer: no other order of polls,
\* interrupts, stale interrupts, panics and sleeps stops the disk.
\* (The woken process may find the lock taken again: the sleep lock is not fair.)
LockWaitersWoken ==
    \A p \in Procs :
        state[p] = "slk" ~> \/ state[p] = "RUNNABLE"
                           \/ \E q \in Procs : Missed(q) \/ (Panicked(q) /\ locked = q)

=============================================================================
