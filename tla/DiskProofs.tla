----------------------------- MODULE DiskProofs -----------------------------
(***************************************************************************)
(* Proofs about the disk and the files on it: about Disk, for any set of   *)
(* processes, sectors and contents, its types, that commands stay apart,   *)
(* and that it implements BlockDevice; about Boot, that this starts on a   *)
(* board that is ready for it and that it all holds from power-on; about   *)
(* Fat, for any volume, that clusters are accounted for and that a read    *)
(* returns what the file has.                                              *)
(*                                                                         *)
(* Disk's rest on Stage, which ties the card and the DMA channel to the    *)
(* line of sdcard_read_sector or sdcard_write_sector that the holder of    *)
(* the sleep lock has reached, and on CardFree, what they do when nobody   *)
(* has it: nothing, or what a process that panicked has left.  Neither a   *)
(* wakeup nor an interrupt appears in them: the path is correct whenever   *)
(* they come, they only keep it moving.                                    *)
(* Boot's rest on what the pins read so far have (PinsGiven) and on what   *)
(* driver and card agree on after each command of sd_init (AgreedInv).     *)
(*                                                                         *)
(* Fat's rest on a layout: a sequence of clusters for each file, which the *)
(* code keeps nowhere and FatInv says there is.  CacheInv makes the table  *)
(* one thing, wherever its newest entries are; LinksInv says that the      *)
(* table leads along the layout, except in the chain that is being cut or  *)
(* has just grown; CutInv and ReadInv say where on its chain a call is,    *)
(* CutInv also for a driver that goes on one entry too far, and ReadInv    *)
(* that what has been returned is the file up to there.  A step leaves the *)
(* table alone (Quiet) or sets one entry of one chain (SetInChain); only   *)
(* Mark and Link change the layout.  That Chain, which follows the table,  *)
(* finds the layout (ChainIs) takes a recursion to its end: by the least   *)
(* step at which the two could differ (Climbs).                            *)
(***************************************************************************)
EXTENDS Boot, Fat, FiniteSetTheorems, SequenceTheorems, WellFoundedInduction, TLAPS

InLock(p) == pc[p] \notin {"user", "lock", "panicked"}

\* the card is done, given up or left at work by a process that has panicked
CardFree ==
    /\ dma = nobody
    /\ card \in {"idle", "lost"} \/ (by \in Procs /\ Panicked(by) /\ card \in {"data", "got"})

\* the transfer of p is over
Over(p) ==
    /\ dma = nobody
    /\ \/ card = "lost"
       \/ IF op[p] = "read" THEN card = "served" ELSE card \in {"got", "served"}

\* what card and dma are doing while p, the holder, is at its label
Stage(p) ==
    /\ pc[p] = "command" => CardFree
    /\ pc[p] \in {"status", "unlock"} => card \in {"idle", "lost"} /\ dma = nobody
    /\ pc[p] = "transfer" => card \in {"data", "lost"} /\ dma = nobody /\ by = p
    /\ pc[p] \in {"wait", "sleep"} =>
            by = p /\ ((card \in {"data", "lost"} /\ dma = p) \/ Over(p))
    /\ pc[p] = "finish" => by = p /\ Over(p)

Inv ==
    /\ TypeOK
    /\ \A p \in Procs : InLock(p) => locked = p
    /\ \A p \in Procs : locked = p => InLock(p) \/ Panicked(p)
    /\ (\A p \in Procs : ~InLock(p)) => CardFree
    /\ \A p \in Procs : InLock(p) => Stage(p)

LEMMA InitInv == Init => Inv
<1> SUFFICES ASSUME Init PROVE Inv
  OBVIOUS
<1>1. (CHOOSE s \in Sectors : TRUE) \in Sectors /\ (CHOOSE d \in Data : TRUE) \in Data
  BY DiskAssumption
<1>2. TypeOK
  BY <1>1 DEF Init, TypeOK
<1> QED
  BY <1>2, DiskAssumption DEF Init, Inv, InLock, CardFree

(* The steps that leave the holder where it is *)

LEMMA CallInv == ASSUME Inv, NEW p \in Procs, Call(p) PROVE Inv'
<1>1. PICK o \in {"read", "write"}, s \in Sectors, d \in Data :
        /\ op' = [op EXCEPT ![p] = o] /\ sector' = [sector EXCEPT ![p] = s]
        /\ data' = [data EXCEPT ![p] = d]
  BY DEF Call
<1>2. /\ pc[p] = "user" /\ pc' = [pc EXCEPT ![p] = "lock"]
      /\ UNCHANGED <<locked, state, cells, card, by, dma, irq, handler>>
  BY DEF Call, Runs, Goto
<1>3. TypeOK'
  BY <1>1, <1>2 DEF Inv, TypeOK
<1>4. ASSUME NEW q \in Procs
      PROVE  /\ InLock(q)' <=> InLock(q)
             /\ Panicked(q)' <=> Panicked(q)
             /\ InLock(q) => q # p
  BY <1>2 DEF Inv, TypeOK, InLock, Panicked
<1>5. CardFree' <=> CardFree
  BY <1>2, <1>4 DEF CardFree
<1>6. ASSUME NEW q \in Procs, InLock(q)' PROVE Stage(q)'
  <2>1. InLock(q) /\ Stage(q) /\ q # p
    BY <1>4, <1>6 DEF Inv
  <2>2. pc'[q] = pc[q] /\ op'[q] = op[q]
    BY <1>1, <1>2, <2>1 DEF Inv, TypeOK
  <2> QED
    BY <1>2, <1>5, <2>1, <2>2 DEF Stage, Over
<1> QED
  BY <1>2, <1>3, <1>4, <1>5, <1>6 DEF Inv

LEMMA SleepType ==
    ASSUME TypeOK, NEW p \in Procs, NEW chan \in {"slk", "dmac"}
    PROVE  /\ [state EXCEPT ![p] = chan] \in [Procs -> {"RUNNABLE", "slk", "dmac"}]
           /\ [q \in Procs |-> IF state[q] = chan THEN "RUNNABLE" ELSE state[q]]
                \in [Procs -> {"RUNNABLE", "slk", "dmac"}]
  BY DEF TypeOK

\* A step that changes no more than who sleeps and the interrupt keeps Inv.
LEMMA WakingInv ==
    ASSUME Inv, UNCHANGED <<locked, pc, op, sector, data, cells, card, by, dma>>,
           state' \in [Procs -> {"RUNNABLE", "slk", "dmac"}], irq' \in BOOLEAN,
           handler' \in {"idle", "wakeup"}
    PROVE  Inv'
<1>1. TypeOK'
  BY DEF Inv, TypeOK
<1> QED
  BY <1>1 DEF Inv, InLock, Panicked, CardFree, Stage, Over

LEMMA IntrInv == ASSUME Inv, Intr PROVE Inv'
<1>1. CASE IntrClear
  BY <1>1, WakingInv DEF IntrClear, procVars, Inv, TypeOK
<1>2. CASE IntrWakeup
  <2>1. state' \in [Procs -> {"RUNNABLE", "slk", "dmac"}]
    BY <1>2, SleepType DEF IntrWakeup, Wakeup, Inv
  <2> QED
    BY <1>2, <2>1, WakingInv DEF IntrWakeup, procVars, Inv, TypeOK
<1> QED
  BY <1>1, <1>2 DEF Intr

\* The holder is the only one in the locked lines; without one there the card is free.
LEMMA HolderOrFree ==
    ASSUME Inv
    PROVE  \/ CardFree /\ \A p \in Procs : ~InLock(p)
           \/ \E p \in Procs : /\ locked = p /\ InLock(p) /\ Stage(p)
                               /\ \A q \in Procs \ {p} : ~InLock(q)
<1>1. CASE \E p \in Procs : InLock(p)
  BY <1>1 DEF Inv
<1> QED
  BY <1>1 DEF Inv

\* The channel only ever works for the holder of the lock, who waits for it.
LEMMA DmaOwner ==
    ASSUME Inv, dma # nobody
    PROVE  /\ dma \in Procs /\ locked = dma /\ by = dma
           /\ pc[dma] \in {"wait", "sleep"} /\ card \in {"data", "lost"}
<1>1. PICK p \in Procs : locked = p /\ InLock(p) /\ Stage(p)
  BY HolderOrFree DEF CardFree
<1>2. pc[p] \in {"command", "transfer", "wait", "sleep", "finish", "status", "unlock"}
  BY <1>1 DEF InLock, Inv, TypeOK
<1>3. pc[p] \in {"wait", "sleep"} /\ dma = p /\ by = p /\ card \in {"data", "lost"}
  BY <1>1, <1>2 DEF Stage, Over, CardFree
<1> QED
  BY <1>1, <1>3

\* What is to be programmed is the holder's, who waits for that, or a panicked process's.
LEMMA GotBy ==
    ASSUME Inv, card = "got"
    PROVE  /\ by \in Procs /\ dma = nobody
           /\ \/ Panicked(by) /\ \A q \in Procs : pc[q] \in {"user", "lock", "command", "panicked"}
              \/ /\ locked = by /\ op[by] = "write" /\ pc[by] \in {"wait", "sleep", "finish"}
                 /\ \A q \in Procs \ {by} : ~InLock(q)
<1>1. CASE CardFree /\ \A p \in Procs : ~InLock(p)
  BY <1>1 DEF CardFree, InLock
<1>2. ASSUME NEW p \in Procs, locked = p, InLock(p), Stage(p),
             \A q \in Procs \ {p} : ~InLock(q)
      PROVE  /\ by \in Procs /\ dma = nobody
             /\ \/ /\ Panicked(by)
                   /\ \A q \in Procs : pc[q] \in {"user", "lock", "command", "panicked"}
                \/ /\ locked = by /\ op[by] = "write" /\ pc[by] \in {"wait", "sleep", "finish"}
                   /\ \A q \in Procs \ {by} : ~InLock(q)
  <2>1. pc[p] \in {"command", "transfer", "wait", "sleep", "finish", "status", "unlock"}
    BY <1>2 DEF InLock, Inv, TypeOK
  <2>2. CASE pc[p] = "command"
    BY <1>2, <2>2 DEF Stage, CardFree, InLock
  <2>3. CASE pc[p] # "command"
    <3>1. /\ pc[p] \in {"wait", "sleep", "finish"} /\ by = p /\ dma = nobody
          /\ op[p] # "read"
      BY <1>2, <2>1, <2>3 DEF Stage, Over
    <3>2. op[p] = "write"
      BY <3>1 DEF Inv, TypeOK
    <3> QED
      BY <1>2, <3>1, <3>2
  <2> QED
    BY <2>2, <2>3
<1> QED
  BY <1>1, <1>2, HolderOrFree

LEMMA DeviceInv == ASSUME Inv, Device PROVE Inv'
<1> USE DiskAssumption
<1>1. ASSUME NEW h \in Procs, locked = h, InLock(h), \A q \in Procs \ {h} : ~InLock(q),
             UNCHANGED <<locked, state, pc, op, sector, by, handler>>, TypeOK', Stage(h)'
      PROVE  Inv'
  BY <1>1 DEF Inv, InLock, Panicked
<1>2. CASE DmaEnds \/ DmaEndsLost
  <2>1. PICK h \in Procs : h = dma /\ locked = h /\ by = h /\ pc[h] \in {"wait", "sleep"}
    BY <1>2, DmaOwner DEF DmaEnds, DmaEndsLost
  <2>2. InLock(h) /\ \A q \in Procs \ {h} : ~InLock(q)
    BY <2>1 DEF Inv, InLock
  <2>3. UNCHANGED <<locked, state, pc, op, sector, by, handler>> /\ dma' = nobody /\ irq' = TRUE
    BY <1>2 DEF DmaEnds, DmaEndsLost, procVars
  <2>4. /\ data' \in [Procs -> Data] /\ cells' \in [Sectors -> Data]
        /\ card' \in {"idle", "data", "got", "served", "lost"}
        /\ card' = "lost" \/ (IF op[h] = "read" THEN card' = "served" ELSE card' = "got")
    <3>1. CASE DmaEnds
      BY <3>1, <2>1 DEF DmaEnds, Inv, TypeOK
    <3>2. CASE DmaEndsLost
      <4>1. PICK d \in Data :
              IF op[h] = "read" THEN data' = [data EXCEPT ![h] = d] /\ UNCHANGED cells
              ELSE UNCHANGED data /\ \E s \in Sectors : cells' = [cells EXCEPT ![s] = d]
        BY <2>1, <3>2 DEF DmaEndsLost
      <4>2. card' = "lost"
        BY <3>2 DEF DmaEndsLost
      <4> QED
        BY <4>1, <4>2, <2>1 DEF Inv, TypeOK
    <3> QED
      BY <1>2, <3>1, <3>2
  <2>5. TypeOK'
    BY <2>3, <2>4 DEF Inv, TypeOK
  <2>6. Stage(h)'
    BY <2>1, <2>3, <2>4 DEF Stage, Over
  <2> QED
    BY <1>1, <2>1, <2>2, <2>3, <2>5, <2>6
<1>3. CASE CardWrites
  <2>1. /\ card = "got" /\ cells' = [cells EXCEPT ![sector[by]] = data[by]]
        /\ card' = IF pc[by] = "panicked" THEN "idle" ELSE "served"
        /\ UNCHANGED <<locked, state, pc, op, sector, data, by, dma, irq, handler>>
    BY <1>3 DEF CardWrites, procVars
  <2>2. by \in Procs /\ dma = nobody
    BY <2>1, GotBy
  <2>3. TypeOK'
    BY <2>1, <2>2 DEF Inv, TypeOK
  <2>4. CASE Panicked(by)
    <3>1. \A q \in Procs : pc[q] \in {"user", "lock", "command", "panicked"}
      BY <2>1, <2>4, GotBy DEF Panicked
    <3>2. CardFree'
      BY <2>1, <2>2, <2>4 DEF CardFree, Panicked
    <3>3. \A q \in Procs : Stage(q)'
      BY <2>1, <3>1, <3>2 DEF Stage
    <3> QED
      BY <2>1, <2>3, <3>2, <3>3 DEF Inv, InLock, Panicked
  <2>5. CASE ~Panicked(by)
    <3>1. /\ locked = by /\ op[by] = "write" /\ pc[by] \in {"wait", "sleep", "finish"}
          /\ \A q \in Procs \ {by} : ~InLock(q)
      BY <2>1, <2>5, GotBy
    <3>2. Stage(by)'
      BY <2>1, <2>2, <2>5, <3>1 DEF Stage, Over, Panicked
    <3> QED
      BY <1>1, <2>1, <2>2, <2>3, <3>1, <3>2 DEF InLock
  <2> QED
    BY <2>4, <2>5
<1> QED
  BY <1>2, <1>3 DEF Device

(* The steps of a process in a call *)

\* on to another of the locked lines
LEMMA GoesOnInv ==
    ASSUME Inv, NEW p \in Procs, InLock(p),
           NEW to \in {"transfer", "wait", "sleep", "finish", "status", "unlock"},
           pc' = [pc EXCEPT ![p] = to], state' \in [Procs -> {"RUNNABLE", "slk", "dmac"}],
           UNCHANGED <<locked, op, sector, data, cells, handler>>,
           card' \in {"idle", "data", "got", "served", "lost"}, irq' \in BOOLEAN,
           dma' \in Procs \cup {nobody}, by' \in Procs \cup {nobody}, Stage(p) => Stage(p)'
    PROVE  Inv'
<1>1. locked = p /\ Stage(p)'
  BY DEF Inv
<1>2. TypeOK'
  BY DEF Inv, TypeOK
<1> QED
  BY <1>1, <1>2 DEF Inv, TypeOK, InLock, Panicked

\* out of them
LEMMA LeavesInv ==
    ASSUME Inv, NEW p \in Procs, InLock(p),
           \/ pc' = [pc EXCEPT ![p] = "user"] /\ locked' = nobody
           \/ pc' = [pc EXCEPT ![p] = "panicked"] /\ locked' \in {locked, nobody},
           state' \in [Procs -> {"RUNNABLE", "slk", "dmac"}],
           UNCHANGED <<op, sector, data, cells, dma, irq, handler>>,
           card' \in {"idle", "data", "got", "served", "lost"}, by' \in Procs \cup {nobody},
           CardFree'
    PROVE  Inv'
<1>1. locked = p /\ \A q \in Procs \ {p} : ~InLock(q)
  BY DEF Inv
<1>2. TypeOK'
  BY <1>1 DEF Inv, TypeOK
<1>3. \A q \in Procs : ~InLock(q)'
  BY <1>1 DEF InLock, Inv, TypeOK
<1>4. \A q \in Procs : locked' = q => Panicked(q)'
  BY <1>1, DiskAssumption DEF Panicked, Inv, TypeOK
<1> QED
  BY <1>2, <1>3, <1>4 DEF Inv

LEMMA SectorInv == ASSUME Inv, NEW p \in Procs, Sector(p) PROVE Inv'
<1> USE DiskAssumption
<1>1. CASE AcquireSleep(p)
  <2>1. /\ pc[p] = "lock" /\ locked = nobody /\ locked' = p
        /\ pc' = [pc EXCEPT ![p] = "command"]
        /\ UNCHANGED <<state, op, sector, data, cells, card, by, dma, irq, handler>>
    BY <1>1 DEF AcquireSleep, Runs, Goto, procVars
  <2>2. TypeOK'
    BY <2>1 DEF Inv, TypeOK
  <2>3. \A q \in Procs : ~InLock(q)
    BY <2>1 DEF Inv
  <2>4. CardFree'
    BY <2>1, <2>3 DEF Inv, TypeOK, CardFree, Panicked
  <2> QED
    BY <2>1, <2>2, <2>3, <2>4 DEF Inv, TypeOK, InLock, Panicked, Stage
<1>2. CASE AcquireSleepWaits(p)
  BY <1>2, SleepType, WakingInv DEF AcquireSleepWaits, Sleep, procVars, Inv, TypeOK
<1>3. CASE ReleaseSleep(p)
  <2>1. /\ pc[p] = "unlock" /\ locked' = nobody /\ pc' = [pc EXCEPT ![p] = "user"]
        /\ UNCHANGED <<op, sector, data, cells, card, by, dma, irq, handler>>
    BY <1>3 DEF ReleaseSleep, Runs, Goto, procVars
  <2>2. InLock(p) /\ card \in {"idle", "lost"} /\ dma = nobody
    BY <2>1 DEF Inv, InLock, Stage
  <2>3. state' \in [Procs -> {"RUNNABLE", "slk", "dmac"}]
    BY <1>3, SleepType DEF ReleaseSleep, Wakeup, Inv
  <2> QED
    BY <2>1, <2>2, <2>3, LeavesInv DEF Inv, TypeOK, CardFree
<1>5. CASE SendCommand(p)
  BY <1>5, GoesOnInv
  DEF SendCommand, TakesCommand, Runs, Goto, procVars, Stage, CardFree, InLock, Inv, TypeOK
<1>6. CASE StartTransfer(p)
  BY <1>6, GoesOnInv DEF StartTransfer, Runs, Goto, procVars, Stage, InLock, Inv, TypeOK
<1>7. CASE TransferDone(p)
  <2>1. /\ pc[p] = "wait" /\ dma = nobody
        /\ pc' = [pc EXCEPT ![p] = "finish"]
        /\ UNCHANGED <<locked, state, op, sector, data, cells, card, by, dma, irq, handler>>
    BY <1>7 DEF TransferDone, Runs, Goto, procVars
  <2>2. Stage(p) => Stage(p)'
    BY <2>1 DEF Stage, Over, Inv, TypeOK
  <2> QED
    BY <2>1, <2>2, GoesOnInv DEF InLock, Inv, TypeOK
<1>8. CASE TransferBusy(p)
  <2>1. /\ pc[p] = "wait" /\ dma # nobody
        /\ pc' = [pc EXCEPT ![p] = "sleep"]
        /\ UNCHANGED <<locked, state, op, sector, data, cells, card, by, dma, irq, handler>>
    BY <1>8 DEF TransferBusy, Runs, Goto, procVars
  <2>2. Stage(p) => Stage(p)'
    BY <2>1 DEF Stage, Over, Inv, TypeOK
  <2> QED
    BY <2>1, <2>2, GoesOnInv DEF InLock, Inv, TypeOK
<1>9. CASE TransferSleep(p)
  <2>1. /\ pc[p] = "sleep" /\ state' = [state EXCEPT ![p] = "dmac"]
        /\ pc' = [pc EXCEPT ![p] = "wait"]
        /\ UNCHANGED <<locked, op, sector, data, cells, card, by, dma, irq, handler>>
    BY <1>9 DEF TransferSleep, Runs, Goto, Sleep, procVars
  <2>2. Stage(p) => Stage(p)'
    BY <2>1 DEF Stage, Over, Inv, TypeOK
  <2>3. state' \in [Procs -> {"RUNNABLE", "slk", "dmac"}]
    BY <2>1, SleepType DEF Inv
  <2> QED
    BY <2>1, <2>2, <2>3, GoesOnInv DEF InLock, Inv, TypeOK
<1>10. CASE Finish(p)
  <2>1. /\ pc[p] = "finish" /\ card' = IF card = "lost" THEN "lost" ELSE "idle"
        /\ pc' = [pc EXCEPT ![p] = IF op[p] = "write" THEN "status" ELSE "unlock"]
        /\ UNCHANGED <<locked, state, op, sector, data, cells, by, dma, irq, handler>>
    BY <1>10 DEF Finish, Runs, Goto, procVars
  <2>2. Stage(p) => Stage(p)'
    BY <2>1 DEF Stage, Over, Inv, TypeOK
  <2> QED
    BY <2>1, <2>2, GoesOnInv DEF InLock, Inv, TypeOK
<1>11. CASE CheckStatus(p)
  BY <1>11, GoesOnInv DEF CheckStatus, Runs, Goto, procVars, Stage, InLock, Inv, TypeOK
<1> QED
  BY <1>1, <1>2, <1>3, <1>5, <1>6, <1>7, <1>8, <1>9, <1>10, <1>11 DEF Sector

\* What a failure leaves: the process has panicked, and the card is free or with it.
LEMMA FailsSteps ==
    ASSUME Inv, NEW p \in Procs, Fails(p)
    PROVE  /\ InLock(p) /\ locked = p /\ Stage(p)
           /\ pc' = [pc EXCEPT ![p] = "panicked"] /\ locked' \in {locked, nobody}
           /\ state' \in [Procs -> {"RUNNABLE", "slk", "dmac"}]
           /\ UNCHANGED <<op, sector, data, cells, dma, irq, handler>>
           /\ by' \in Procs \cup {nobody} /\ CardFree'
<1>1. /\ pc[p] \in {"command", "finish", "status"} /\ pc' = [pc EXCEPT ![p] = "panicked"]
      /\ locked' \in {locked, nobody}
      /\ UNCHANGED <<op, sector, data, cells, dma, irq, handler>>
      /\ by' \in Procs \cup {nobody}
  BY DEF Fails, CommandFails, TokenFails, WriteFails, StatusFails, GivesUp, TakesCommand,
     Runs, Goto, procVars, Inv, TypeOK
<1>2. InLock(p) /\ locked = p /\ Stage(p)
  BY <1>1 DEF InLock, Inv
<1>3. state' \in [Procs -> {"RUNNABLE", "slk", "dmac"}]
  BY SleepType DEF Fails, CommandFails, TokenFails, WriteFails, StatusFails, GivesUp, Wakeup,
     Inv, TypeOK
<1>4. dma' = nobody
  BY <1>1, <1>2 DEF Stage, Over, CardFree
<1>5. Panicked(p)'
  BY <1>1 DEF Panicked, Inv, TypeOK
<1>6. CASE CommandFails(p) \/ TokenFails(p)
  <2>1. by' = p /\ card' \in {"idle", "data", "lost"}
    BY <1>6 DEF CommandFails, TokenFails, TakesCommand
  <2> QED
    BY <1>1, <1>2, <1>3, <1>4, <1>5, <2>1 DEF CardFree, Panicked
<1>7. CASE WriteFails(p)
  <2>1. pc[p] = "finish" /\ by' = by /\ card' \in {"idle", "got", "lost"}
    BY <1>7 DEF WriteFails, Runs
  <2>2. by = p
    BY <1>2, <2>1 DEF Stage
  <2> QED
    BY <1>1, <1>2, <1>3, <1>4, <1>5, <2>1, <2>2 DEF CardFree, Panicked
<1>8. CASE StatusFails(p)
  <2>1. card' = card /\ card \in {"idle", "lost"}
    BY <1>2, <1>8 DEF StatusFails, Runs, Stage
  <2> QED
    BY <1>1, <1>2, <1>3, <1>4, <2>1 DEF CardFree
<1> QED
  BY <1>6, <1>7, <1>8 DEF Fails

LEMMA FailsInv == ASSUME Inv, NEW p \in Procs, Fails(p) PROVE Inv'
<1>1. card' \in {"idle", "data", "got", "served", "lost"}
  BY FailsSteps DEF CardFree
<1> QED
  BY <1>1, FailsSteps, LeavesInv

LEMMA NextInv == ASSUME Inv, [Next]_vars PROVE Inv'
<1>1. CASE UNCHANGED vars
  BY <1>1, WakingInv DEF vars, procVars, Inv, TypeOK
<1> QED
  BY <1>1, CallInv, SectorInv, FailsInv, DeviceInv, IntrInv DEF Next

LEMMA Invariance == Spec => []Inv
  BY InitInv, NextInv, PTL DEF Spec

-----------------------------------------------------------------------------
(* Commands stay apart *)

LEMMA ApartNext ==
    ASSUME Inv, [Next]_vars
    PROVE  /\ \A p \in Procs : Sends(p) =>
                dma = nobody /\ (card \in {"idle", "lost"} \/ pc[by] = "panicked")
           /\ dma # nobody /\ dma' # nobody => dma' = dma
<1>1. ASSUME NEW p \in Procs, Sends(p)
      PROVE  dma = nobody /\ (card \in {"idle", "lost"} \/ pc[by] = "panicked")
  BY <1>1 DEF Sends, Inv, InLock, Stage, CardFree, Panicked
<1>2. ASSUME NEW p \in Procs, StartTransfer(p) PROVE dma = nobody
  BY <1>2 DEF StartTransfer, Runs, Inv, InLock, Stage
<1>3. ASSUME NEW p \in Procs, Sector(p), ~StartTransfer(p) PROVE dma' = dma
  BY <1>3 DEF Sector, AcquireSleep, AcquireSleepWaits, SendCommand, TransferDone,
     TransferBusy, TransferSleep, Finish, CheckStatus, ReleaseSleep
<1>4. ASSUME Device PROVE dma' = nobody \/ dma' = dma
  BY <1>4 DEF Device, DmaEnds, DmaEndsLost, CardWrites
<1>5. ASSUME Intr \/ UNCHANGED vars \/ \E p \in Procs : Call(p) \/ Fails(p)
      PROVE  dma' = dma
  BY <1>5 DEF Intr, IntrClear, IntrWakeup, Call, Fails, CommandFails, TokenFails, WriteFails,
     StatusFails, GivesUp, vars
<1> QED
  BY <1>1, <1>2, <1>3, <1>4, <1>5 DEF Next

\* sdcard_read_sector, sdcard_write_sector: a command goes to a card that has done with
\* the last or was left at work by a process that panicked, and no transfer replaces another.
THEOREM CommandsStayApart == Spec => CommandsApart
  BY Invariance, ApartNext, PTL DEF Spec, CommandsApart

-----------------------------------------------------------------------------
(* The refinement *)

\* What a step may do to what p has asked for, given what it does to Request(p).
LEMMA OneRequest ==
    ASSUME NEW p \in Procs, \A q \in Procs \ {p} : Request(q)' = Request(q)
    PROVE  Requests' = [Requests EXCEPT ![p] = Request(p)'] /\ Requests[p] = Request(p)
  BY DEF Requests

LEMMA SameRequests ==
    ASSUME \A p \in Procs : Request(p)' = Request(p) PROVE Requests' = Requests
  BY DEF Requests

\* Nobody outside the locked lines is served.
LEMMA Unserved ==
    ASSUME TypeOK, NEW p \in Procs, ~InLock(p), ~Panicked(p) PROVE ~Served(p)
  BY DEF InLock, Panicked, Served, Busy

\* Who is where it was and outside the locked lines has asked for what it had.
LEMMA OthersRequest ==
    ASSUME TypeOK, NEW q \in Procs, ~InLock(q), pc'[q] = pc[q], op'[q] = op[q],
           sector'[q] = sector[q], data'[q] = data[q]
    PROVE  Request(q)' = Request(q)
<1>1. CASE Panicked(q)
  BY <1>1 DEF Request, Panicked
<1>2. CASE ~Panicked(q)
  <2>1. ~Served(q) /\ ~Served(q)'
    BY <1>2 DEF InLock, Panicked, Served, Busy
  <2> QED
    BY <2>1 DEF Request, Panicked
<1> QED
  BY <1>1, <1>2

\* Only a panicked process's write is late.
LEMMA NotLate == ASSUME card # "got" \/ by \notin Procs \/ ~Panicked(by) PROVE Late = {}
  BY DEF Late

LEMMA CallAsks ==
    ASSUME Inv, NEW p \in Procs, Call(p) PROVE Blocks!Ask(p)
<1>1. PICK o \in {"read", "write"}, s \in Sectors, d \in Data :
        /\ op' = [op EXCEPT ![p] = o] /\ sector' = [sector EXCEPT ![p] = s]
        /\ data' = [data EXCEPT ![p] = d]
  BY DEF Call
<1>2. /\ pc[p] = "user" /\ pc' = [pc EXCEPT ![p] = "lock"]
      /\ UNCHANGED <<cells, card, by>>
  BY DEF Call, Runs, Goto
<1>3. /\ Request(p) = [op |-> "none"]
      /\ Request(p)' = IF o = "read" THEN [op |-> "read", sector |-> s]
                       ELSE [op |-> "write", sector |-> s, data |-> d]
  BY <1>1, <1>2 DEF Request, Served, Busy, Panicked, Inv, TypeOK
<1>4. \A q \in Procs \ {p} : Request(q)' = Request(q)
  BY <1>1, <1>2 DEF Request, Served, Busy, Panicked, Inv, TypeOK
<1>5. Request(p)' \in Blocks!Reads \cup Blocks!Writes
  BY <1>3 DEF Blocks!Reads, Blocks!Writes
<1>6. Late' = Late
  <2>1. \A q \in Procs : Panicked(q)' = Panicked(q) /\ (Panicked(q) => q # p)
    BY <1>2 DEF Panicked, Inv, TypeOK
  <2>2. \A q \in Procs \ {p} : sector'[q] = sector[q] /\ data'[q] = data[q]
    BY <1>1 DEF Inv, TypeOK
  <2> QED
    BY <1>2, <2>1, <2>2 DEF Late
<1> QED
  BY <1>2, <1>3, <1>4, <1>5, <1>6, OneRequest DEF Blocks!Ask, Blocks!None

LEMMA ReleaseReturns ==
    ASSUME Inv, NEW p \in Procs, ReleaseSleep(p) PROVE Blocks!Return(p)
<1>1. /\ pc[p] = "unlock" /\ pc' = [pc EXCEPT ![p] = "user"]
      /\ UNCHANGED <<op, sector, data, cells, card, by>>
  BY DEF ReleaseSleep, Runs, Goto, procVars
<1>2. Request(p) = [op |-> "answer", data |-> data[p]] /\ Request(p)' = [op |-> "none"]
  BY <1>1 DEF Request, Served, Busy, Panicked, Inv, TypeOK
<1>3. \A q \in Procs \ {p} : Request(q)' = Request(q)
  BY <1>1 DEF Request, Served, Busy, Panicked, Inv, TypeOK
<1>4. card # "got" /\ card' # "got"
  BY <1>1 DEF Inv, InLock, Stage
<1>5. Late' = Late
  BY <1>4 DEF Late
<1> QED
  BY <1>1, <1>2, <1>3, <1>5, OneRequest DEF Blocks!Return, Blocks!None

LEMMA SectorStutters ==
    ASSUME Inv, NEW p \in Procs, Sector(p), ~ReleaseSleep(p), card' # "lost"
    PROVE  UNCHANGED <<cells, Requests, Late>>
<1>1. UNCHANGED <<op, sector, data, cells>>
  BY DEF Sector, AcquireSleep, AcquireSleepWaits, SendCommand, StartTransfer, TransferDone,
     TransferBusy, TransferSleep, Finish, CheckStatus, procVars
<1>2. \A q \in Procs \ {p} : pc'[q] = pc[q]
  BY DEF Sector, AcquireSleep, AcquireSleepWaits, SendCommand, StartTransfer, TransferDone,
     TransferBusy, TransferSleep, Finish, CheckStatus, Goto, Inv, TypeOK
<1>3. CASE pc[p] = "lock"
  <2>1. pc'[p] \in {"lock", "command"} /\ UNCHANGED <<card, by>>
    BY <1>3 DEF Sector, AcquireSleep, AcquireSleepWaits, SendCommand, StartTransfer,
       TransferDone, TransferBusy, TransferSleep, Finish, CheckStatus, Runs, Goto, Inv,
       TypeOK
  <2>2. \A q \in Procs : Request(q)' = Request(q)
    BY <1>1, <1>2, <1>3, <2>1 DEF Request, Panicked, Served, Busy
  <2>3. \A q \in Procs : Panicked(q)' = Panicked(q)
    BY <1>2, <1>3, <2>1 DEF Panicked
  <2>4. Late' = Late
    BY <1>1, <2>1, <2>3 DEF Late
  <2> QED
    BY <1>1, <2>2, <2>4, SameRequests
<1>4. CASE InLock(p)
  <2>1. Stage(p) /\ Inv' /\ locked = p /\ \A q \in Procs \ {p} : ~InLock(q)
    BY <1>4, SectorInv DEF Inv
  <2>2. \A q \in Procs \ {p} : Request(q)' = Request(q)
    BY <1>1, <1>2, <2>1, OthersRequest DEF Inv
  <2>3. /\ pc'[p] \notin {"user", "panicked"} /\ (Served(p) <=> Served(p)')
        /\ card = "got" => by = by' /\ (by = p \/ card' = "got")
        /\ card' = "got" => card = "got"
    BY <1>4, <2>1 DEF Sector, AcquireSleep, AcquireSleepWaits, SendCommand, TakesCommand,
       StartTransfer, TransferDone, TransferBusy, TransferSleep, Finish, CheckStatus, Runs,
       Goto, Inv, TypeOK, InLock, Stage, Over, Served, Busy
  <2>4. Request(p)' = Request(p)
    BY <1>1, <1>4, <2>3 DEF Request, Panicked, InLock
  <2>5. \A q \in Procs : Panicked(q)' = Panicked(q)
    BY <1>2, <1>4, <2>3 DEF Panicked, InLock
  <2>6. Late' = Late
    BY <1>1, <1>4, <2>3, <2>5 DEF Late, InLock, Panicked
  <2> QED
    BY <1>1, <2>2, <2>4, <2>6, SameRequests
<1>5. pc[p] \notin {"user", "panicked"}
  BY DEF Sector, AcquireSleep, AcquireSleepWaits, SendCommand, StartTransfer,
     TransferDone, TransferBusy, TransferSleep, Finish, CheckStatus, Runs
<1> QED
  BY <1>3, <1>4, <1>5 DEF InLock

LEMMA FailsFail ==
    ASSUME Inv, NEW p \in Procs, Fails(p), card' # "lost" PROVE Blocks!Fail(p)
<1>1. /\ InLock(p) /\ locked = p /\ Stage(p)
      /\ pc' = [pc EXCEPT ![p] = "panicked"]
      /\ UNCHANGED <<op, sector, data, cells>>
  BY FailsSteps
<1>2. Request(p)' = [op |-> "failed"]
  BY <1>1 DEF Request, Panicked, Inv, TypeOK
<1>3. \A q \in Procs \ {p} : Request(q)' = Request(q)
  <2>1. \A q \in Procs \ {p} : ~InLock(q) /\ pc'[q] = pc[q]
    BY <1>1 DEF Inv, TypeOK
  <2> QED
    BY <1>1, <2>1, OthersRequest DEF Inv
<1>4. Request(p) \in Blocks!Reads \cup Blocks!Writes \cup Blocks!Answers
  BY <1>1 DEF Request, InLock, Panicked, Inv, TypeOK, Blocks!Reads, Blocks!Writes,
     Blocks!Answers
<1>5. Late' \in {Late, Late \cup ({Request(p)} \cap Blocks!Writes)}
  <2>1. CASE card' # "got"
    <3>1. card # "got" \/ by = p
      BY <1>1, <2>1 DEF Fails, CommandFails, TokenFails, WriteFails, StatusFails, TakesCommand,
         Runs, Stage
    <3>2. Late = {} /\ Late' = {}
      BY <1>1, <2>1, <3>1 DEF Late, InLock, Panicked
    <3> QED
      BY <3>2
  <2>2. CASE card' = "got"
    <3>1. WriteFails(p) /\ card = "got" /\ by' = by /\ by = p /\ op[p] = "write"
          /\ pc[p] = "finish"
      BY <1>1, <2>2 DEF Fails, CommandFails, TokenFails, WriteFails, StatusFails, TakesCommand,
         Runs, Stage
    <3>2. Late = {}
      BY <1>1, <3>1 DEF Late, InLock, Panicked
    <3>3. Request(p) = [op |-> "write", sector |-> sector[p], data |-> data[p]]
      BY <3>1 DEF Request, Panicked, Served
    <3>4. Panicked(p)'
      BY <1>1 DEF Panicked, Inv, TypeOK
    <3>5. Late' = {Request(p)}
      BY <1>1, <2>2, <3>1, <3>3, <3>4 DEF Late
    <3>6. Request(p) \in Blocks!Writes
      BY <3>3 DEF Blocks!Writes, Inv, TypeOK
    <3> QED
      BY <3>2, <3>5, <3>6
  <2> QED
    BY <2>1, <2>2
<1>6. Requests[p] = Request(p) /\ Requests' = [Requests EXCEPT ![p] = Request(p)']
  BY <1>3, OneRequest
<1> QED
  BY <1>1, <1>2, <1>4, <1>5, <1>6 DEF Blocks!Fail, Blocks!Failed

LEMMA DmaServesReads ==
    ASSUME Inv, DmaEnds
    PROVE  (\E p \in Procs : Blocks!Read(p)) \/ UNCHANGED <<cells, Requests, Late>>
<1>0. PICK p \in Procs : p = dma
  BY DmaOwner DEF DmaEnds
<1>1. /\ locked = p /\ by = p /\ pc[p] \in {"wait", "sleep"} /\ card = "data"
      /\ \A q \in Procs \ {p} : ~InLock(q)
  BY <1>0, DmaOwner DEF DmaEnds, Inv
<1>2. UNCHANGED <<pc, op, sector, cells, by>>
  BY DEF DmaEnds, procVars
<1>3. ~Served(p) /\ ~Panicked(p) /\ ~Panicked(p)'
  BY <1>1, <1>2 DEF Served, Busy, Panicked
<1>4. Late = {} /\ Late' = {}
  BY <1>1, <1>2, <1>3 DEF Late
<1>5. CASE op[p] = "read"
  <2>1. card' = "served" /\ data' = [data EXCEPT ![p] = cells[sector[p]]]
    BY <1>0, <1>5 DEF DmaEnds
  <2>2. /\ Request(p) = [op |-> "read", sector |-> sector[p]]
        /\ Request(p)' = [op |-> "answer", data |-> cells[sector[p]]]
    BY <1>1, <1>2, <1>3, <1>5, <2>1 DEF Request, Served, Busy, Inv, TypeOK
  <2>3. \A q \in Procs \ {p} : data'[q] = data[q]
    BY <2>1 DEF Inv, TypeOK
  <2>4. \A q \in Procs \ {p} : Request(q)' = Request(q)
    BY <1>1, <1>2, <2>3, OthersRequest DEF Inv
  <2>5. Request(p) \in Blocks!Reads
    BY <1>1, <2>2 DEF Blocks!Reads, Inv, TypeOK
  <2>6. Blocks!Read(p)
    BY <1>2, <1>4, <2>2, <2>4, <2>5, OneRequest DEF Blocks!Read, Blocks!Answer
  <2> QED
    BY <2>6
<1>6. CASE op[p] # "read"
  <2>1. card' = "got" /\ data' = data
    BY <1>0, <1>6 DEF DmaEnds
  <2>2. Request(p)' = Request(p)
    BY <1>1, <1>2, <1>3, <2>1 DEF Request, Served, Busy
  <2>3. \A q \in Procs \ {p} : Request(q)' = Request(q)
    BY <1>1, <1>2, <2>1, OthersRequest DEF Inv
  <2> QED
    BY <1>2, <1>4, <2>2, <2>3, SameRequests
<1> QED
  BY <1>5, <1>6

LEMMA CardServesWrites ==
    ASSUME Inv, CardWrites PROVE Blocks!WriteLate \/ \E p \in Procs : Blocks!Write(p)
<1>1. PICK p \in Procs :
        /\ p = by /\ cells' = [cells EXCEPT ![sector[p]] = data[p]]
        /\ card' = IF pc[p] = "panicked" THEN "idle" ELSE "served"
  BY DEF CardWrites
<1>2. card = "got" /\ UNCHANGED <<pc, op, sector, data, by>>
  BY DEF CardWrites, procVars
<1>3. Late' = {}
  BY <1>1 DEF Late
<1>4. CASE Panicked(p)
  <2>1. \A q \in Procs : pc[q] \in {"user", "lock", "command", "panicked"}
    BY <1>1, <1>2, <1>4, GotBy DEF Panicked
  <2>2. \A q \in Procs : Request(q)' = Request(q)
    BY <1>2, <2>1 DEF Request, Panicked, Served, Busy
  <2>3. Late = {[op |-> "write", sector |-> sector[p], data |-> data[p]]}
    BY <1>1, <1>2, <1>4 DEF Late
  <2> DEFINE w == [op |-> "write", sector |-> sector[p], data |-> data[p]]
  <2>4. w \in Late /\ Late' = Late \ {w} /\ w.sector = sector[p] /\ w.data = data[p]
    BY <1>3, <2>3
  <2> QED
    BY <1>1, <2>2, <2>4, SameRequests DEF Blocks!WriteLate, Blocks!Put
<1>5. CASE ~Panicked(p)
  <2>1. /\ op[p] = "write" /\ pc[p] \in {"wait", "sleep", "finish"}
        /\ \A q \in Procs \ {p} : ~InLock(q)
    BY <1>1, <1>2, <1>5, GotBy
  <2>2. card' = "served" /\ ~Served(p) /\ Served(p)'
    BY <1>1, <1>2, <1>5, <2>1 DEF Served, Busy, Panicked
  <2>3. /\ Request(p) = [op |-> "write", sector |-> sector[p], data |-> data[p]]
        /\ Request(p)' = [op |-> "answer", data |-> data[p]]
    BY <1>2, <1>5, <2>1, <2>2 DEF Request, Panicked
  <2>4. \A q \in Procs \ {p} : Request(q)' = Request(q)
    BY <1>2, <2>1, OthersRequest DEF Inv
  <2>5. Request(p) \in Blocks!Writes
    BY <2>3 DEF Blocks!Writes, Inv, TypeOK
  <2>6. Requests[p] = Request(p) /\ Requests' = [Requests EXCEPT ![p] = Request(p)']
    BY <2>4, OneRequest
  <2>7. Late = {}
    BY <1>1, <1>5 DEF Late
  <2>8. Requests[p].sector = sector[p] /\ Requests[p].data = data[p]
    BY <2>3, <2>6
  <2>9. Blocks!Write(p)
    BY <1>1, <1>3, <2>3, <2>5, <2>6, <2>7, <2>8
    DEF Blocks!Write, Blocks!Put, Blocks!Answer
  <2> QED
    BY <2>9
<1> QED
  BY <1>4, <1>5

\* A card gets lost by a command that comes when a panicked process has left it at work,
\* and then stays lost.
LEMMA LostSteps ==
    ASSUME Inv, [Next]_vars
    PROVE  /\ card = "lost" => card' = "lost"
           /\ card # "lost" /\ card' = "lost" => \E p \in Procs : Panicked(p)
<1>1. ASSUME Intr \/ UNCHANGED vars \/ \E p \in Procs : Call(p) PROVE card' = card
  BY <1>1 DEF Intr, IntrClear, IntrWakeup, Call, vars
<1>2. ASSUME Device PROVE card' = "lost" <=> card = "lost"
  BY <1>2 DEF Device, DmaEnds, DmaEndsLost, CardWrites
<1>3. ASSUME NEW p \in Procs, Sector(p) \/ Fails(p)
      PROVE  \/ card' = "lost" <=> card = "lost"
             \/ pc[p] = "command" /\ card # "idle" /\ card' = "lost"
  BY <1>3 DEF Sector, AcquireSleep, AcquireSleepWaits, SendCommand, StartTransfer,
     TransferDone, TransferBusy, TransferSleep, Finish, CheckStatus, ReleaseSleep, Fails,
     CommandFails, TokenFails, WriteFails, StatusFails, TakesCommand, Runs
<1>4. ASSUME NEW p \in Procs, pc[p] = "command", card \notin {"idle", "lost"}
      PROVE  \E q \in Procs : Panicked(q)
  BY <1>4 DEF Inv, InLock, Stage, CardFree
<1> QED
  BY <1>1, <1>2, <1>3, <1>4 DEF Next

LEMMA StepRefines ==
    ASSUME Inv, [Next]_vars
    PROVE  [Blocks!Next]_<<cells, Requests, Late, card = "lost">>
<1>1. CASE card = "lost"
  BY <1>1, LostSteps DEF Blocks!Next, Blocks!GetLost
<1>2. CASE card # "lost" /\ card' = "lost"
  <2>1. PICK p \in Procs : Panicked(p)
    BY <1>2, LostSteps
  <2>2. Requests[p] = [op |-> "failed"]
    BY <2>1 DEF Requests, Request, Panicked
  <2> QED
    BY <1>2, <2>2 DEF Blocks!Next, Blocks!GetLost, Blocks!Failed
<1>3. CASE card # "lost" /\ card' # "lost"
  <2>1. ASSUME Intr \/ UNCHANGED vars PROVE UNCHANGED <<cells, Requests, Late>>
    <3>1. UNCHANGED <<pc, op, sector, data, cells, card, by>>
      BY <2>1 DEF Intr, IntrClear, IntrWakeup, vars, procVars
    <3>2. \A p \in Procs : Request(p)' = Request(p)
      BY <3>1 DEF Request, Served, Busy, Panicked
    <3>3. Late' = Late
      BY <3>1 DEF Late, Panicked
    <3> QED
      BY <3>1, <3>2, <3>3, SameRequests
  <2>2. ASSUME Device PROVE Blocks!Next \/ UNCHANGED <<cells, Requests, Late>>
    BY <1>3, <2>2, DmaServesReads, CardServesWrites DEF Device, DmaEndsLost, Blocks!Next
  <2>3. ASSUME NEW p \in Procs, Call(p) \/ Sector(p) \/ Fails(p)
        PROVE  Blocks!Next \/ UNCHANGED <<cells, Requests, Late>>
    BY <1>3, <2>3, CallAsks, ReleaseReturns, SectorStutters, FailsFail DEF Blocks!Next
  <2> QED
    BY <1>3, <2>1, <2>2, <2>3 DEF Next
<1> QED
  BY <1>1, <1>2, <1>3

\* sdcard_read_sector and sdcard_write_sector, whatever processes, sectors, contents,
\* interrupts and failures there are: the disk path is a device of atomic sectors, where a
\* read takes effect when its transfer ends and a write when the card programs the sector,
\* until a card that a panicked process has left at work is given a command.
THEOREM DiskIsBlockDevice == Spec => ActsAsBlockDevice
<1>1. Init => Blocks!Init
  BY DEF Init, Blocks!Init, Requests, Request, Blocks!None, Late
<1>2. Inv /\ [Next]_vars => [Blocks!Next]_<<cells, Requests, Late, card = "lost">>
  BY StepRefines
<1> QED
  BY <1>1, <1>2, Invariance, PTL DEF Spec, ActsAsBlockDevice, Blocks!Spec

\* Whatever the card and the interrupts do, the sleep lock, the channel and every call
\* stay in their ranges.
THEOREM DiskTypes == Spec => []TypeOK
<1>1. Inv => TypeOK
  BY DEF Inv
<1> QED
  BY <1>1, Invariance, PTL

-----------------------------------------------------------------------------
(* From power on: main makes the board ready, then the processes run *)

\* The pins fpioa_pin_init touches and the functions it gives them
LEMMA WiringIs ==
    /\ Len(Wiring) = 5 /\ DOMAIN Wiring = 1..5
    /\ \A i \in 1..5 : Wiring[i][1] \in Pin /\ Wiring[i][2] \in Function \ {FUNC_RESV0}
    /\ \A i, j \in 1..5 : i # j => Wiring[i][1] # Wiring[j][1] /\ Wiring[i][2] # Wiring[j][2]
  BY SMT DEF Wiring, Pin, Function, FUNC_MAX, FUNC_SPI0_D0, FUNC_SPI0_D1, FUNC_SPI0_SS3,
     FUNC_SPI0_SCLK, FUNC_GPIOHS0, FUNC_RESV0

LEMMA FirmwareIs ==
    \A n \in DOMAIN Firmware :
        /\ n \in Pin /\ Firmware[n] \in Function
        /\ \A i \in 1..5 : Wiring[i][1] # n /\ Wiring[i][2] # Firmware[n]
  BY SMT DEF Firmware, Wiring, Pin, Function, FUNC_MAX, FUNC_SPI0_D0, FUNC_SPI0_D1,
     FUNC_SPI0_SS3, FUNC_SPI0_SCLK, FUNC_GPIOHS0, FUNC_RESV0

Registers == [Pin -> [ch_sel : Function, pulls : SUBSET {"pu", "pd"}]]

Cards ==
    [kind : Kinds, mode : {"sd", "idle", "ready"}, app : BOOLEAN, block : {512, 1024},
     slow : Int]

BootType ==
    /\ io \in Registers
    /\ given \in 0..5 /\ (step = "fpioa_pin_init" => given < 5)
    /\ sd \in Cards

\* what driver and card have agreed on
AgreedInv ==
    /\ sd.kind = "SDHC" => sd.block = 512
    /\ step = "CMD16" => sd.kind # "SDHC"
    /\ step = "scheduler" => (is_standard_sd <=> sd.kind # "SDHC") /\ sd.block = 512

BootInv == BootType /\ PinsGiven /\ AgreedInv

LEMMA RawRegister ==
    ASSUME NEW f \in Function
    PROVE  /\ fpioa_set_function_raw(f) \in [ch_sel : Function, pulls : SUBSET {"pu", "pd"}]
           /\ fpioa_set_function_raw(f).ch_sel = f
  BY DEF fpioa_set_function_raw

LEMMA BootInitInv == BootInit => BootInv
<1> SUFFICES ASSUME BootInit PROVE BootInv
  OBVIOUS
<1>0. /\ sd \in [kind : Kinds, mode : {"sd"}, app : {FALSE}, block : {512, 1024},
                 slow : 0..MaxSlow]
      /\ sd.kind = "SDSC" \/ sd.block = 512
      /\ step = "fpioa_pin_init" /\ given = 0
  BY DEF BootInit
<1>1. PICK found \in [Strays -> Found] :
        io = [n \in Pin |-> fpioa_set_function_raw(
                  IF n \in DOMAIN Firmware THEN Firmware[n]
                  ELSE IF n \in Strays THEN found[n] ELSE FUNC_RESV0)]
  BY DEF BootInit
<1> DEFINE f(n) == IF n \in DOMAIN Firmware THEN Firmware[n]
                   ELSE IF n \in Strays THEN found[n] ELSE FUNC_RESV0
<1>2. \A n \in Pin : f(n) \in Function
  <2>1. FUNC_RESV0 \in Function
    BY DEF FUNC_RESV0, Function, FUNC_MAX
  <2>2. \A n \in Strays : found[n] \in Function
    BY BootAssumption
  <2> QED
    BY <2>1, <2>2, FirmwareIs
<1>3. \A n \in Pin : io[n] = fpioa_set_function_raw(f(n))
  BY <1>1
<1> HIDE DEF f
<1>4. io \in Registers
  <2>1. \A n \in Pin : io[n] \in [ch_sel : Function, pulls : SUBSET {"pu", "pd"}]
    BY <1>2, <1>3, RawRegister
  <2> QED
    BY <1>1, <2>1 DEF Registers
<1>5. \A n \in DOMAIN Firmware : io[n].ch_sel = Firmware[n]
  <2> SUFFICES ASSUME NEW n \in DOMAIN Firmware PROVE io[n].ch_sel = Firmware[n]
    OBVIOUS
  <2>1. n \in Pin /\ f(n) = Firmware[n]
    BY FirmwareIs DEF f
  <2> QED
    BY <2>1, <1>2, <1>3, RawRegister
<1>6. PinsGiven
  BY <1>0, <1>5 DEF PinsGiven
<1>7. BootType
  <2>1. sd \in Cards
    <3>1. \A n \in 0..MaxSlow : n \in Int
      OBVIOUS
    <3>2. sd.slow \in Int
      BY <1>0, <3>1
    <3>3. sd = [kind |-> sd.kind, mode |-> sd.mode, app |-> sd.app, block |-> sd.block,
                slow |-> sd.slow]
      BY <1>0
    <3>4. /\ sd.kind \in Kinds /\ sd.mode \in {"sd", "idle", "ready"} /\ sd.app \in BOOLEAN
          /\ sd.block \in {512, 1024}
      BY <1>0
    <3> QED
      BY <3>2, <3>3, <3>4 DEF Cards
  <2> QED
    BY <2>1, <1>0, <1>4 DEF BootType
<1>8. AgreedInv
  BY <1>0 DEF AgreedInv
<1> QED
  BY <1>6, <1>7, <1>8 DEF BootInv

\* fpioa_set_function: the function is on this pin alone, and no other pin has got one.
LEMMA SetFunction ==
    ASSUME io \in Registers, NEW n \in Pin, NEW f \in Function \ {FUNC_RESV0},
           fpioa_set_function(n, f)
    PROVE  /\ io' \in Registers
           /\ {m \in Pin : io'[m].ch_sel = f} = {n}
           /\ \A g \in Function \ {FUNC_RESV0, f} :
                \A m \in Pin : io'[m].ch_sel = g <=> m # n /\ io[m].ch_sel = g
<1>1. FUNC_RESV0 \in Function
  BY DEF FUNC_RESV0, Function, FUNC_MAX
<1>2. \A m \in Pin : io'[m] = IF m = n THEN fpioa_set_function_raw(f)
                              ELSE IF io[m].ch_sel = f THEN fpioa_set_function_raw(FUNC_RESV0)
                              ELSE io[m]
  BY DEF fpioa_set_function
<1>3. io' \in Registers
  <2>1. \A m \in Pin : io'[m] \in [ch_sel : Function, pulls : SUBSET {"pu", "pd"}]
    BY <1>1, <1>2, RawRegister DEF Registers
  <2> QED
    BY <2>1 DEF Registers, fpioa_set_function
<1>4. \A m \in Pin : io'[m].ch_sel = IF m = n THEN f
                                     ELSE IF io[m].ch_sel = f THEN FUNC_RESV0
                                     ELSE io[m].ch_sel
  BY <1>1, <1>2, RawRegister
<1> QED
  BY <1>3, <1>4

LEMMA PinInitInv == ASSUME BootInv, PinInit PROVE BootInv'
<1>1. /\ step = "fpioa_pin_init" /\ given' = given + 1 /\ given' \in 1..5
      /\ fpioa_set_function(Wiring[given'][1], Wiring[given'][2])
      /\ step' = IF given' = 5 THEN "dmac_init" ELSE step
      /\ UNCHANGED <<is_standard_sd, sd>>
  BY WiringIs DEF PinInit, At, BootInv, BootType
<1>2. PICK k \in 1..5 : k = given'
  BY <1>1
<1>3. Wiring[k][1] \in Pin /\ Wiring[k][2] \in Function \ {FUNC_RESV0}
  BY WiringIs
<1>4. /\ io' \in Registers
      /\ {m \in Pin : io'[m].ch_sel = Wiring[k][2]} = {Wiring[k][1]}
      /\ \A g \in Function \ {FUNC_RESV0, Wiring[k][2]} :
           \A m \in Pin : io'[m].ch_sel = g <=> m # Wiring[k][1] /\ io[m].ch_sel = g
  BY <1>1, <1>2, <1>3, SetFunction DEF BootInv, BootType
<1>5. ASSUME NEW i \in 1..given'
      PROVE  {n \in Pin : io'[n].ch_sel = Wiring[i][2]} = {Wiring[i][1]}
  <2>1. CASE i = k
    BY <2>1, <1>4
  <2>2. CASE i # k
    <3>1. i \in 1..5 /\ i \in 1..given
      BY <2>2, <1>1, <1>2 DEF BootInv, BootType
    <3>2. {n \in Pin : io[n].ch_sel = Wiring[i][2]} = {Wiring[i][1]}
      BY <3>1 DEF BootInv, PinsGiven
    <3>3. /\ Wiring[i][2] \in Function \ {FUNC_RESV0, Wiring[k][2]}
          /\ Wiring[i][1] # Wiring[k][1]
      BY <2>2, <3>1, WiringIs
    <3> QED
      BY <1>4, <3>2, <3>3
  <2> QED
    BY <2>1, <2>2
<1>6. ASSUME NEW n \in DOMAIN Firmware PROVE io'[n].ch_sel = Firmware[n]
  <2>1. n \in Pin /\ n # Wiring[k][1] /\ Firmware[n] # Wiring[k][2] /\ Firmware[n] \in Function
    BY FirmwareIs
  <2>2. io[n].ch_sel = Firmware[n]
    BY DEF BootInv, PinsGiven
  <2>3. Firmware[n] # FUNC_RESV0
    BY SMT DEF Firmware, FUNC_RESV0
  <2> QED
    BY <1>4, <2>1, <2>2, <2>3
<1>7. PinsGiven'
  BY <1>5, <1>6 DEF PinsGiven
<1>8. BootType' /\ AgreedInv'
  BY <1>1, <1>4 DEF BootInv, BootType, AgreedInv
<1> QED
  BY <1>7, <1>8 DEF BootInv

(* The steps of sd_init *)

\* No command changes what the card is, and once its blocks are of 512 bytes they stay so.
LEMMA ExchangeKeeps ==
    ASSUME BootType, NEW cmd, NEW r1, Exchange(cmd, r1)
    PROVE  /\ sd' \in Cards
           /\ sd'.kind = sd.kind
           /\ sd.block = 512 \/ (cmd = "CMD16" /\ r1 = "ok") => sd'.block = 512
<1>1. /\ Told(cmd) \in Cards
      /\ Told(cmd).kind = sd.kind
      /\ sd.block = 512 \/ cmd = "CMD16" => Told(cmd).block = 512
  <2> DEFINE mode == CASE cmd = "CMD0" -> "idle"
                       [] cmd = "ACMD41" /\ sd.app /\ sd.slow = 0 -> "ready"
                       [] OTHER -> sd.mode
             slow == IF cmd = "ACMD41" /\ sd.app /\ sd.slow > 0 THEN sd.slow - 1 ELSE sd.slow
             app == cmd = "CMD55"
             block == IF cmd = "CMD16" THEN 512 ELSE sd.block
  <2>1. sd.kind \in Kinds /\ block \in {512, 1024} /\ (sd.block = 512 => block = 512)
    BY DEF BootType, Cards
  <2>2. mode \in {"sd", "idle", "ready"} /\ app \in BOOLEAN /\ slow \in Int
    BY DEF BootType, Cards
  <2>3. sd = [kind |-> sd.kind, mode |-> sd.mode, app |-> sd.app, block |-> sd.block,
              slow |-> sd.slow]
    BY DEF BootType, Cards
  <2>4. Told(cmd) = [sd EXCEPT !.mode = mode, !.slow = slow, !.app = app, !.block = block]
    BY DEF Told
  <2>5. cmd = "CMD16" => block = 512
    OBVIOUS
  <2> HIDE DEF mode, slow, app, block
  <2>6. Told(cmd) = [kind |-> sd.kind, mode |-> mode, app |-> app, block |-> block,
                     slow |-> slow]
    BY <2>3, <2>4
  <2> QED
    BY <2>1, <2>2, <2>5, <2>6 DEF Cards
<1>2. sd' \in {sd, Told(cmd)} /\ (r1 = "ok" => sd' = Told(cmd))
  BY DEF Exchange
<1> QED
  BY <1>1, <1>2 DEF BootType

\* A step that leaves the pins alone
LEMMA PinsKept ==
    ASSUME BootInv, UNCHANGED <<io, given>> PROVE PinsGiven'
  BY DEF BootInv, PinsGiven

LEMMA LowLevelInitInv == ASSUME BootInv, LowLevelInit PROVE BootInv'
<1>1. /\ fpioa_set_io_pull(fpioa_get_io_by_function(FUNC_GPIOHS0 + 7), {"pd"})
      /\ step' = "switch_to_SPI_mode" /\ UNCHANGED <<given, is_standard_sd, sd>>
  BY DEF LowLevelInit, Enter
<1>2. PICK n : n = fpioa_get_io_by_function(FUNC_GPIOHS0 + 7)
  OBVIOUS
<1>3. io' = IF n \in Pin THEN [io EXCEPT ![n].pulls = {"pd"}] ELSE io
  BY <1>1, <1>2 DEF fpioa_set_io_pull
<1>4. io' \in Registers /\ \A m \in Pin : io'[m].ch_sel = io[m].ch_sel
  BY <1>3 DEF BootInv, BootType, Registers
<1>5. \A m \in DOMAIN Firmware : m \in Pin
  BY FirmwareIs
<1>6. PinsGiven'
  BY <1>1, <1>4, <1>5 DEF BootInv, PinsGiven
<1>7. BootType' /\ AgreedInv'
  BY <1>1, <1>4 DEF BootInv, BootType, AgreedInv
<1> QED
  BY <1>6, <1>7 DEF BootInv

\* A command that does not end sd_init
LEMMA CommandKeeps ==
    ASSUME BootInv, NEW s, NEW cmd, NEW r1, Command(s, cmd, r1),
           step' \notin {"fpioa_pin_init", "CMD16", "scheduler"}
    PROVE  BootInv'
<1>1. Exchange(cmd, r1) /\ UNCHANGED <<given, io>>
  BY DEF Command, device
<1>2. BootType'
  BY <1>1, ExchangeKeeps DEF BootInv, BootType
<1>3. AgreedInv'
  BY <1>1, ExchangeKeeps DEF BootInv, AgreedInv
<1> QED
  BY <1>1, <1>2, <1>3, PinsKept DEF BootInv

LEMMA CheckBlockSizeInv == ASSUME BootInv, CheckBlockSize PROVE BootInv'
<1>1. PICK r1 \in Answers :
        /\ Command("check_block_size", "CMD58", r1)
        /\ IF r1 = "ok"
           THEN IF sd.kind = "SDHC" THEN Ready(FALSE)
                ELSE Enter("CMD16") /\ UNCHANGED <<is_standard_sd, noisy>>
           ELSE Again /\ UNCHANGED <<is_standard_sd, noisy>>
  BY DEF CheckBlockSize
<1>2. /\ step = "check_block_size" /\ Exchange("CMD58", r1) /\ UNCHANGED <<given, io>>
  BY <1>1 DEF Command, At, device
<1>3. CASE r1 = "ok" /\ sd.kind = "SDHC"
  <2>1. step' = "scheduler" /\ is_standard_sd' = FALSE
    BY <1>1, <1>3 DEF Ready
  <2>2. BootType'
    BY <1>2, <2>1, ExchangeKeeps DEF BootInv, BootType
  <2>3. AgreedInv'
    BY <1>2, <1>3, <2>1, ExchangeKeeps DEF BootInv, AgreedInv
  <2> QED
    BY <1>2, <2>2, <2>3, PinsKept DEF BootInv
<1>4. CASE r1 = "ok" /\ sd.kind # "SDHC"
  <2>1. step' = "CMD16"
    BY <1>1, <1>4 DEF Enter
  <2>2. BootType'
    BY <1>2, <2>1, ExchangeKeeps DEF BootInv, BootType
  <2>3. AgreedInv'
    BY <1>2, <1>4, <2>1, ExchangeKeeps DEF BootInv, AgreedInv
  <2> QED
    BY <1>2, <2>2, <2>3, PinsKept DEF BootInv
<1>5. CASE r1 # "ok"
  BY <1>1, <1>2, <1>5, CommandKeeps DEF Again
<1> QED
  BY <1>3, <1>4, <1>5

LEMMA SetBlockSizeInv == ASSUME BootInv, SetBlockSize PROVE BootInv'
<1>1. PICK r1 \in Answers :
        /\ Command("CMD16", "CMD16", r1)
        /\ IF r1 = "ok" THEN Ready(TRUE) ELSE Again /\ UNCHANGED <<is_standard_sd, noisy>>
  BY DEF SetBlockSize
<1>2. step = "CMD16" /\ Exchange("CMD16", r1) /\ UNCHANGED <<given, io>>
  BY <1>1 DEF Command, At, device
<1>3. /\ step' \in {"CMD16", "scheduler"}
      /\ step' = "scheduler" => is_standard_sd' = TRUE /\ r1 = "ok"
  BY <1>1, <1>2 DEF Ready, Again
<1>4. sd.kind # "SDHC"
  BY <1>2 DEF BootInv, AgreedInv
<1>5. BootType'
  BY <1>2, <1>3, ExchangeKeeps DEF BootInv, BootType
<1>6. AgreedInv'
  BY <1>2, <1>3, <1>4, ExchangeKeeps DEF BootInv, AgreedInv
<1> QED
  BY <1>2, <1>5, <1>6, PinsKept DEF BootInv

\* A step of main that changes neither pins nor card
LEMMA StepKeeps ==
    ASSUME BootInv, UNCHANGED <<io, given, sd, is_standard_sd>>,
           step' = step \/ step' \notin {"fpioa_pin_init", "CMD16", "scheduler"}
    PROVE  BootInv'
<1>1. BootType' /\ AgreedInv'
  BY DEF BootInv, BootType, AgreedInv
<1> QED
  BY <1>1, PinsKept DEF BootInv

LEMMA MainInv == ASSUME BootInv, Main PROVE BootInv'
<1>1. CASE DmacClock
  BY <1>1, StepKeeps DEF DmacClock
<1>2. CASE DmacReset
  BY <1>2, StepKeeps DEF DmacReset, device
<1>3. CASE SwitchToSpiMode
  BY <1>3, CommandKeeps DEF SwitchToSpiMode, Enter, Again, Command, At
<1>4. CASE VerifyOperationCondition
  BY <1>4, CommandKeeps DEF VerifyOperationCondition, Enter, Again, Command, At
<1>5. CASE ReadOcr
  BY <1>5, CommandKeeps DEF ReadOcr, Enter, Again, Command, At
<1>6. CASE SetCapacityApp
  BY <1>6, CommandKeeps DEF SetCapacityApp, Fail
<1>7. CASE SetCapacity
  BY <1>7, CommandKeeps DEF SetCapacity, Enter
<1>8. CASE GiveUp
  BY <1>8, StepKeeps DEF GiveUp, Fail, device
<1> QED
  BY <1>1, <1>2, <1>3, <1>4, <1>5, <1>6, <1>7, <1>8, PinInitInv, LowLevelInitInv,
     CheckBlockSizeInv, SetBlockSizeInv DEF Main

LEMMA BootInvariance == BootSpec => []BootInv
<1>1. BootInv /\ [BootNext]_allVars => BootInv'
  <2> SUFFICES ASSUME BootInv, [BootNext]_allVars PROVE BootInv'
    OBVIOUS
  <2>1. CASE UNCHANGED bootVars
    BY <2>1, StepKeeps DEF bootVars, device
  <2> QED
    BY <2>1, MainInv DEF BootNext, allVars
<1> QED
  BY <1>1, BootInitInv, PTL DEF BootSpec

\* fpioa_pin_init and sd_init: every pin set so far has its function, and no function
\* is on two pins; and when the processes start, the driver addresses each sector as
\* the card that has answered takes it, whatever kind it is and whatever was lost.
THEOREM BoardIsReady == BootSpec => []BoardReady
<1>1. BootInv => BoardReady
  <2> SUFFICES ASSUME BootInv, step = "scheduler", NEW s \in Sectors
               PROVE  Meant(Address(s)) = s
    BY DEF BoardReady, BootInv
  <2>1. s \in Nat /\ sd.block = 512 /\ (is_standard_sd <=> sd.kind # "SDHC")
    BY BootAssumption DEF BootInv, AgreedInv
  <2>2. (s * 512) % 512 = 0 /\ (s * 512) \div 512 = s
    BY <2>1, SMT
  <2> QED
    BY <2>1, <2>2 DEF Meant, Address
<1> QED
  BY <1>1, BootInvariance, PTL

\* What main does to the disk path before the processes run: it clears the channel's
\* interrupt.
MainStirs ==
    /\ UNCHANGED <<locked, state, pc, op, sector, data, cells, card, by, dma, handler>>
    /\ irq' \in {irq, FALSE}

LEMMA BootSteps == ASSUME [BootNext]_allVars PROVE [Next]_vars \/ MainStirs
<1>1. CASE Main
  BY <1>1 DEF Main, PinInit, DmacClock, DmacReset, LowLevelInit, SwitchToSpiMode,
     VerifyOperationCondition, ReadOcr, SetCapacityApp, SetCapacity, CheckBlockSize,
     SetBlockSize, GiveUp, Fail, MainStirs, vars, procVars
<1> QED
  BY <1>1 DEF BootNext, allVars

LEMMA StirInv == ASSUME Inv, MainStirs PROVE Inv'
  BY WakingInv DEF MainStirs, Inv, TypeOK

LEMMA BootedInvariance == BootSpec => []Inv
<1>1. BootInit => Init
  BY DEF BootInit
<1>2. Inv /\ [BootNext]_allVars => Inv'
  BY BootSteps, StirInv, NextInv
<1> QED
  BY <1>1, <1>2, InitInv, PTL DEF BootSpec

\* main, sdcard_read_sector and sdcard_write_sector: also with the interrupts and the
\* channel as the boot leaves them, commands and transfers stay apart.
THEOREM BootedCommandsApart == BootSpec => CommandsApart
<1>1. MainStirs => dma' = dma /\ pc' = pc
  BY DEF MainStirs
<1>2. Inv /\ [BootNext]_allVars =>
        /\ \A p \in Procs : Sends(p) =>
                dma = nobody /\ (card \in {"idle", "lost"} \/ pc[by] = "panicked")
        /\ dma # nobody /\ dma' # nobody => dma' = dma
  BY <1>1, BootSteps, ApartNext DEF Sends
<1> QED
  BY <1>2, BootedInvariance, PTL DEF BootSpec, CommandsApart

\* main and the disk path together are a device of atomic sectors from power on.
THEOREM BootedDiskIsBlockDevice == BootSpec => ActsAsBlockDevice
<1>1. BootInit => Blocks!Init
  BY DEF BootInit, Init, Blocks!Init, Requests, Request, Blocks!None, Late
<1>2. MainStirs => UNCHANGED <<cells, Requests, Late, card>>
  <2> SUFFICES ASSUME MainStirs PROVE UNCHANGED <<cells, Requests, Late, card>>
    OBVIOUS
  <2>1. \A p \in Procs : Request(p)' = Request(p)
    BY DEF MainStirs, Request, Served, Busy, Panicked
  <2>2. Late' = Late
    BY DEF MainStirs, Late, Panicked
  <2> QED
    BY <2>1, <2>2, SameRequests DEF MainStirs
<1>3. Inv /\ [BootNext]_allVars => [Blocks!Next]_<<cells, Requests, Late, card = "lost">>
  BY <1>2, BootSteps, StepRefines
<1> QED
  BY <1>1, <1>3, BootedInvariance, PTL DEF BootSpec, ActsAsBlockDevice, Blocks!Spec

-----------------------------------------------------------------------------
(* The files: the newest copy of each entry of the table *)

Values == Entries \cup {Eoc}

\* The one sector in memory has entries of the table if it is one of the table's
CacheInv ==
    /\ stored \in [Entries -> Values]
    /\ buffer \in [In(current) -> Values]
    /\ dirty \in BOOLEAN
    /\ ~dirty => \A x \in In(current) : buffer[x] = stored[x]

LEMMA Numbers ==
    /\ LastCluster \in Nat /\ LastCluster > 2 /\ Root = 2 /\ Eoc = LastCluster + 1 /\ Free = 0
    /\ PerSector \in Nat \ {0} /\ Bytes \in Nat \ {0} /\ MaxLen \in Nat \ {0}
    /\ Counts \subseteq Nat \ {0} /\ Skips \subseteq BOOLEAN
  BY FatAssumption DEF Root, Eoc, Free

LEMMA InEntries == ASSUME NEW s PROVE In(s) \subseteq Entries
  BY DEF In

LEMMA InData == ASSUME NEW x PROVE In(DataSector(x)) = {}
  BY DEF In, DataSector, TableSector

LEMMA InTable == ASSUME NEW x \in Entries PROVE x \in In(TableSector(x))
  BY DEF In

LEMMA TableIs ==
    ASSUME CacheInv
    PROVE  Table = [x \in Entries |-> IF x \in In(current) THEN buffer[x] ELSE stored[x]]
  BY InEntries DEF CacheInv, Table

\* Fetching another sector leaves the newest copies of all entries as they are
LEMMA FetchKeeps ==
    ASSUME CacheInv, NEW s, Fetch(s), buffer' = Fetched(s), dirty' = StillDirty(s)
    PROVE  /\ CacheInv' /\ Table' = Table
           /\ \A x \in In(s) : Fetched(s)[x] = Table[x]
<1>1. CASE s = current
  <2>1. UNCHANGED cache
    BY <1>1 DEF Fetch, Fetched, StillDirty, cache, CacheInv
  <2>2. CacheInv' /\ Table' = Table
    BY <2>1 DEF cache, CacheInv, Table, In
  <2> QED
    BY <1>1, <2>2, TableIs, InEntries DEF Fetched
<1>2. CASE s # current
  <2>1. current' = s /\ dirty' = FALSE
    BY <1>2 DEF Fetch, StillDirty
  <2>2. stored' = Table
    <3>1. CASE dirty
      BY <1>2, <3>1 DEF Fetch, Table
    <3>2. CASE ~dirty
      <4>1. stored' = stored
        BY <3>2 DEF Fetch
      <4> QED
        BY <3>2, <4>1, TableIs DEF CacheInv
    <3> QED
      BY <3>1, <3>2
  <2>3. buffer' = [x \in In(s) |-> stored[x]] /\ In(s) \subseteq Entries
    BY <1>2, InEntries DEF Fetched
  <2>4. \A x \in In(s) : x \notin In(current)
    BY <1>2 DEF In
  <2>5. Table \in [Entries -> Values] /\ \A x \in In(s) : Table[x] = stored[x]
    BY <2>3, <2>4, TableIs, InEntries DEF CacheInv
  <2>6. CacheInv'
    <3>1. stored' \in [Entries -> Values]
      BY <2>2, <2>5
    <3>2. buffer' \in [In(current') -> Values]
      BY <2>1, <2>3 DEF CacheInv
    <3>3. \A x \in In(current') : buffer'[x] = stored'[x]
      BY <2>1, <2>2, <2>3, <2>5
    <3>4. dirty' \in BOOLEAN
      BY <2>1
    <3> QED
      BY <3>1, <3>2, <3>3, <3>4 DEF CacheInv, In, Entries, Values, TableSector
  <2>7. Table' = [x \in Entries |-> IF x \in DOMAIN buffer' THEN buffer'[x] ELSE stored'[x]]
    BY DEF Table, Entries
  <2>8. Table' = Table
    BY <2>1, <2>2, <2>3, <2>5, <2>7
  <2> QED
    BY <1>2, <2>5, <2>6, <2>8 DEF Fetched
<1> QED
  BY <1>1, <1>2

LEMMA TableType == ASSUME CacheInv PROVE Table \in [Entries -> Values]
  BY TableIs, InEntries DEF CacheInv

LEMMA GetEntryIs ==
    ASSUME CacheInv, NEW x \in Entries, GetEntry(x)
    PROVE  CacheInv' /\ Table' = Table /\ Entry(x) = Table[x]
  BY FetchKeeps, InTable DEF GetEntry, Entry

LEMMA GetDataIs ==
    ASSUME CacheInv, NEW x, GetData(x)
    PROVE  CacheInv' /\ Table' = Table
  BY FetchKeeps DEF GetData

LEMMA SetEntryIs ==
    ASSUME CacheInv, NEW x \in Entries, NEW v \in Values, SetEntry(x, v)
    PROVE  CacheInv' /\ Table' = [Table EXCEPT ![x] = v]
<1>1. PICK s : s = TableSector(x) /\ x \in In(s)
  BY InTable
<1>2. /\ Fetch(s) /\ buffer' = [Fetched(s) EXCEPT ![x] = v]
      /\ dirty' = (StillDirty(s) \/ Entry(x) # v) /\ Entry(x) = Fetched(s)[x]
  BY <1>1 DEF SetEntry, Entry
<1>3. In(s) \subseteq Entries /\ current' = s
  BY <1>2, InEntries DEF Fetch
<1>4. /\ \A y \in In(s) : Fetched(s)[y] = Table[y] /\ Fetched(s) \in [In(s) -> Values]
      /\ \A y \in Entries : y \notin In(s) => stored'[y] = Table[y]
      /\ stored' \in [Entries -> Values]
      /\ ~StillDirty(s) => \A y \in In(s) : stored'[y] = Fetched(s)[y]
      /\ StillDirty(s) \in BOOLEAN
  <2>1. CASE s = current
    <3>1. Fetched(s) = buffer /\ stored' = stored /\ StillDirty(s) = dirty
      BY <1>2, <2>1 DEF Fetch, Fetched, StillDirty, CacheInv
    <3> QED
      BY <2>1, <3>1, TableIs, <1>3 DEF CacheInv
  <2>2. CASE s # current
    <3>1. stored' = Table
      <4>1. CASE dirty
        BY <1>2, <2>2, <4>1 DEF Fetch
      <4>2. CASE ~dirty
        BY <1>2, <2>2, <4>2, TableIs DEF CacheInv, Fetch
      <4> QED
        BY <4>1, <4>2
    <3>2. Fetched(s) = [y \in In(s) |-> stored[y]] /\ StillDirty(s) = FALSE
      BY <2>2 DEF Fetched, StillDirty
    <3>3. \A y \in In(s) : y \notin In(current)
      BY <2>2 DEF In
    <3>4. \A y \in In(s) : Table[y] = stored[y]
      BY <1>3, <3>3, TableIs
    <3> QED
      BY <1>3, <3>1, <3>2, <3>4, TableType DEF CacheInv
  <2> QED
    BY <2>1, <2>2
<1>5. Table' = [y \in Entries |-> IF y \in DOMAIN buffer' THEN buffer'[y] ELSE stored'[y]]
  BY DEF Table, Entries
<1>6. DOMAIN buffer' = In(s) /\ \A y \in In(s) : buffer'[y] = IF y = x THEN v ELSE Table[y]
  BY <1>1, <1>2, <1>4
<1>7. Table' = [Table EXCEPT ![x] = v]
  BY <1>1, <1>3, <1>4, <1>5, <1>6, TableType
<1>8. CacheInv'
  <2>1. stored' \in [Entries -> Values] /\ buffer' \in [In(current') -> Values]
    BY <1>1, <1>2, <1>3, <1>4
  <2>2. dirty' \in BOOLEAN
    BY <1>2, <1>4
  <2>3. ~dirty' => \A y \in In(current') : buffer'[y] = stored'[y]
    <3> SUFFICES ASSUME ~dirty' PROVE \A y \in In(s) : buffer'[y] = stored'[y]
      BY <1>3
    <3>1. ~StillDirty(s) /\ Fetched(s)[x] = v
      BY <1>2
    <3>2. \A y \in In(s) : buffer'[y] = Fetched(s)[y]
      BY <1>1, <1>2, <1>4, <3>1
    <3> QED
      BY <1>4, <3>1, <3>2
  <2> QED
    BY <2>1, <2>2, <2>3 DEF CacheInv, In, Entries, Values, TableSector
<1> QED
  BY <1>7, <1>8

\* A lookup, which may not come to any directory
LEMMA LookupIs ==
    ASSUME CacheInv, NEW x, Lookup(x)
    PROVE  CacheInv' /\ Table' = Table
<1>1. CASE x = NotThere
  <2>1. UNCHANGED cache
    BY <1>1 DEF Lookup
  <2> QED
    BY <2>1 DEF cache, CacheInv, Table, In
<1>2. CASE x # NotThere
  BY <1>2, GetDataIs DEF Lookup
<1> QED
  BY <1>1, <1>2

-----------------------------------------------------------------------------
(* Chains, and how the table leads along them *)

\* A set of naturals that goes on as far as it may
LEMMA Climbs ==
    ASSUME NEW n \in Nat, NEW S, 0 \in S, \A k \in 0..n - 1 : k \in S => k + 1 \in S
    PROVE  \A k \in 0..n : k \in S
<1> SUFFICES ASSUME NEW b \in 0..n, b \notin S PROVE FALSE
  OBVIOUS
<1> DEFINE Bad == {k \in 0..n : k \notin S}
<1>1. IsWellFoundedOn(OpToRel(<, Nat), Nat)
  BY NatLessThanWellFounded
<1>2. Bad \subseteq Nat /\ Bad # {}
  OBVIOUS
<1>3. PICK m \in Bad : \A k \in Bad : ~ (<<k, m>> \in OpToRel(<, Nat))
  BY <1>1, <1>2, WFMin
<1>4. \A k \in Bad : ~(k < m)
  BY <1>2, <1>3 DEF OpToRel
<1>5. m # 0 /\ m \in 0..n
  BY <1>3
<1>6. m - 1 \in 0..n - 1 /\ m - 1 \in 0..n /\ m - 1 < m
  BY <1>5
<1>7. m - 1 \in S
  BY <1>4, <1>6
<1>8. (m - 1) + 1 = m
  BY <1>5
<1> QED
  BY <1>3, <1>6, <1>7, <1>8

\* What comes after the i-th cluster
Nth(s, i) == IF i <= Len(s) THEN s[i] ELSE Eoc

\* A chain of clusters that leads no further
Leads(s) ==
    /\ s \in Seq(Clusters) /\ Len(s) > 0 /\ IsInjective(s)
    /\ \A j \in 1..(Len(s) - 1) : Table[s[j]] = s[j + 1]
    /\ Table[s[Len(s)]] \notin Clusters

LEMMA ChainFits ==
    ASSUME NEW s \in Seq(Clusters), IsInjective(s)
    PROVE  Len(s) <= LastCluster
<1>1. IsFiniteSet(1..LastCluster) /\ Cardinality(1..LastCluster) = LastCluster
  BY FS_Interval, Numbers
<1>2. s \in [1..Len(s) -> 1..LastCluster] /\ DOMAIN s = 1..Len(s) /\ Len(s) \in Nat
  BY Numbers DEF Clusters
<1>3. s \in Injection(1..Len(s), 1..LastCluster)
  BY <1>2 DEF IsInjective, Injection
<1>4. Cardinality(1..Len(s)) = Len(s)
  <2>1. PICK k \in Nat : k = Len(s)
    BY <1>2
  <2>2. Cardinality(1..k) = IF 1 > k THEN 0 ELSE k - 1 + 1
    BY FS_Interval
  <2> QED
    BY <2>1, <2>2
<1>5. Cardinality(1..Len(s)) <= Cardinality(1..LastCluster)
  BY <1>1, <1>3, FS_Injection
<1> QED
  BY <1>1, <1>4, <1>5

\* Following the table from the first cluster gives the whole chain
LEMMA ChainIs ==
    ASSUME CacheInv, NEW f \in Files, ~Truncating(f), NEW s, Leads(s), s[1] = start[f]
    PROVE  Chain(f) = s
<1> DEFINE More(t) == IF Table[t[Len(t)]] \in Clusters THEN Append(t, Table[t[Len(t)]]) ELSE t
           Is(g) ==
             g = [i \in 0..LastCluster |-> IF i = 0 THEN <<start[f]>> ELSE More(g[i - 1])]
           after == CHOOSE g : Is(g)
           Up(i) == IF i < Len(s) THEN i + 1 ELSE Len(s)
           h == [i \in 0..LastCluster |-> SubSeq(s, 1, Up(i))]
<1>1. Len(s) \in Nat /\ Len(s) > 0 /\ Len(s) <= LastCluster /\ s \in Seq(Clusters)
  BY ChainFits DEF Leads
<1>2. \A i \in 0..LastCluster : Up(i) \in 1..Len(s)
  BY <1>1, Numbers
<1>3. \A i \in 0..LastCluster : /\ h[i] \in Seq(Clusters) /\ Len(h[i]) = Up(i)
                                /\ \A j \in 1..Up(i) : h[i][j] = s[j]
  <2> SUFFICES ASSUME NEW i \in 0..LastCluster, NEW u \in 1..Len(s), u = Up(i)
               PROVE  /\ h[i] \in Seq(Clusters) /\ Len(h[i]) = u
                      /\ \A j \in 1..u : h[i][j] = s[j]
    BY <1>2
  <2>1. h[i] = SubSeq(s, 1, u)
    OBVIOUS
  <2> HIDE DEF h, Up
  <2>2. u \in Int /\ 1 \in Int /\ \A j \in 1..u : s[j] \in Clusters
    BY <1>1
  <2>3. /\ SubSeq(s, 1, u) \in Seq(Clusters)
        /\ Len(SubSeq(s, 1, u)) = IF 1 <= u THEN u - 1 + 1 ELSE 0
        /\ \A j \in 1..u - 1 + 1 : SubSeq(s, 1, u)[j] = s[1 + j - 1]
    BY <2>2, SubSeqProperties
  <2>4. u - 1 + 1 = u /\ 1 <= u /\ \A j \in 1..u : 1 + j - 1 = j
    BY <1>1
  <2>5. Len(SubSeq(s, 1, u)) = u
    BY <2>3, <2>4
  <2>6. ASSUME NEW j \in 1..u PROVE SubSeq(s, 1, u)[j] = s[j]
    <3>1. SubSeq(s, 1, u)[j] = s[1 + j - 1] /\ 1 + j - 1 = j
      BY <2>3, <2>4
    <3> QED
      BY <3>1
  <2> QED
    BY <2>1, <2>3, <2>5, <2>6
<1>4. SubSeq(s, 1, 1) = <<start[f]>>
  <2>1. SubSeq(s, 1, 1) = <<s[1]>> \o SubSeq(s, 2, 1)
    <3>1. 1 \in 1..Len(s) /\ 1 \in 1..Len(s) /\ 1 + 1 = 2
      BY <1>1
    <3> QED
      BY <1>1, <3>1, SubSeqRecursiveFirst
  <2>2. SubSeq(s, 2, 1) = <<>>
    BY SubSeqEmpty
  <2>3. <<s[1]>> \o <<>> = <<s[1]>>
    BY <1>1
  <2> QED
    BY <2>1, <2>2, <2>3
<1>5. ASSUME NEW i \in 1..LastCluster PROVE h[i] = More(h[i - 1])
  <2>1. i - 1 \in 0..LastCluster
    BY Numbers
  <2>2. CASE i < Len(s)
    <3>1. Up(i - 1) = i /\ Up(i) = i + 1
      BY <1>1, <2>2
    <3>2. h[i - 1][Len(h[i - 1])] = s[i] /\ Table[s[i]] = s[i + 1] /\ s[i + 1] \in Clusters
      BY <1>1, <1>3, <2>1, <2>2, <3>1 DEF Leads
    <3>3. More(h[i - 1]) = Append(h[i - 1], s[i + 1])
      BY <3>2
    <3>4. Append(SubSeq(s, 1, i), s[i + 1]) = SubSeq(s, 1, i + 1)
      BY <1>1, <2>2
    <3>5. h[i - 1] = SubSeq(s, 1, i) /\ h[i] = SubSeq(s, 1, i + 1)
      BY <2>1, <3>1
    <3> QED
      BY <3>3, <3>4, <3>5
  <2>3. CASE ~(i < Len(s))
    <3>1. Up(i - 1) = Len(s) /\ Up(i) = Len(s)
      BY <1>1, <2>3
    <3>2. h[i - 1][Len(h[i - 1])] = s[Len(s)] /\ Table[s[Len(s)]] \notin Clusters
      BY <1>1, <1>3, <2>1, <3>1 DEF Leads
    <3>3. More(h[i - 1]) = h[i - 1]
      BY <3>2
    <3>4. h[i - 1] = SubSeq(s, 1, Len(s)) /\ h[i] = SubSeq(s, 1, Len(s))
      BY <2>1, <3>1
    <3> QED
      BY <3>3, <3>4
  <2> QED
    BY <2>2, <2>3
<1>6. h[0] = <<start[f]>>
  <2>1. Up(0) = 1 /\ 0 \in 0..LastCluster
    BY <1>1, Numbers
  <2> QED
    BY <1>4, <2>1
<1>7. Is(h)
  <2>1. \A i \in 0..LastCluster : h[i] = IF i = 0 THEN <<start[f]>> ELSE More(h[i - 1])
    <3> HIDE DEF h, More
    <3> QED
      BY <1>5, <1>6
  <2> HIDE DEF More
  <2> QED
    BY <2>1
<1>8. Is(after)
  <2> HIDE DEF Is, h
  <2> QED
    BY <1>7
<1>9. \A i \in 0..LastCluster : i \in {k \in 0..LastCluster : after[k] = h[k]}
  <2> HIDE DEF More, h, after
  <2> DEFINE S == {k \in 0..LastCluster : after[k] = h[k]}
  <2>1. LastCluster \in Nat
    BY Numbers
  <2>2. 0 \in S
    BY <1>6, <1>8, <2>1
  <2>3. \A k \in 0..LastCluster - 1 : k \in S => k + 1 \in S
    <3> SUFFICES ASSUME NEW k \in 0..LastCluster - 1, k \in S PROVE k + 1 \in S
      OBVIOUS
    <3>1. k + 1 \in 1..LastCluster /\ k + 1 \in 0..LastCluster /\ (k + 1) - 1 = k /\ k + 1 # 0
      BY <2>1
    <3>2. after[k + 1] = More(after[k])
      BY <1>8, <3>1
    <3>3. h[k + 1] = More(h[k])
      BY <1>5, <3>1
    <3> QED
      BY <3>1, <3>2, <3>3
  <2> HIDE DEF S
  <2>4. \A k \in 0..LastCluster : k \in S
    BY <2>1, <2>2, <2>3, Climbs
  <2> QED
    BY <2>4 DEF S
<1>10. Chain(f) = after[LastCluster]
  BY DEF Chain
<1>11. LastCluster \in 0..LastCluster /\ h[LastCluster] = SubSeq(s, 1, Len(s))
  BY <1>1, Numbers
<1>12. SubSeq(s, 1, Len(s)) = s
  BY <1>1
<1> HIDE DEF after, h
<1> QED
  BY <1>9, <1>10, <1>11, <1>12

-----------------------------------------------------------------------------
(* The invariant of the files, and what follows from it *)

Cutting == {"first entry", "free", "next", "mark"}
Reading == {"hop", "search", "link", "end", "read"}

\* L[f] has the clusters of f, those that are being freed included
Layout(L) ==
    /\ L \in [Files -> Seq(Clusters)]
    /\ \A f \in Files : Len(L[f]) > 0 /\ L[f][1] = start[f] /\ IsInjective(L[f])
    /\ \A f, g \in Files :
        f # g => \A i \in 1..Len(L[f]), j \in 1..Len(L[g]) : L[f][i] # L[g][j]

\* The table leads from the i-th cluster to the last
LinkedFrom(s, i) == \A j \in i..Len(s) : Table[s[j]] = Nth(s, j + 1)

\* ... to what Link has appended
LinkedToLast(s) ==
    /\ \A j \in 1..(Len(s) - 1) : Table[s[j]] = s[j + 1]
    /\ Table[s[Len(s)]] = Free

LinksInv(L) ==
    \A f \in Files :
        IF file = f /\ doing \in Cutting THEN TRUE
        ELSE IF file = f /\ doing = "end" THEN LinkedToLast(L[f])
        ELSE LinkedFrom(L[f], 1)

AccountInv(L) ==
    /\ \A x \in 0..Root : Table[x] = Eoc
    /\ ~skips => \A x \in Clusters :
        Table[x] = Free \/ \E f \in Files : \E i \in 1..Len(L[f]) : x = L[f][i]

\* A driver that frees all clusters has freed those up to the i-th, but not the first
FreedTo(s, i) == ~skips => \A j \in 2..i : Table[s[j]] = Free

FreeAt(s, i) ==
    /\ i \in 2..Len(s) /\ cl = s[i] /\ LinkedFrom(s, i) /\ FreedTo(s, i - 1)
    /\ entry = Nth(s, i + 1) \/ (skips /\ entry = cl)

NextAt(s, i) ==
    /\ i \in 3..Len(s) /\ entry = s[i] /\ LinkedFrom(s, i) /\ FreedTo(s, i - 1)

CutInv(L) ==
    LET s == L[file] IN
    /\ doing \in {"second"} \cup Cutting => file \in Files /\ fp.start = start[file]
    /\ doing = "first entry" => 2 <= Len(s) /\ cl = s[2] /\ LinkedFrom(s, 1)
    /\ doing = "free" => \/ \E i \in 2..Len(s) : FreeAt(s, i)
                         \/ skips /\ entry \in {Eoc, Free}
    /\ doing = "next" => \/ \E i \in 3..Len(s) : NextAt(s, i)
                         \/ skips /\ entry \in Clusters /\ Table[entry] = Free
    /\ doing = "mark" => FreedTo(s, Len(s))

Place(s, p) == <<s[p \div Bytes + 1], p % Bytes>>
Returned(s, count) == [k \in 1..count |-> Place(s, asked.from + k - 1)]

ReadInv(L) ==
    LET s == L[file] IN
    /\ doing \in Reading =>
        /\ file \in Files /\ asked \in [from : Nat, count : Nat]
        /\ fp.size = size[file] /\ fp.idx = fp.pos \div Bytes
        /\ asked.from <= fp.pos /\ fp.pos < fp.size
        /\ left \in Nat /\ left = asked.count - (fp.pos - asked.from)
        /\ \A p \in asked.from..(fp.pos - 1) : p \div Bytes + 1 \in 1..Len(s)
        /\ got = Returned(s, fp.pos - asked.from)
    /\ doing = "read" => fp.idx + 1 <= Len(s) /\ fp.cluster = s[fp.idx + 1]
    /\ doing \in Reading \ {"read"} =>
        /\ hops \in 1..fp.idx /\ fp.idx - hops + 1 \in 1..Len(s)
        /\ fp.cluster = s[fp.idx - hops + 1]
    /\ doing \in {"search", "link"} => fp.idx - hops + 1 = Len(s) /\ cl \in Entries
    /\ doing = "link" => Table[cl] = Free
    /\ doing = "end" => fp.idx - hops + 2 = Len(s) /\ cl = s[Len(s)]
    /\ doing = "close" /\ got # <<>> =>
        file \in Files /\ got = Returned(s, Smallest(asked.count, size[file] - asked.from))
    /\ doing \notin Reading \cup {"close"} => got = <<>>

FatTypes ==
    /\ skips \in BOOLEAN
    /\ size \in [Files -> Nat \ {0}]
    /\ fp \in [size : Nat, start : Nat, cluster : Nat, idx : Nat, pos : Nat]

LayoutInv(L) == Layout(L) /\ LinksInv(L) /\ AccountInv(L) /\ CutInv(L) /\ ReadInv(L)

FatInv == CacheInv /\ FatTypes /\ \E L : LayoutInv(L)

LEMMA ElementIs ==
    ASSUME NEW s \in Seq(Clusters), NEW i \in 1..Len(s)
    PROVE  /\ s[i] \in Clusters /\ s[i] \in Entries /\ s[i] # Free /\ s[i] # Eoc /\ s[i] > Root
           /\ i \in DOMAIN s /\ DOMAIN s = 1..Len(s) /\ Len(s) \in Nat
<1>1. s[i] \in Clusters /\ i \in DOMAIN s /\ DOMAIN s = 1..Len(s) /\ Len(s) \in Nat
  OBVIOUS
<1> QED
  BY <1>1, Numbers DEF Clusters, Entries

LEMMA LayoutIs ==
    ASSUME NEW L, Layout(L), NEW f \in Files
    PROVE  /\ L[f] \in Seq(Clusters) /\ Len(L[f]) \in Nat
           /\ Len(L[f]) > 0 /\ 1 \in 1..Len(L[f])
           /\ L[f][1] = start[f] /\ IsInjective(L[f]) /\ DOMAIN L[f] = 1..Len(L[f])
           /\ start[f] \in Clusters
           /\ \A i, j \in 1..Len(L[f]) : L[f][i] = L[f][j] => i = j
           /\ Range(L[f]) = {L[f][i] : i \in 1..Len(L[f])}
<1>1. /\ L[f] \in Seq(Clusters) /\ Len(L[f]) > 0
      /\ L[f][1] = start[f] /\ IsInjective(L[f])
  BY DEF Layout
<1>2. Len(L[f]) \in Nat /\ DOMAIN L[f] = 1..Len(L[f]) /\ 1 \in 1..Len(L[f])
  BY <1>1
<1>3. \A i, j \in 1..Len(L[f]) : L[f][i] = L[f][j] => i = j
  BY <1>1, <1>2 DEF IsInjective
<1>4. start[f] \in Clusters
  BY <1>1, <1>2
<1> QED
  BY <1>1, <1>2, <1>3, <1>4 DEF Range

\* What Chain finds
LEMMA ChainOf ==
    ASSUME CacheInv, NEW L, Layout(L), LinksInv(L), NEW f \in Files
    PROVE  Chain(f) = IF Truncating(f) THEN <<start[f]>> ELSE L[f]
<1>1. CASE Truncating(f)
  BY <1>1 DEF Chain
<1>2. CASE ~Truncating(f)
  <2>1. PICK s : s = L[f]
    OBVIOUS
  <2>2. /\ s \in Seq(Clusters) /\ Len(s) \in Nat /\ Len(s) > 0 /\ Len(s) \in 1..Len(s)
        /\ s[1] = start[f] /\ IsInjective(s)
    BY <2>1, LayoutIs
  <2>3. LinkedToLast(s) \/ LinkedFrom(s, 1)
    BY <1>2, <2>1 DEF LinksInv, Truncating, Cutting
  <2>4. \A j \in 1..(Len(s) - 1) : Table[s[j]] = s[j + 1]
    <3> SUFFICES ASSUME NEW j \in 1..(Len(s) - 1) PROVE Table[s[j]] = s[j + 1]
      OBVIOUS
    <3>1. j \in 1..Len(s) /\ j + 1 <= Len(s)
      BY <2>2
    <3> QED
      BY <2>3, <3>1 DEF LinkedToLast, LinkedFrom, Nth
  <2>5. Table[s[Len(s)]] \in {Eoc, Free}
    <3>1. ~(Len(s) + 1 <= Len(s))
      BY <2>2
    <3> QED
      BY <2>2, <2>3, <3>1 DEF LinkedToLast, LinkedFrom, Nth
  <2>6. Table[s[Len(s)]] \notin Clusters
    BY <2>5, Numbers DEF Clusters
  <2>7. Leads(s)
    BY <2>2, <2>4, <2>6 DEF Leads
  <2> QED
    BY <1>2, <2>1, <2>2, <2>7, ChainIs
<1> QED
  BY <1>1, <1>2

LEMMA InvImpliesAccounted == FatInv => ClustersAccountedFor
<1> SUFFICES ASSUME FatInv PROVE ClustersAccountedFor
  OBVIOUS
<1>1. PICK L : LayoutInv(L)
  BY DEF FatInv
<1>2. CacheInv /\ Layout(L) /\ LinksInv(L) /\ AccountInv(L)
  BY <1>1 DEF LayoutInv, FatInv
<1>3. ASSUME NEW f \in Files
      PROVE  /\ IsInjective(Chain(f))
             /\ Range(Chain(f)) \subseteq {L[f][i] : i \in 1..Len(L[f])}
  <2>1. CASE Truncating(f)
    <3>1. Chain(f) = <<start[f]>> /\ start[f] = L[f][1] /\ 1 \in 1..Len(L[f])
      BY <1>2, <2>1, ChainOf, LayoutIs
    <3>2. DOMAIN <<start[f]>> = {1}
      OBVIOUS
    <3> QED
      BY <3>1, <3>2 DEF IsInjective, Range
  <2>2. CASE ~Truncating(f)
    BY <1>2, <2>2, ChainOf, LayoutIs
  <2> QED
    BY <2>1, <2>2
<1>4. ASSUME NEW f \in Files, NEW g \in Files \ {f}
      PROVE  Range(Chain(f)) \cap Range(Chain(g)) = {}
  <2>1. \A i \in 1..Len(L[f]), j \in 1..Len(L[g]) : L[f][i] # L[g][j]
    BY <1>2 DEF Layout
  <2> QED
    BY <1>3, <2>1
<1>5. ASSUME NEW f \in Files
      PROVE  LET last == Chain(f)[Len(Chain(f))]
             IN  Table[last] = Eoc \/ Truncating(f) \/ (doing = "end" /\ last = cl)
  <2>1. CASE ~Truncating(f)
    <3>1. PICK s : s = L[f]
      OBVIOUS
    <3>2. Chain(f) = s /\ Len(s) \in Nat /\ Len(s) > 0 /\ Len(s) \in 1..Len(s)
      BY <1>2, <2>1, <3>1, ChainOf, LayoutIs
    <3>3. CASE file = f /\ doing = "end"
      <4>1. cl = s[Len(s)]
        BY <1>1, <3>1, <3>3 DEF LayoutInv, ReadInv
      <4> QED
        BY <3>2, <3>3, <4>1
    <3>4. CASE ~(file = f /\ doing = "end")
      <4>1. LinkedFrom(s, 1)
        BY <1>2, <2>1, <3>1, <3>4 DEF LinksInv, Truncating, Cutting
      <4>2. Table[s[Len(s)]] = Eoc
        BY <3>2, <4>1 DEF LinkedFrom, Nth
      <4> QED
        BY <3>2, <4>2
    <3> QED
      BY <3>3, <3>4
  <2> QED
    BY <2>1
<1>6. ASSUME doing = "idle", ~skips, NEW x \in Clusters
      PROVE  Table[x] = Free \/ \E f \in Files : x \in Range(Chain(f))
  <2>1. CASE \E f \in Files : \E i \in 1..Len(L[f]) : x = L[f][i]
    <3>1. PICK f \in Files : \E i \in 1..Len(L[f]) : x = L[f][i]
      BY <2>1
    <3>2. ~Truncating(f)
      BY <1>6 DEF Truncating
    <3>3. Chain(f) = L[f]
      BY <1>2, <3>1, <3>2, ChainOf
    <3>4. Range(L[f]) = {L[f][i] : i \in 1..Len(L[f])}
      BY <1>2, <3>1, LayoutIs
    <3> QED
      BY <3>1, <3>3, <3>4
  <2> QED
    BY <1>2, <1>6, <2>1 DEF AccountInv
<1> QED
  BY <1>3, <1>4, <1>5, <1>6 DEF ClustersAccountedFor

LEMMA InvImpliesOwn == FatInv => ReadsItsOwn
<1> SUFFICES ASSUME FatInv, doing = "close", got # <<>>
             PROVE  got = [k \in 1..Smallest(asked.count, size[file] - asked.from) |->
                            LET p == asked.from + k - 1
                            IN  <<Chain(file)[p \div Bytes + 1], p % Bytes>>]
  BY DEF ReadsItsOwn
<1>1. PICK L : LayoutInv(L)
  BY DEF FatInv
<1>2. /\ CacheInv /\ Layout(L) /\ LinksInv(L) /\ file \in Files
      /\ got = Returned(L[file], Smallest(asked.count, size[file] - asked.from))
  BY <1>1 DEF LayoutInv, ReadInv, FatInv
<1>3. Chain(file) = L[file]
  BY <1>2, ChainOf DEF Truncating
<1> QED
  BY <1>2, <1>3 DEF Returned, Place

-----------------------------------------------------------------------------
(* A mounted volume *)

\* The clusters of a chain that ascends are all different
LEMMA AscendingIs ==
    ASSUME NEW s \in Chains
    PROVE  /\ s \in Seq(Clusters) /\ Len(s) \in Nat /\ Len(s) > 0
           /\ \A i, j \in 1..Len(s) : i < j => s[i] < s[j]
           /\ IsInjective(s)
<1>1. PICK k \in 1..MaxLen : s \in [1..k -> Clusters]
  BY DEF Chains
<1>2. k \in Nat /\ k > 0
  BY Numbers
<1>3. s \in Seq(Clusters) /\ Len(s) = k /\ DOMAIN s = 1..k
  BY <1>1, <1>2
<1>4. \A i \in 1..(k - 1) : s[i] < s[i + 1]
  BY <1>3 DEF Chains, Ascending
<1>5. \A i \in 1..k : s[i] \in Int
  BY <1>1, Numbers DEF Clusters
<1>6. ASSUME NEW i \in 1..k, NEW j \in 1..k, i < j PROVE s[i] < s[j]
  <2> DEFINE S == {d \in Nat : d <= k - i - 1 => s[i] < s[i + d + 1]}
  <2>1. k - i - 1 \in Nat
    BY <1>2, <1>6
  <2>2. 0 \in S
    <3>1. i \in 1..(k - 1) /\ i + 0 + 1 = i + 1
      BY <1>2, <1>6
    <3> QED
      BY <1>4, <3>1
  <2>3. \A d \in 0..(k - i - 1) - 1 : d \in S => d + 1 \in S
    <3> SUFFICES ASSUME NEW d \in 0..(k - i - 1) - 1, d \in S PROVE d + 1 \in S
      OBVIOUS
    <3>1. /\ d \in Nat /\ d + 1 \in Nat /\ d <= k - i - 1
          /\ i + d + 1 \in 1..(k - 1) /\ i + d + 1 \in 1..k
          /\ (i + d + 1) + 1 = i + (d + 1) + 1 /\ i + (d + 1) + 1 \in 1..k
      BY <1>2, <1>6
    <3>2. s[i] < s[i + d + 1]
      BY <3>1
    <3>3. s[i + d + 1] < s[i + (d + 1) + 1]
      BY <1>4, <3>1
    <3>4. s[i] < s[i + (d + 1) + 1]
      BY <1>5, <3>1, <3>2, <3>3
    <3> QED
      BY <3>1, <3>4
  <2> HIDE DEF S
  <2>4. \A d \in 0..(k - i - 1) : d \in S
    BY <2>1, <2>2, <2>3, Climbs
  <2>5. j - i - 1 \in 0..(k - i - 1) /\ i + (j - i - 1) + 1 = j /\ j - i - 1 <= k - i - 1
    BY <1>2, <1>6
  <2>6. j - i - 1 \in S
    BY <2>4, <2>5
  <2> QED
    BY <2>5, <2>6 DEF S
<1>7. IsInjective(s)
  <2> SUFFICES ASSUME NEW i \in 1..k, NEW j \in 1..k, s[i] = s[j] PROVE i = j
    BY <1>3 DEF IsInjective
  <2>1. ~(i < j) /\ ~(j < i)
    BY <1>5, <1>6
  <2> QED
    BY <2>1
<1> QED
  BY <1>2, <1>3, <1>6, <1>7

\* The table of a volume made elsewhere
LEMMA LinkedIs ==
    ASSUME NEW L \in [Files -> Chains],
           \A f, g \in Files : f # g => Range(L[f]) \cap Range(L[g]) = {}
    PROVE  /\ Linked(L) \in [Entries -> Values]
           /\ \A x \in 0..Root : Linked(L)[x] = Eoc
           /\ \A f \in Files : \A i \in 1..Len(L[f]) : Linked(L)[L[f][i]] = Nth(L[f], i + 1)
           /\ \A x \in Clusters : \/ Linked(L)[x] = Free
                                  \/ \E f \in Files : \E i \in 1..Len(L[f]) : x = L[f][i]
<1>1. ASSUME NEW f \in Files
      PROVE  /\ L[f] \in Seq(Clusters) /\ DOMAIN L[f] = 1..Len(L[f]) /\ Len(L[f]) \in Nat
             /\ IsInjective(L[f]) /\ Range(L[f]) = {L[f][i] : i \in 1..Len(L[f])}
  <2>1. L[f] \in Chains
    OBVIOUS
  <2>2. L[f] \in Seq(Clusters) /\ IsInjective(L[f]) /\ Len(L[f]) \in Nat
    BY <2>1, AscendingIs
  <2>3. DOMAIN L[f] = 1..Len(L[f])
    BY <2>2
  <2> QED
    BY <2>2, <2>3 DEF Range
<1>2. ASSUME NEW f \in Files, NEW i \in 1..Len(L[f])
      PROVE  Linked(L)[L[f][i]] = Nth(L[f], i + 1)
  <2>1. PICK x : x = L[f][i]
    OBVIOUS
  <2>2. x \in Entries /\ ~(x <= Root) /\ x \in Range(L[f])
    <3>1. x \in Clusters
      BY <1>1, <2>1
    <3> QED
      BY <1>1, <2>1, <3>1, Numbers DEF Clusters, Entries
  <2>3. (CHOOSE g \in Files : x \in Range(L[g])) = f
    <3>1. \A g \in Files : x \in Range(L[g]) <=> g = f
      BY <2>2
    <3> QED
      BY <3>1
  <2>4. (CHOOSE k \in 1..Len(L[f]) : L[f][k] = x) = i
    <3>1. \A k \in 1..Len(L[f]) : L[f][k] = x <=> k = i
      BY <1>1, <2>1 DEF IsInjective
    <3> QED
      BY <3>1
  <2> DEFINE Step(g, k) == IF k = Len(L[g]) THEN Eoc ELSE L[g][k + 1]
             After(g) == Step(g, CHOOSE k \in 1..Len(L[g]) : L[g][k] = x)
  <2>5. Linked(L)[x] = After(CHOOSE g \in Files : x \in Range(L[g]))
    BY <2>2 DEF Linked
  <2>6. After(f) = IF i = Len(L[f]) THEN Eoc ELSE L[f][i + 1]
    <3>1. After(f) = Step(f, i)
      <4> HIDE DEF Step
      <4> QED
        BY <2>4
    <3> QED
      BY <3>1
  <2>9. Linked(L)[x] = IF i = Len(L[f]) THEN Eoc ELSE L[f][i + 1]
    <3> HIDE DEF After
    <3> QED
      BY <2>3, <2>5, <2>6
  <2>10. i + 1 <= Len(L[f]) <=> i # Len(L[f])
    BY <1>1
  <2> QED
    BY <2>1, <2>9, <2>10 DEF Nth
<1>3. ASSUME NEW x \in Clusters, ~\E f \in Files : \E i \in 1..Len(L[f]) : x = L[f][i]
      PROVE  Linked(L)[x] = Free
  <2>1. x \in Entries /\ ~(x <= Root)
    BY Numbers DEF Clusters, Entries
  <2>2. ~\E f \in Files : x \in Range(L[f])
    BY <1>1, <1>3
  <2> QED
    BY <2>1, <2>2 DEF Linked
<1>4. ASSUME NEW x \in 0..Root PROVE Linked(L)[x] = Eoc
  <2>1. x \in Entries /\ x <= Root
    BY Numbers DEF Entries
  <2> QED
    BY <2>1 DEF Linked
<1>5. ASSUME NEW x \in Entries PROVE Linked(L)[x] \in Values
  <2>1. CASE x <= Root
    <3>1. x \in 0..Root
      BY <2>1, Numbers DEF Entries
    <3> QED
      BY <1>4, <3>1 DEF Values
  <2>2. CASE x \in Clusters
    <3>1. CASE \E f \in Files : \E i \in 1..Len(L[f]) : x = L[f][i]
      <4>1. PICK f \in Files : \E i \in 1..Len(L[f]) : x = L[f][i]
        BY <3>1
      <4>2. PICK i \in 1..Len(L[f]) : x = L[f][i]
        BY <4>1
      <4>3. Linked(L)[x] = Nth(L[f], i + 1)
        BY <1>2, <4>2
      <4>4. i + 1 <= Len(L[f]) => L[f][i + 1] \in Clusters
        BY <1>1
      <4> QED
        BY <4>3, <4>4, Numbers DEF Nth, Values, Clusters, Entries
    <3>2. CASE ~\E f \in Files : \E i \in 1..Len(L[f]) : x = L[f][i]
      <4>1. Linked(L)[x] = Free
        BY <1>3, <2>2, <3>2
      <4> QED
        BY <4>1, Numbers DEF Values, Entries
    <3> QED
      BY <3>1, <3>2
  <2> QED
    BY <2>1, <2>2, Numbers DEF Clusters, Entries
<1>6. Linked(L) = [x \in Entries |-> Linked(L)[x]]
  BY DEF Linked
<1> QED
  BY <1>2, <1>3, <1>4, <1>5, <1>6

LEMMA InitFat == FatInit => FatInv
<1> SUFFICES ASSUME FatInit PROVE FatInv
  OBVIOUS
<1>1. PICK L \in [Files -> Chains] :
        /\ \A f, g \in Files : f /= g => Range(L[f]) \cap Range(L[g]) = {}
        /\ start = [f \in Files |-> L[f][1]]
        /\ stored = Linked(L)
        /\ size \in [Files -> 1..(MaxLen * Bytes)]
  BY DEF FatInit
<1>2. /\ skips \in Skips /\ current = DataSector(Root) /\ buffer = <<>> /\ dirty = FALSE
      /\ doing = "idle" /\ fp = NoHandle /\ got = <<>>
  BY DEF FatInit
<1>3. /\ stored \in [Entries -> Values]
      /\ \A x \in 0..Root : stored[x] = Eoc
      /\ \A f \in Files : \A i \in 1..Len(L[f]) : stored[L[f][i]] = Nth(L[f], i + 1)
      /\ \A x \in Clusters : \/ stored[x] = Free
                             \/ \E f \in Files : \E i \in 1..Len(L[f]) : x = L[f][i]
  BY <1>1, LinkedIs
<1>4. CacheInv
  <2>1. In(current) = {}
    BY <1>2, InData
  <2>2. buffer \in [{} -> Values]
    BY <1>2
  <2> QED
    BY <1>2, <1>3, <2>1, <2>2 DEF CacheInv
<1>5. Table = stored
  <2>1. In(current) = {}
    BY <1>2, InData
  <2> QED
    BY <1>3, <1>4, <2>1, TableIs
<1>6. FatTypes
  <2>1. size \in [Files -> Nat \ {0}]
    <3>1. 1..(MaxLen * Bytes) \subseteq Nat \ {0}
      OBVIOUS
    <3> QED
      BY <1>1, <3>1
  <2>2. NoHandle \in [size : Nat, start : Nat, cluster : Nat, idx : Nat, pos : Nat]
    BY DEF NoHandle
  <2> QED
    BY <1>2, <2>1, <2>2, Numbers DEF FatTypes
<1>7. Layout(L)
  <2>1. ASSUME NEW f \in Files
        PROVE  /\ L[f] \in Seq(Clusters) /\ Len(L[f]) > 0
               /\ L[f][1] = start[f] /\ IsInjective(L[f])
    <3>1. L[f] \in Chains /\ start[f] = L[f][1]
      BY <1>1
    <3> QED
      BY <3>1, AscendingIs
  <2>2. ASSUME NEW f \in Files, NEW g \in Files, f # g,
               NEW i \in 1..Len(L[f]), NEW j \in 1..Len(L[g]), L[f][i] = L[g][j]
        PROVE  FALSE
    <3>1. L[f][i] \in Range(L[f]) /\ L[g][j] \in Range(L[g])
      BY <2>1 DEF Range
    <3>2. Range(L[f]) \cap Range(L[g]) = {}
      BY <1>1, <2>2
    <3> QED
      BY <2>2, <3>1, <3>2
  <2>3. L \in [Files -> Seq(Clusters)]
    BY <1>1, <2>1
  <2> QED
    BY <2>1, <2>2, <2>3 DEF Layout
<1>8. LinksInv(L) /\ AccountInv(L) /\ CutInv(L) /\ ReadInv(L)
  <2>1. LinksInv(L)
    BY <1>2, <1>3, <1>5 DEF LinksInv, LinkedFrom, Cutting
  <2>2. AccountInv(L)
    BY <1>3, <1>5 DEF AccountInv
  <2>3. CutInv(L)
    BY <1>2 DEF CutInv, Cutting
  <2>4. ReadInv(L)
    BY <1>2 DEF ReadInv, Reading
  <2> QED
    BY <2>1, <2>2, <2>3, <2>4
<1> QED
  BY <1>4, <1>6, <1>7, <1>8 DEF FatInv, LayoutInv

-----------------------------------------------------------------------------
(* Steps that leave the table as it is *)

\* A step that leaves the volume and its table as they are
Quiet == UNCHANGED <<skips, size, start>> /\ CacheInv' /\ Table' = Table

LEMMA QuietLayout == ASSUME NEW L, Quiet, Layout(L) PROVE Layout(L)'
  BY DEF Quiet, Layout

LEMMA QuietAccount == ASSUME NEW L, Quiet, AccountInv(L) PROVE AccountInv(L)'
  BY DEF Quiet, AccountInv, Root, Eoc, Clusters, Free

LEMMA QuietLinked == ASSUME NEW s, NEW i, Quiet, LinkedFrom(s, i) PROVE LinkedFrom(s, i)'
  BY DEF Quiet, LinkedFrom, Nth, Eoc

LEMMA QuietLast == ASSUME NEW s, Quiet, LinkedToLast(s) PROVE LinkedToLast(s)'
  BY DEF Quiet, LinkedToLast, Free

LEMMA QuietFreed == ASSUME NEW s, NEW i, Quiet, FreedTo(s, i) PROVE FreedTo(s, i)'
  BY DEF Quiet, FreedTo, Free

\* Nothing is cut, and the last cluster of a chain is the last
LEMMA WholeNow ==
    ASSUME NEW L, LinksInv(L), doing \notin Cutting \cup {"end"}
    PROVE  \A f \in Files : LinkedFrom(L[f], 1)
  BY DEF LinksInv

LEMMA WholeNext ==
    ASSUME NEW L, \A f \in Files : LinkedFrom(L[f], 1)', doing' # "end"
    PROVE  LinksInv(L)'
  BY DEF LinksInv

LEMMA WholeStays ==
    ASSUME NEW L, LinksInv(L), doing \notin Cutting \cup {"end"}, Quiet, doing' # "end"
    PROVE  LinksInv(L)'
  BY WholeNow, WholeNext, QuietLinked

\* No read is going on any more
LEMMA Calm ==
    ASSUME NEW L, LayoutInv(L), doing \notin Cutting \cup {"end"}, Quiet, FatTypes,
           fp' \in [size : Nat, start : Nat, cluster : Nat, idx : Nat, pos : Nat],
           got' = <<>>,
           \/ doing' \in {"idle", "close"}
           \/ doing' = "second" /\ file' \in Files /\ fp'.start = start[file']
    PROVE  FatInv'
<1>1. Layout(L)' /\ AccountInv(L)' /\ LinksInv(L)'
  BY QuietLayout, QuietAccount, WholeStays DEF LayoutInv
<1>2. doing' \in {"idle", "close", "second"}
  OBVIOUS
<1>3. CutInv(L)'
  BY <1>2 DEF CutInv, Cutting, Quiet
<1>4. ReadInv(L)'
  BY <1>2 DEF ReadInv, Reading
<1>5. FatTypes' /\ CacheInv'
  BY DEF FatTypes, Quiet
<1> QED
  BY <1>1, <1>3, <1>4, <1>5 DEF FatInv, LayoutInv

LEMMA QuietData == ASSUME FatInv, NEW x, GetData(x), UNCHANGED volume PROVE Quiet
  BY GetDataIs DEF FatInv, volume, Quiet

LEMMA QuietLookup == ASSUME FatInv, NEW x, Lookup(x), UNCHANGED volume PROVE Quiet
  BY LookupIs DEF FatInv, volume, Quiet

LEMMA QuietEntry ==
    ASSUME FatInv, NEW x \in Entries, GetEntry(x), UNCHANGED volume
    PROVE  Quiet /\ Entry(x) = Table[x]
  BY GetEntryIs DEF FatInv, volume, Quiet

LEMMA QuietCache ==
    ASSUME FatInv, UNCHANGED cache, UNCHANGED volume
    PROVE  Quiet
  BY DEF FatInv, CacheInv, volume, cache, Quiet, Table, In

LEMMA HandleIs ==
    ASSUME FatInv, NEW f \in Files
    PROVE  /\ Handle(f) \in [size : Nat, start : Nat, cluster : Nat, idx : Nat, pos : Nat]
           /\ Handle(f).size = size[f] /\ Handle(f).start = start[f]
           /\ Handle(f).cluster = start[f] /\ Handle(f).idx = 0 /\ Handle(f).pos = 0
<1>1. PICK L : Layout(L)
  BY DEF FatInv, LayoutInv
<1>2. start[f] \in Clusters
  BY <1>1, LayoutIs
<1>3. start[f] \in Nat /\ size[f] \in Nat
  BY <1>2, Numbers DEF Clusters, FatInv, FatTypes
<1> QED
  BY <1>3 DEF Handle

LEMMA OpenToReadInv ==
    ASSUME FatInv, NEW path, NEW to, OpenToRead(path, to)
    PROVE  FatInv'
<1>1. PICK L : LayoutInv(L)
  BY DEF FatInv
<1>2. /\ doing = "idle" /\ doing' = "close" /\ fp' = fp /\ got' = got /\ Lookup(to.searched)
      /\ UNCHANGED volume
  BY DEF OpenToRead, Doing, Then
<1>3. Quiet /\ FatTypes
  BY <1>2, QuietLookup DEF FatInv
<1>4. got = <<>>
  BY <1>1, <1>2 DEF LayoutInv, ReadInv, Reading
<1> QED
  BY <1>1, <1>2, <1>3, <1>4, Calm DEF FatTypes, Cutting

LEMMA LsInv ==
    ASSUME FatInv, NEW path, NEW at, NEW len, Ls(path, at, len)
    PROVE  FatInv'
<1>1. PICK L : LayoutInv(L)
  BY DEF FatInv
<1>2. /\ doing = "idle" /\ doing' = "close" /\ fp' = fp /\ got' = got /\ GetData(at)
      /\ UNCHANGED volume
  BY DEF Ls, Doing, Then
<1>3. Quiet /\ FatTypes
  BY <1>2, QuietData DEF FatInv
<1>4. got = <<>>
  BY <1>1, <1>2 DEF LayoutInv, ReadInv, Reading
<1> QED
  BY <1>1, <1>2, <1>3, <1>4, Calm DEF FatTypes, Cutting

LEMMA CreateInv ==
    ASSUME FatInv, NEW f \in Files, NEW to, Create(f, to)
    PROVE  FatInv'
<1>1. PICK L : LayoutInv(L)
  BY DEF FatInv
<1>2. /\ doing = "idle" /\ doing' = "second" /\ file' = f
      /\ fp' = [Handle(f) EXCEPT !.size = 1]
      /\ got' = got /\ Lookup(to.searched) /\ UNCHANGED volume
  BY DEF Create, Doing, Then, results
<1>3. Quiet /\ FatTypes
  BY <1>2, QuietLookup DEF FatInv
<1>4. got = <<>>
  BY <1>1, <1>2 DEF LayoutInv, ReadInv, Reading
<1>5. /\ fp' \in [size : Nat, start : Nat, cluster : Nat, idx : Nat, pos : Nat]
      /\ fp'.start = start[f]
  BY <1>2, HandleIs
<1> QED
  BY <1>1, <1>2, <1>3, <1>4, <1>5, Calm DEF Cutting

LEMMA CloseInv == ASSUME FatInv, Close PROVE FatInv'
<1>1. PICK L : LayoutInv(L)
  BY DEF FatInv
<1>2. /\ doing = "close" /\ doing' = "idle" /\ fp' = NoHandle /\ got' = <<>>
      /\ UNCHANGED cache /\ UNCHANGED volume
  BY DEF Close, Doing, Then
<1>3. Quiet /\ FatTypes
  BY <1>2, QuietCache DEF FatInv
<1>4. NoHandle \in [size : Nat, start : Nat, cluster : Nat, idx : Nat, pos : Nat]
  BY DEF NoHandle
<1> QED
  BY <1>1, <1>2, <1>3, <1>4, Calm DEF Cutting

\* Nothing happens
LEMMA StutterInv == ASSUME FatInv, UNCHANGED fatVars PROVE FatInv'
<1>1. PICK L : LayoutInv(L)
  BY DEF FatInv
<1>2. /\ UNCHANGED <<doing, fp>> /\ UNCHANGED volume /\ UNCHANGED cache /\ UNCHANGED call
      /\ UNCHANGED locals /\ UNCHANGED results
  BY DEF fatVars
<1>3. UNCHANGED <<doing, fp, skips, size, start, file, asked, left, hops, cl, entry, got>>
  BY <1>2 DEF volume, call, locals, results
<1>4. Quiet
  BY <1>2, QuietCache
<1>5. Layout(L)' /\ AccountInv(L)'
  BY <1>1, <1>4, QuietLayout, QuietAccount DEF LayoutInv
<1>6. LinksInv(L)'
  <2>1. LinksInv(L)
    BY <1>1 DEF LayoutInv
  <2>2. ASSUME NEW f \in Files
        PROVE  /\ LinkedFrom(L[f], 1) => LinkedFrom(L[f], 1)'
               /\ LinkedToLast(L[f]) => LinkedToLast(L[f])'
    BY <1>4, QuietLinked, QuietLast
  <2> QED
    BY <1>3, <2>1, <2>2 DEF LinksInv, Cutting
<1>7. CutInv(L)'
  <2>1. PICK s : s = L[file]
    OBVIOUS
  <2>2. \A i : /\ LinkedFrom(s, i) => LinkedFrom(s, i)'
               /\ FreedTo(s, i) => FreedTo(s, i)'
    BY <1>4, QuietLinked, QuietFreed
  <2>3. \A i : FreeAt(s, i) => FreeAt(s, i)'
    BY <1>3, <2>2 DEF FreeAt, Nth, Eoc
  <2>4. \A i : NextAt(s, i) => NextAt(s, i)'
    BY <1>3, <2>2 DEF NextAt
  <2>5. Clusters' = Clusters /\ Eoc' = Eoc /\ Free' = Free /\ Cutting' = Cutting
    BY DEF Clusters, Eoc, Free, Cutting, Root
  <2>6. L[file]' = s /\ file' = file /\ doing' = doing /\ entry' = entry /\ cl' = cl
        /\ fp' = fp /\ start' = start /\ skips' = skips
    BY <1>3, <2>1
  <2>7. CutInv(L)
    BY <1>1 DEF LayoutInv
  <2>8. /\ doing \in {"second"} \cup Cutting => file \in Files /\ fp.start = start[file]
        /\ doing = "first entry" => 2 <= Len(s) /\ cl = s[2] /\ LinkedFrom(s, 1)
        /\ doing = "mark" => FreedTo(s, Len(s))
    BY <2>1, <2>7 DEF CutInv
  <2>9. doing = "free" =>
            (\E i \in 2..Len(s) : FreeAt(s, i)') \/ (skips /\ entry \in {Eoc, Free})
    BY <2>1, <2>3, <2>7 DEF CutInv
  <2>10. doing = "next" => \/ \E i \in 3..Len(s) : NextAt(s, i)'
                           \/ skips /\ entry \in Clusters /\ Table'[entry] = Free
    BY <1>4, <2>1, <2>4, <2>7 DEF CutInv, Quiet
  <2> QED
    BY <2>2, <2>5, <2>6, <2>8, <2>9, <2>10 DEF CutInv
<1>8. ReadInv(L)'
  BY <1>1, <1>3, <1>4 DEF LayoutInv, ReadInv, Quiet, Returned, Place, Entries, Free, Smallest
<1>9. FatTypes' /\ CacheInv'
  BY <1>3, <1>4 DEF FatInv, FatTypes, Quiet
<1> QED
  BY <1>5, <1>6, <1>7, <1>8, <1>9 DEF FatInv, LayoutInv

-----------------------------------------------------------------------------
(* A chain is cut *)

\* While a chain is freed, the others stay as they are
LEMMA OthersStay ==
    ASSUME NEW L, LinksInv(L), Quiet, file' = file, doing # "end", doing' \in Cutting
    PROVE  LinksInv(L)'
  BY QuietLinked DEF LinksInv, Cutting

LEMMA SecondInv == ASSUME FatInv, Second PROVE FatInv'
<1>1. PICK L : LayoutInv(L)
  BY DEF FatInv
<1>2. /\ doing = "second" /\ GetEntry(fp.start) /\ cl' = Entry(fp.start)
      /\ doing' = IF Entry(fp.start) = Eoc THEN "close" ELSE "first entry"
      /\ fp' = fp /\ file' = file /\ entry' = entry /\ got' = got /\ UNCHANGED volume
  BY DEF Second, Doing, Then, call, results
<1>3. PICK s : s = L[file]
  OBVIOUS
<1>4. file \in Files /\ fp.start = start[file] /\ got = <<>> /\ FatTypes
  BY <1>1, <1>2 DEF LayoutInv, CutInv, ReadInv, Reading, FatInv
<1>5. /\ s \in Seq(Clusters) /\ Len(s) \in Nat /\ Len(s) > 0 /\ s[1] = start[file]
      /\ 1 \in 1..Len(s) /\ LinkedFrom(s, 1)
  BY <1>1, <1>2, <1>3, <1>4, LayoutIs, WholeNow DEF LayoutInv, Cutting
<1>6. fp.start \in Entries
  BY <1>4, <1>5, ElementIs
<1>7. Quiet /\ Entry(fp.start) = Nth(s, 2)
  <2>1. Table[s[1]] = Nth(s, 1 + 1) /\ 1 + 1 = 2
    BY <1>5 DEF LinkedFrom
  <2> QED
    BY <1>2, <1>4, <1>5, <1>6, <2>1, QuietEntry
<1>8. CASE doing' = "close"
  BY <1>1, <1>2, <1>4, <1>7, <1>8, Calm DEF FatTypes, Cutting
<1>9. CASE doing' = "first entry"
  <2>1. Nth(s, 2) # Eoc /\ cl' = Nth(s, 2)
    BY <1>2, <1>7, <1>9
  <2>2. 2 <= Len(s) /\ cl' = s[2]
    BY <2>1 DEF Nth
  <2>3. LinkedFrom(s, 1)'
    BY <1>5, <1>7, QuietLinked
  <2>4. CutInv(L)'
    BY <1>2, <1>3, <1>4, <1>7, <1>9, <2>2, <2>3 DEF CutInv, Quiet
  <2>5. ReadInv(L)'
    BY <1>2, <1>4, <1>9 DEF ReadInv, Reading
  <2>6. Layout(L)' /\ AccountInv(L)' /\ LinksInv(L)'
    BY <1>1, <1>2, <1>7, <1>9, QuietLayout, QuietAccount, OthersStay DEF LayoutInv, Cutting
  <2>7. FatTypes' /\ CacheInv'
    BY <1>2, <1>4, <1>7 DEF FatTypes, Quiet
  <2> QED
    BY <2>4, <2>5, <2>6, <2>7 DEF FatInv, LayoutInv
<1> QED
  BY <1>2, <1>8, <1>9

\* What all steps that free a chain have in common
LEMMA CutNow ==
    ASSUME FatInv, NEW L, LayoutInv(L), doing \in Cutting
    PROVE  /\ file \in Files /\ fp.start = start[file] /\ got = <<>> /\ FatTypes /\ CacheInv
           /\ L[file] \in Seq(Clusters) /\ Len(L[file]) \in Nat /\ Len(L[file]) > 0
           /\ L[file][1] = start[file]
           /\ \A i, j \in 1..Len(L[file]) : L[file][i] = L[file][j] => i = j
           /\ \A f \in Files \ {file} : LinkedFrom(L[f], 1)
           /\ Layout(L) /\ AccountInv(L) /\ LinksInv(L) /\ CutInv(L)
<1>1. file \in Files /\ fp.start = start[file] /\ got = <<>> /\ FatTypes /\ CacheInv
  BY DEF LayoutInv, CutInv, ReadInv, Reading, FatInv, Cutting
<1>2. \A f \in Files \ {file} : LinkedFrom(L[f], 1)
  BY DEF LayoutInv, LinksInv, Cutting
<1> QED
  BY <1>1, <1>2, LayoutIs DEF LayoutInv

LEMMA CutNext ==
    ASSUME FatInv, NEW L, LayoutInv(L), doing \in Cutting, doing' \in Cutting,
           UNCHANGED <<fp, file, got>>, Quiet, CutInv(L)'
    PROVE  FatInv'
<1>1. Layout(L)' /\ AccountInv(L)' /\ LinksInv(L)'
  BY QuietLayout, QuietAccount, OthersStay DEF LayoutInv, Cutting
<1>2. ReadInv(L)'
  BY CutNow DEF ReadInv, Reading, Cutting
<1>3. FatTypes' /\ CacheInv'
  BY CutNow DEF FatTypes, Quiet
<1> QED
  BY <1>1, <1>2, <1>3 DEF FatInv, LayoutInv

LEMMA FirstEntryInv == ASSUME FatInv, FirstEntry PROVE FatInv'
<1>1. PICK L : LayoutInv(L)
  BY DEF FatInv
<1>2. /\ doing = "first entry" /\ GetEntry(cl) /\ entry' = Entry(cl) /\ doing' = "free"
      /\ UNCHANGED <<fp, file, cl, got>> /\ UNCHANGED volume
  BY DEF FirstEntry, Doing, Then, call, results
<1>3. doing \in Cutting /\ doing' \in Cutting
  BY <1>2 DEF Cutting
<1>4. PICK s : s = L[file]
  OBVIOUS
<1>5. /\ s \in Seq(Clusters) /\ Len(s) \in Nat /\ file \in Files /\ fp.start = start[file]
      /\ 2 <= Len(s) /\ cl = s[2] /\ LinkedFrom(s, 1)
  BY <1>1, <1>2, <1>3, <1>4, CutNow DEF CutInv
<1>6. 2 \in 1..Len(s) /\ 2 \in 2..Len(s) /\ cl \in Entries
  BY <1>5, ElementIs
<1>7. Quiet /\ entry' = Nth(s, 2 + 1)
  <2>1. Table[s[2]] = Nth(s, 2 + 1)
    BY <1>5, <1>6 DEF LinkedFrom
  <2> QED
    BY <1>2, <1>5, <1>6, <2>1, QuietEntry
<1>8. LinkedFrom(s, 2)'
  <2>1. LinkedFrom(s, 2)
    BY <1>5 DEF LinkedFrom
  <2> QED
    BY <1>7, <2>1, QuietLinked
<1>9. FreeAt(s, 2)'
  <2>1. FreedTo(s, 2 - 1)'
    BY DEF FreedTo
  <2> QED
    BY <1>2, <1>5, <1>6, <1>7, <1>8, <2>1 DEF FreeAt, Nth, Eoc
<1>10. CutInv(L)'
  BY <1>2, <1>4, <1>5, <1>6, <1>7, <1>9 DEF CutInv, Cutting, Quiet
<1> QED
  BY <1>1, <1>2, <1>3, <1>7, <1>10, CutNext

\* A cluster of a chain is freed or ends it: the other chains do not have it
LEMMA SetInChain ==
    ASSUME FatInv, NEW L, Layout(L), NEW f \in Files, NEW i \in 1..Len(L[f]),
           NEW x, x = L[f][i], NEW v \in Values, SetEntry(x, v), UNCHANGED volume
    PROVE  /\ UNCHANGED <<skips, size, start>> /\ CacheInv' /\ Layout(L)'
           /\ Table' = [Table EXCEPT ![x] = v] /\ Table \in [Entries -> Values]
           /\ x \in Clusters /\ x \in Entries
           /\ \A g \in Files \ {f} : LinkedFrom(L[g], 1) => LinkedFrom(L[g], 1)'
           /\ (\A y \in 0..Root : Table[y] = Eoc) => \A y \in 0..Root : Table'[y] = Eoc
<1>1. L[f] \in Seq(Clusters)
  BY LayoutIs
<1>2. x \in Clusters /\ x \in Entries /\ x > Root
  BY <1>1, ElementIs
<1>3. CacheInv' /\ Table' = [Table EXCEPT ![x] = v] /\ Table \in [Entries -> Values]
  BY <1>2, SetEntryIs, TableType DEF FatInv
<1>4. UNCHANGED <<skips, size, start>>
  BY DEF volume
<1>5. Layout(L)'
  BY <1>4 DEF Layout
<1>6. ASSUME NEW g \in Files \ {f}, LinkedFrom(L[g], 1) PROVE LinkedFrom(L[g], 1)'
  <2> SUFFICES ASSUME NEW j \in 1..Len(L[g]) PROVE Table'[L[g][j]] = Nth(L[g], j + 1)
    BY DEF LinkedFrom, Nth, Eoc
  <2>1. L[g] \in Seq(Clusters)
    BY LayoutIs
  <2>2. L[g][j] \in Entries /\ L[g][j] # x
    BY <2>1, ElementIs DEF Layout
  <2>3. Table[L[g][j]] = Nth(L[g], j + 1)
    BY <1>6 DEF LinkedFrom
  <2> QED
    BY <1>3, <2>2, <2>3
<1>7. ASSUME NEW y \in 0..Root, Table[y] = Eoc PROVE Table'[y] = Eoc
  <2>1. y # x
    BY <1>2, Numbers
  <2> QED
    BY <1>3, <1>7, <2>1
<1> QED
  BY <1>2, <1>3, <1>4, <1>5, <1>6, <1>7

LEMMA FreeClusterInv == ASSUME FatInv, FreeCluster PROVE FatInv'
<1>1. PICK L : LayoutInv(L)
  BY DEF FatInv
<1>2. /\ doing = "free" /\ (GoesOn \/ (~skips /\ entry = Eoc))
      /\ SetEntry(cl, Free) /\ doing' = IF GoesOn THEN "next" ELSE "mark"
      /\ UNCHANGED <<fp, file, cl, entry, got>> /\ UNCHANGED volume
  BY DEF FreeCluster, Doing, Then, call, results, locals
<1>3. doing \in Cutting /\ doing' \in Cutting
  BY <1>2 DEF Cutting
<1>4. PICK s : s = L[file]
  OBVIOUS
<1>5. /\ file \in Files /\ fp.start = start[file] /\ got = <<>> /\ FatTypes
      /\ s \in Seq(Clusters) /\ Len(s) \in Nat
      /\ \A i, j \in 1..Len(s) : s[i] = s[j] => i = j
      /\ \A f \in Files \ {file} : LinkedFrom(L[f], 1)
      /\ Layout(L) /\ AccountInv(L) /\ CutInv(L)
  BY <1>1, <1>3, <1>4, CutNow
<1>6. \E i \in 2..Len(s) : FreeAt(s, i)
  <2>1. (\E i \in 2..Len(s) : FreeAt(s, i)) \/ (skips /\ entry \in {Eoc, Free})
    BY <1>2, <1>4, <1>5 DEF CutInv
  <2>2. entry \in {Eoc, Free} => ~GoesOn
    BY Numbers DEF GoesOn
  <2> QED
    BY <1>2, <2>1, <2>2
<1>7. PICK i \in 2..Len(s) : FreeAt(s, i)
  BY <1>6
<1>8. /\ i \in 1..Len(s) /\ cl = s[i] /\ LinkedFrom(s, i) /\ FreedTo(s, i - 1)
      /\ entry = Nth(s, i + 1) \/ (skips /\ entry = cl)
  BY <1>5, <1>7 DEF FreeAt
<1>9. Free \in Values
  BY Numbers DEF Values, Entries
<1>10. /\ UNCHANGED <<skips, size, start>> /\ CacheInv' /\ Layout(L)'
       /\ Table' = [Table EXCEPT ![cl] = Free] /\ Table \in [Entries -> Values]
       /\ cl \in Clusters /\ cl \in Entries
       /\ \A g \in Files \ {file} : LinkedFrom(L[g], 1) => LinkedFrom(L[g], 1)'
       /\ (\A y \in 0..Root : Table[y] = Eoc) => \A y \in 0..Root : Table'[y] = Eoc
  BY <1>2, <1>4, <1>5, <1>8, <1>9, SetInChain
<1>11. LinksInv(L)'
  BY <1>2, <1>3, <1>5, <1>10 DEF LinksInv, Cutting
<1>12. AccountInv(L)'
  <2>1. \A x \in Clusters : x \in Entries
    BY Numbers DEF Clusters, Entries
  <2>2. Clusters' = Clusters /\ Root' = Root /\ Eoc' = Eoc /\ Free' = Free
    BY DEF Clusters, Root, Eoc, Free
  <2>3. \A x \in Clusters : Table[x] = Free => Table'[x] = Free
    BY <1>10, <2>1
  <2> QED
    BY <1>5, <1>10, <2>2, <2>3 DEF AccountInv
<1>13. LinkedFrom(s, i + 1)'
  <2> SUFFICES ASSUME NEW j \in (i + 1)..Len(s) PROVE Table'[s[j]] = Nth(s, j + 1)
    BY DEF LinkedFrom, Nth, Eoc
  <2>1. j \in i..Len(s) /\ j \in 1..Len(s) /\ j # i
    BY <1>5, <1>8
  <2>2. s[j] \in Entries /\ s[j] # cl
    BY <1>5, <1>8, <2>1, ElementIs
  <2> QED
    BY <1>8, <1>10, <2>1, <2>2 DEF LinkedFrom
<1>14. FreedTo(s, i)'
  <2> SUFFICES ASSUME ~skips, NEW j \in 2..i PROVE Table'[s[j]] = Free
    BY <1>10 DEF FreedTo, Free
  <2>1. s[j] \in Entries
    <3>1. j \in 1..Len(s)
      BY <1>5, <1>8
    <3> QED
      BY <1>5, <3>1, ElementIs
  <2>2. CASE j = i
    BY <1>8, <1>10, <2>2
  <2>3. CASE j # i
    <3>1. j \in 2..(i - 1)
      BY <1>5, <1>8, <2>3
    <3>2. Table[s[j]] = Free
      BY <1>8, <3>1 DEF FreedTo
    <3> QED
      BY <1>10, <2>1, <3>2
  <2> QED
    BY <2>2, <2>3
<1>15. CutInv(L)'
  <2>1. CASE GoesOn /\ entry = Nth(s, i + 1)
    <3>1. i + 1 <= Len(s) /\ entry = s[i + 1]
      BY <2>1, Numbers DEF GoesOn, Nth
    <3>2. i + 1 \in 3..Len(s) /\ (i + 1) - 1 = i
      BY <1>5, <1>8, <1>7, <3>1
    <3>3. NextAt(s, i + 1)'
      BY <1>2, <1>13, <1>14, <3>1, <3>2 DEF NextAt
    <3> QED
      BY <1>2, <1>4, <1>5, <1>10, <2>1, <3>2, <3>3 DEF CutInv, Cutting
  <2>2. CASE GoesOn /\ skips /\ entry = cl
    <3>1. skips' /\ entry' \in Clusters /\ Table'[entry'] = Free
      BY <1>2, <1>10, <2>2
    <3> QED
      BY <1>2, <1>5, <1>10, <2>2, <3>1 DEF CutInv, Cutting, Clusters, Root, Free
  <2>3. CASE ~GoesOn
    <3>1. ~skips /\ Nth(s, i + 1) = Eoc
      BY <1>2, <1>8, <2>3
    <3>2. ~(i + 1 <= Len(s))
      <4> SUFFICES ASSUME i + 1 <= Len(s) PROVE FALSE
        OBVIOUS
      <4>1. i + 1 \in 1..Len(s) /\ Nth(s, i + 1) = s[i + 1]
        BY <1>5, <1>8 DEF Nth
      <4> QED
        BY <1>5, <3>1, <4>1, ElementIs
    <3>3. i = Len(s)
      BY <1>5, <1>8, <3>2
    <3> QED
      BY <1>2, <1>4, <1>5, <1>10, <1>14, <2>3, <3>3 DEF CutInv, Cutting
  <2> QED
    BY <1>8, <2>1, <2>2, <2>3
<1>16. ReadInv(L)'
  BY <1>2, <1>5 DEF ReadInv, Reading
<1>17. FatTypes'
  BY <1>2, <1>5, <1>10 DEF FatTypes
<1> QED
  BY <1>10, <1>11, <1>12, <1>15, <1>16, <1>17 DEF FatInv, LayoutInv

LEMMA NextClusterInv == ASSUME FatInv, NextCluster PROVE FatInv'
<1>1. PICK L : LayoutInv(L)
  BY DEF FatInv
<1>2. /\ doing = "next" /\ GetEntry(entry) /\ entry' = Entry(entry) /\ doing' = "free"
      /\ cl' = IF skips THEN Entry(entry) ELSE entry
      /\ UNCHANGED <<fp, file, got>> /\ UNCHANGED volume
  BY DEF NextCluster, Doing, Then, call, results
<1>3. doing \in Cutting /\ doing' \in Cutting
  BY <1>2 DEF Cutting
<1>4. PICK s : s = L[file]
  OBVIOUS
<1>5. /\ file \in Files /\ fp.start = start[file] /\ s \in Seq(Clusters) /\ Len(s) \in Nat
      /\ CutInv(L)
  BY <1>1, <1>3, <1>4, CutNow
<1>6. \/ \E i \in 3..Len(s) : NextAt(s, i)
      \/ skips /\ entry \in Clusters /\ Table[entry] = Free
  BY <1>2, <1>4, <1>5 DEF CutInv
<1>7. CASE \E i \in 3..Len(s) : NextAt(s, i)
  <2>1. PICK i \in 3..Len(s) : NextAt(s, i)
    BY <1>7
  <2>2. i \in 1..Len(s) /\ entry = s[i] /\ LinkedFrom(s, i) /\ FreedTo(s, i - 1)
    BY <1>5, <2>1 DEF NextAt
  <2>3. entry \in Entries
    BY <1>5, <2>2, ElementIs
  <2>4. Quiet /\ entry' = Nth(s, i + 1)
    <3>1. Table[s[i]] = Nth(s, i + 1)
      BY <1>5, <2>2 DEF LinkedFrom
    <3> QED
      BY <1>2, <2>2, <2>3, <3>1, QuietEntry
  <2>5. LinkedFrom(s, i)' /\ FreedTo(s, i - 1)' /\ skips' = skips
    BY <2>2, <2>4, QuietLinked, QuietFreed DEF Quiet
  <2>6. (\E k \in 2..Len(s) : FreeAt(s, k)') \/ (skips' /\ entry' \in {Eoc, Free})
    <3>1. CASE ~skips
      <4>1. cl' = s[i] /\ i \in 2..Len(s)
        BY <1>2, <1>5, <2>1, <2>2, <3>1
      <4>2. FreeAt(s, i)'
        BY <2>4, <2>5, <4>1 DEF FreeAt, Nth, Eoc
      <4> QED
        BY <4>1, <4>2
    <3>2. CASE skips /\ i + 1 <= Len(s)
      <4>1. i + 1 \in 2..Len(s) /\ cl' = s[i + 1] /\ entry' = cl'
        BY <1>2, <1>5, <2>1, <2>4, <3>2 DEF Nth
      <4>2. LinkedFrom(s, i + 1)'
        BY <1>5, <2>1, <2>5 DEF LinkedFrom
      <4>3. FreedTo(s, (i + 1) - 1)'
        BY <2>5, <3>2 DEF FreedTo
      <4>4. FreeAt(s, i + 1)'
        BY <2>5, <3>2, <4>1, <4>2, <4>3 DEF FreeAt
      <4> QED
        BY <4>1, <4>4
    <3>3. CASE skips /\ ~(i + 1 <= Len(s))
      BY <2>4, <2>5, <3>3 DEF Nth
    <3> QED
      BY <3>1, <3>2, <3>3
  <2>7. CutInv(L)'
    BY <1>2, <1>4, <1>5, <2>4, <2>6 DEF CutInv, Cutting, Quiet, Eoc, Free
  <2> QED
    BY <1>1, <1>2, <1>3, <2>4, <2>7, CutNext
<1>8. CASE skips /\ entry \in Clusters /\ Table[entry] = Free
  <2>1. entry \in Entries
    BY <1>8, Numbers DEF Clusters, Entries
  <2>2. Quiet /\ entry' = Free /\ skips'
    BY <1>2, <1>8, <2>1, QuietEntry DEF Quiet
  <2>3. CutInv(L)'
    BY <1>2, <1>5, <2>2 DEF CutInv, Cutting, Quiet, Eoc, Free
  <2> QED
    BY <1>1, <1>2, <1>3, <2>2, <2>3, CutNext
<1> QED
  BY <1>6, <1>7, <1>8

LEMMA EndOfChainInv == ASSUME FatInv, EndOfChain PROVE FatInv'
<1>1. PICK L : LayoutInv(L)
  BY DEF FatInv
<1>2. /\ doing = "free" /\ ~GoesOn /\ (skips \/ entry # Eoc) /\ doing' = "mark"
      /\ UNCHANGED <<fp, file, got>> /\ UNCHANGED volume /\ UNCHANGED cache
  BY DEF EndOfChain, Doing, Then, call, results
<1>3. doing \in Cutting /\ doing' \in Cutting
  BY <1>2 DEF Cutting
<1>4. PICK s : s = L[file]
  OBVIOUS
<1>5. /\ file \in Files /\ fp.start = start[file] /\ s \in Seq(Clusters) /\ Len(s) \in Nat
      /\ CutInv(L)
  BY <1>1, <1>3, <1>4, CutNow
<1>6. Quiet
  BY <1>2, QuietCache
<1>7. skips
  <2> SUFFICES ASSUME ~skips PROVE FALSE
    OBVIOUS
  <2>1. PICK i \in 2..Len(s) : FreeAt(s, i)
    BY <1>2, <1>4, <1>5 DEF CutInv
  <2>2. entry = Nth(s, i + 1) /\ entry # Eoc
    BY <1>2, <2>1 DEF FreeAt
  <2>3. i + 1 \in 1..Len(s) /\ entry = s[i + 1]
    BY <1>5, <2>1, <2>2 DEF Nth
  <2>4. entry \in Clusters
    BY <1>5, <2>3, ElementIs
  <2> QED
    BY <1>2, <2>4, Numbers DEF Clusters, GoesOn
<1>8. CutInv(L)'
  BY <1>2, <1>5, <1>6, <1>7 DEF CutInv, Cutting, Quiet, FreedTo
<1> QED
  BY <1>1, <1>2, <1>3, <1>6, <1>8, CutNext

\* The file is left with its first cluster
LEMMA MarkInv == ASSUME FatInv, Mark PROVE FatInv'
<1>1. PICK L : LayoutInv(L)
  BY DEF FatInv
<1>2. /\ doing = "mark" /\ SetEntry(fp.start, Eoc) /\ doing' = "close"
      /\ UNCHANGED <<fp, file, got>> /\ UNCHANGED volume
  BY DEF Mark, Doing, Then, call, results
<1>3. doing \in Cutting
  BY <1>2 DEF Cutting
<1>4. PICK s : s = L[file]
  OBVIOUS
<1>5. /\ file \in Files /\ fp.start = start[file] /\ got = <<>> /\ FatTypes
      /\ s \in Seq(Clusters) /\ Len(s) \in Nat /\ Len(s) > 0 /\ s[1] = start[file]
      /\ \A i, j \in 1..Len(s) : s[i] = s[j] => i = j
      /\ \A f \in Files \ {file} : LinkedFrom(L[f], 1)
      /\ Layout(L) /\ AccountInv(L) /\ CutInv(L)
  BY <1>1, <1>3, <1>4, CutNow
<1>6. 1 \in 1..Len(s) /\ Eoc \in Values
  BY <1>5 DEF Values
<1>7. PICK x : x = fp.start
  OBVIOUS
<1>8. /\ UNCHANGED <<skips, size, start>> /\ CacheInv' /\ Layout(L)'
      /\ Table' = [Table EXCEPT ![x] = Eoc] /\ Table \in [Entries -> Values]
      /\ x \in Clusters /\ x \in Entries
      /\ \A g \in Files \ {file} : LinkedFrom(L[g], 1) => LinkedFrom(L[g], 1)'
      /\ (\A y \in 0..Root : Table[y] = Eoc) => \A y \in 0..Root : Table'[y] = Eoc
  BY <1>2, <1>4, <1>5, <1>6, <1>7, SetInChain
<1>9. PICK M : M = [L EXCEPT ![file] = <<x>>]
  OBVIOUS
<1>10. /\ M \in [Files -> Seq(Clusters)] /\ M[file] = <<x>> /\ x = L[file][1]
       /\ \A f \in Files \ {file} : M[f] = L[f]
  BY <1>4, <1>5, <1>7, <1>8, <1>9 DEF Layout
<1>11. Layout(M)'
  <2>1. ASSUME NEW f \in Files
        PROVE  Len(M[f]) > 0 /\ M[f][1] = start'[f] /\ IsInjective(M[f])
    <3>1. CASE f = file
      <4>1. M[f] = <<x>>
        BY <1>10, <3>1
      <4>3. Len(<<x>>) = 1 /\ <<x>>[1] = x /\ DOMAIN <<x>> = {1}
        OBVIOUS
      <4>2. x = start'[f]
        BY <1>5, <1>7, <1>8, <3>1
      <4> QED
        BY <4>1, <4>2, <4>3 DEF IsInjective
    <3>2. CASE f # file
      BY <1>8, <1>10, <3>2 DEF Layout
    <3> QED
      BY <3>1, <3>2
  <2>2. ASSUME NEW f \in Files, NEW g \in Files, f # g,
               NEW i \in 1..Len(M[f]), NEW j \in 1..Len(M[g])
        PROVE  M[f][i] # M[g][j]
    <3>1. ASSUME NEW h \in Files, NEW k \in 1..Len(M[h])
          PROVE  k \in 1..Len(L[h]) /\ M[h][k] = L[h][k]
      <4>1. CASE h = file
        BY <1>4, <1>6, <1>10, <3>1, <4>1
      <4>2. CASE h # file
        BY <1>10, <3>1, <4>2
      <4> QED
        BY <4>1, <4>2
    <3> QED
      BY <1>5, <2>2, <3>1 DEF Layout
  <2> QED
    BY <1>10, <2>1, <2>2 DEF Layout, Clusters, Root
<1>12. LinksInv(M)'
  <2>1. ASSUME NEW f \in Files PROVE LinkedFrom(M[f], 1)'
    <3>1. CASE f = file
      <4>1. M[f] = <<x>> /\ Table'[x] = Eoc
        BY <1>8, <1>10, <3>1
      <4> QED
        BY <4>1 DEF LinkedFrom, Nth, Eoc
    <3>2. CASE f # file
      BY <1>5, <1>8, <1>10, <3>2
    <3> QED
      BY <3>1, <3>2
  <2> QED
    BY <1>2, <2>1, WholeNext
<1>13. AccountInv(M)'
  <2>1. Clusters' = Clusters /\ Root' = Root /\ Eoc' = Eoc /\ Free' = Free
    BY DEF Clusters, Root, Eoc, Free
  <2>2. \A y \in 0..Root : Table'[y] = Eoc
    BY <1>5, <1>8 DEF AccountInv
  <2>3. ASSUME ~skips, NEW y \in Clusters
        PROVE  Table'[y] = Free \/ \E f \in Files : \E i \in 1..Len(M[f]) : y = M[f][i]
    <3>1. y \in Entries
      BY Numbers DEF Clusters, Entries
    <3>2. CASE y = x
      <4>1. 1 \in 1..Len(M[file]) /\ M[file][1] = y
        BY <1>10, <3>2
      <4> QED
        BY <1>5, <4>1
    <3>3. CASE y # x /\ Table[y] = Free
      BY <1>8, <3>1, <3>3
    <3>4. CASE y # x /\ \E f \in Files : \E i \in 1..Len(L[f]) : y = L[f][i]
      <4>1. PICK f \in Files : \E i \in 1..Len(L[f]) : y = L[f][i]
        BY <3>4
      <4>2. CASE f # file
        BY <1>10, <4>1, <4>2
      <4>3. CASE f = file
        <5>1. PICK i \in 1..Len(s) : y = s[i]
          BY <1>4, <4>1, <4>3
        <5>2. i \in 2..Len(s)
          BY <1>5, <1>7, <3>4, <5>1
        <5>3. Table[y] = Free
          <6>1. FreedTo(s, Len(s))
            BY <1>2, <1>4, <1>5 DEF CutInv
          <6> QED
            BY <2>3, <5>1, <5>2, <6>1 DEF FreedTo
        <5> QED
          BY <1>8, <3>1, <3>4, <5>3
      <4> QED
        BY <4>2, <4>3
    <3> QED
      BY <1>5, <2>3, <3>2, <3>3, <3>4 DEF AccountInv
  <2> QED
    BY <1>8, <2>1, <2>2, <2>3 DEF AccountInv
<1>14. CutInv(M)' /\ ReadInv(M)'
  BY <1>2, <1>5 DEF CutInv, ReadInv, Cutting, Reading
<1>15. FatTypes'
  BY <1>2, <1>5, <1>8 DEF FatTypes
<1> QED
  BY <1>8, <1>11, <1>12, <1>13, <1>14, <1>15 DEF FatInv, LayoutInv

-----------------------------------------------------------------------------
(* A read, and the chain that grows under it *)

LEMMA WholeClusters ==
    ASSUME NEW p \in Nat
    PROVE  /\ p \div Bytes \in Nat /\ p % Bytes \in 0..Bytes - 1
           /\ p = Bytes * (p \div Bytes) + (p % Bytes)
<1>1. p \div Bytes \in Int /\ p % Bytes \in 0..Bytes - 1
      /\ p = Bytes * (p \div Bytes) + (p % Bytes)
  BY Numbers
<1> DEFINE q == p \div Bytes
           r == p % Bytes
<1> HIDE DEF q, r
<1>2. q \in Int /\ r \in 0..Bytes - 1 /\ p = Bytes * q + r
  BY <1>1 DEF q, r
<1>3. ~(q < 0)
  <2> SUFFICES ASSUME q < 0 PROVE FALSE
    OBVIOUS
  <2>1. -q - 1 \in Nat /\ Bytes * (-q - 1) >= 0
    BY <1>2, Numbers
  <2>2. Bytes * q = -(Bytes * (-q - 1)) - Bytes
    BY <1>2, Numbers
  <2> QED
    BY <1>2, <2>1, <2>2, Numbers
<1> QED
  BY <1>1, <1>2, <1>3 DEF q

\* Which cluster a place is in, and where
LEMMA OneCluster ==
    ASSUME NEW p \in Nat, NEW q \in Nat, NEW r \in 0..Bytes - 1, p = Bytes * q + r
    PROVE  p \div Bytes = q /\ p % Bytes = r
<1> DEFINE a == p \div Bytes
           b == p % Bytes
<1>1. a \in Nat /\ b \in 0..Bytes - 1 /\ p = Bytes * a + b
  BY WholeClusters
<1> HIDE DEF a, b
<1>2. Bytes * (q - a) = b - r /\ Bytes * (a - q) = r - b
  BY <1>1, Numbers
<1>3. \A k \in Int : k >= 1 => Bytes * k >= Bytes
  <2> SUFFICES ASSUME NEW k \in Int, k >= 1 PROVE Bytes * k >= Bytes
    OBVIOUS
  <2>1. Bytes * k = Bytes * (k - 1) + Bytes /\ Bytes * (k - 1) >= 0
    BY Numbers
  <2> QED
    BY <2>1, Numbers
<1>4. ~(q - a >= 1) /\ ~(a - q >= 1)
  BY <1>1, <1>2, <1>3, Numbers
<1>5. q = a /\ r = b
  BY <1>1, <1>2, <1>4, Numbers
<1> QED
  BY <1>5 DEF a, b

\* Reading on in a cluster, up to its end
LEMMA SameCluster ==
    ASSUME NEW p \in Nat, NEW d \in Nat, (p % Bytes) + d < Bytes
    PROVE  (p + d) \div Bytes = p \div Bytes /\ (p + d) % Bytes = (p % Bytes) + d
<1> DEFINE q == p \div Bytes
           r == p % Bytes
<1>1. q \in Nat /\ r \in 0..Bytes - 1 /\ p = Bytes * q + r /\ r + d < Bytes
  BY WholeClusters
<1> HIDE DEF q, r
<1>2. p + d \in Nat /\ r + d \in 0..Bytes - 1 /\ p + d = Bytes * q + (r + d)
  BY <1>1, Numbers
<1>3. (p + d) \div Bytes = q /\ (p + d) % Bytes = r + d
  BY <1>1, <1>2, OneCluster
<1> QED
  BY <1>3 DEF q, r

LEMMA ToNextCluster ==
    ASSUME NEW p \in Nat, NEW d \in Nat, (p % Bytes) + d = Bytes
    PROVE  (p + d) \div Bytes = p \div Bytes + 1
<1> DEFINE q == p \div Bytes
           r == p % Bytes
<1>1. q \in Nat /\ r \in 0..Bytes - 1 /\ p = Bytes * q + r /\ r + d = Bytes
  BY WholeClusters
<1> HIDE DEF q, r
<1>2. Bytes * (q + 1) = Bytes * q + Bytes
  BY <1>1, Numbers
<1>3. p + d \in Nat /\ q + 1 \in Nat /\ 0 \in 0..Bytes - 1 /\ p + d = Bytes * (q + 1) + 0
  BY <1>1, <1>2, Numbers
<1>4. (p + d) \div Bytes = q + 1
  BY <1>3, OneCluster
<1> QED
  BY <1>4 DEF q

\* What all steps of a read have in common
LEMMA ReadNow ==
    ASSUME FatInv, NEW L, LayoutInv(L), doing \in Reading, NEW s, s = L[file]
    PROVE  /\ file \in Files /\ asked \in [from : Nat, count : Nat] /\ FatTypes /\ CacheInv
           /\ fp.size = size[file] /\ fp.idx = fp.pos \div Bytes
           /\ asked.from <= fp.pos /\ fp.pos < fp.size
           /\ left \in Nat /\ left = asked.count - (fp.pos - asked.from)
           /\ \A p \in asked.from..(fp.pos - 1) : p \div Bytes + 1 \in 1..Len(s)
           /\ got = Returned(s, fp.pos - asked.from)
           /\ s \in Seq(Clusters) /\ Len(s) \in Nat /\ Len(s) > 0
           /\ \A i, j \in 1..Len(s) : s[i] = s[j] => i = j
           /\ doing # "end" => \A f \in Files : LinkedFrom(L[f], 1)
           /\ Layout(L) /\ AccountInv(L) /\ LinksInv(L)
<1>1. /\ file \in Files /\ asked \in [from : Nat, count : Nat]
      /\ fp.size = size[file] /\ fp.idx = fp.pos \div Bytes
      /\ asked.from <= fp.pos /\ fp.pos < fp.size
      /\ left \in Nat /\ left = asked.count - (fp.pos - asked.from)
      /\ \A p \in asked.from..(fp.pos - 1) : p \div Bytes + 1 \in 1..Len(s)
      /\ got = Returned(s, fp.pos - asked.from)
  BY DEF LayoutInv, ReadInv
<1>2. FatTypes /\ CacheInv /\ Layout(L) /\ AccountInv(L) /\ LinksInv(L)
  BY DEF FatInv, LayoutInv
<1>3. /\ s \in Seq(Clusters) /\ Len(s) \in Nat /\ Len(s) > 0
      /\ \A i, j \in 1..Len(s) : s[i] = s[j] => i = j
  BY <1>1, <1>2, LayoutIs
<1>4. doing # "end" => \A f \in Files : LinkedFrom(L[f], 1)
  BY <1>2, WholeNow DEF Reading, Cutting
<1> QED
  BY <1>1, <1>2, <1>3, <1>4

\* Where the handle has come to in its chain
HandleAt(s, c) ==
    /\ doing = "read" => fp.idx + 1 <= Len(s) /\ c = s[fp.idx + 1]
    /\ doing \in Reading \ {"read"} =>
        /\ hops \in 1..fp.idx /\ fp.idx - hops + 1 \in 1..Len(s)
        /\ c = s[fp.idx - hops + 1]
    /\ doing \in {"search", "link"} => fp.idx - hops + 1 = Len(s) /\ cl \in Entries
    /\ doing = "link" => Table[cl] = Free
    /\ doing = "end" => fp.idx - hops + 2 = Len(s) /\ cl = s[Len(s)]

\* On the way to where the next byte is, the chain may grow
LEMMA Onward ==
    ASSUME FatInv, NEW L, LayoutInv(L), doing \in Reading, doing' \in Reading,
           UNCHANGED <<skips, size, start>>, UNCHANGED <<file, asked, left, got>>,
           NEW c \in Clusters, fp' = [fp EXCEPT !.cluster = c], CacheInv',
           NEW M, Layout(M)', LinksInv(M)', AccountInv(M)', HandleAt(M[file], c)',
           NEW s, s = L[file], NEW t, t = M[file],
           Len(s) <= Len(t), \A i \in 1..Len(s) : t[i] = s[i]
    PROVE  FatInv'
<1>1. /\ file \in Files /\ asked \in [from : Nat, count : Nat] /\ FatTypes /\ CacheInv
      /\ fp.size = size[file] /\ fp.idx = fp.pos \div Bytes
      /\ asked.from <= fp.pos /\ fp.pos < fp.size
      /\ left \in Nat /\ left = asked.count - (fp.pos - asked.from)
      /\ \A p \in asked.from..(fp.pos - 1) : p \div Bytes + 1 \in 1..Len(s)
      /\ got = Returned(s, fp.pos - asked.from)
      /\ s \in Seq(Clusters) /\ Len(s) \in Nat
  BY ReadNow
<1>2. /\ fp'.size = fp.size /\ fp'.idx = fp.idx /\ fp'.pos = fp.pos /\ fp'.cluster = c
      /\ fp' \in [size : Nat, start : Nat, cluster : Nat, idx : Nat, pos : Nat]
  <2>1. c \in Nat
    BY Numbers DEF Clusters
  <2> QED
    BY <1>1, <2>1 DEF FatTypes
<1>3. t \in Seq(Clusters) /\ Len(t) \in Nat
  BY <1>1 DEF Layout, Clusters, Root
<1>4. \A p \in asked.from..(fp.pos - 1) : p \div Bytes + 1 \in 1..Len(t)
  BY <1>1, <1>3
<1>5. got = Returned(t, fp.pos - asked.from)
  <2>1. ASSUME NEW k \in 1..(fp.pos - asked.from)
        PROVE  Place(t, asked.from + k - 1) = Place(s, asked.from + k - 1)
    <3>1. asked.from + k - 1 \in asked.from..(fp.pos - 1)
      BY <1>1 DEF FatTypes
    <3> QED
      BY <1>1, <3>1 DEF Place
  <2> QED
    BY <1>1, <2>1 DEF Returned
<1>6. /\ doing' = "read" => fp'.idx + 1 <= Len(t) /\ fp'.cluster = t[fp'.idx + 1]
      /\ doing' \in Reading \ {"read"} =>
            /\ hops' \in 1..fp'.idx /\ fp'.idx - hops' + 1 \in 1..Len(t)
            /\ fp'.cluster = t[fp'.idx - hops' + 1]
      /\ doing' \in {"search", "link"} => fp'.idx - hops' + 1 = Len(t) /\ cl' \in Entries
      /\ doing' = "link" => Table'[cl'] = Free
      /\ doing' = "end" => fp'.idx - hops' + 2 = Len(t) /\ cl' = t[Len(t)]
  BY <1>2 DEF HandleAt, Reading, Entries, Free
<1>7. ReadInv(M)'
  <2>1. M[file]' = t /\ Reading' = Reading /\ Entries' = Entries /\ Free' = Free
    BY DEF Reading, Entries, Free
  <2>2. Returned(t, fp.pos - asked.from)' = Returned(t, fp.pos - asked.from)
    BY <1>2 DEF Returned, Place
  <2> HIDE DEF Reading
  <2> QED
    BY <1>1, <1>2, <1>4, <1>5, <1>6, <2>1, <2>2 DEF ReadInv, Reading
<1>8. CutInv(M)'
  BY DEF CutInv, Cutting, Reading
<1>9. FatTypes'
  BY <1>1, <1>2 DEF FatTypes
<1> QED
  BY <1>7, <1>8, <1>9 DEF FatInv, LayoutInv

LEMMA ReadFileInv ==
    ASSUME FatInv, NEW f \in Files, NEW to, NEW offset \in Nat, NEW count \in Nat,
           Read(f, to, offset, count)
    PROVE  FatInv'
<1>1. PICK L : LayoutInv(L)
  BY DEF FatInv
<1>2. PICK from : from = IF offset < size[f] THEN offset ELSE 0
  OBVIOUS
<1>3. PICK h : h = Handle(f)
  OBVIOUS
<1>4. /\ doing = "idle" /\ Lookup(to.searched) /\ Seek(h, from)
      /\ asked' = [from |-> from, count |-> count] /\ file' = f /\ left' = count
      /\ got' = got /\ UNCHANGED volume
  BY <1>2, <1>3 DEF Read, Doing, results
<1>5. /\ h \in [size : Nat, start : Nat, cluster : Nat, idx : Nat, pos : Nat]
      /\ h.size = size[f] /\ h.cluster = start[f] /\ h.idx = 0
  BY <1>3, HandleIs
<1>6. Quiet /\ FatTypes /\ got = <<>>
  BY <1>1, <1>4, QuietLookup DEF FatInv, LayoutInv, ReadInv, Reading
<1>7. from \in Nat /\ from < size[f]
  BY <1>2, <1>6 DEF FatTypes
<1>8. PICK q : q = from \div Bytes
  OBVIOUS
<1>9. q \in Nat
  BY <1>7, <1>8, WholeClusters
<1>10. /\ hops' = q /\ fp' = [h EXCEPT !.idx = q, !.pos = from]
       /\ doing' = IF q > 0 THEN "hop" ELSE "read"
  BY <1>4, <1>5, <1>8, <1>9 DEF Seek, Then
<1>11. /\ fp' \in [size : Nat, start : Nat, cluster : Nat, idx : Nat, pos : Nat]
       /\ fp'.size = size[f] /\ fp'.cluster = start[f] /\ fp'.idx = q /\ fp'.pos = from
  BY <1>5, <1>7, <1>9, <1>10
<1>12. PICK s : s = L[f]
  OBVIOUS
<1>13. Len(s) \in Nat /\ Len(s) > 0 /\ s[1] = start[f]
  BY <1>1, <1>12, LayoutIs DEF LayoutInv
<1>14. Layout(L)' /\ AccountInv(L)' /\ LinksInv(L)'
  BY <1>1, <1>4, <1>6, <1>10, QuietLayout, QuietAccount, WholeStays DEF LayoutInv, Cutting
<1>15. CutInv(L)'
  BY <1>10 DEF CutInv, Cutting
<1>16. Returned(s, from - from)' = <<>>
  BY <1>7 DEF Returned
<1>17. ReadInv(L)'
  <2>1. /\ L[file]' = s /\ asked'.from = from /\ asked'.count = count
        /\ asked' \in [from : Nat, count : Nat] /\ size' = size
    BY <1>4, <1>6, <1>7, <1>12 DEF Quiet
  <2>2. from - from = 0 /\ from..(from - 1) = {} /\ count - 0 = count
    BY <1>7
  <2>3. CASE q > 0
    <3>1. q - q + 1 = 1 /\ q \in 1..q /\ 1 \in 1..Len(s)
      BY <1>9, <1>13, <2>3
    <3> QED
      BY <1>4, <1>6, <1>7, <1>8, <1>10, <1>11, <1>13, <1>16, <2>1, <2>2, <2>3, <3>1
      DEF ReadInv, Reading
  <2>4. CASE ~(q > 0)
    <3>1. q = 0 /\ 0 + 1 <= Len(s) /\ 0 + 1 = 1
      BY <1>9, <1>13, <2>4
    <3> QED
      BY <1>4, <1>6, <1>7, <1>8, <1>10, <1>11, <1>13, <1>16, <2>1, <2>2, <2>4, <3>1
      DEF ReadInv, Reading
  <2> QED
    BY <2>3, <2>4
<1>18. FatTypes'
  BY <1>6, <1>11 DEF FatTypes, Quiet
<1> QED
  BY <1>6, <1>14, <1>15, <1>17, <1>18 DEF FatInv, LayoutInv, Quiet

\* The table stays
LEMMA OnwardQuiet ==
    ASSUME FatInv, NEW L, LayoutInv(L), doing \in Reading \ {"end"},
           doing' \in Reading \ {"end"}, Quiet, UNCHANGED <<file, asked, left, got>>,
           NEW c \in Clusters, fp' = [fp EXCEPT !.cluster = c], HandleAt(L[file], c)'
    PROVE  FatInv'
<1>1. PICK s : s = L[file]
  OBVIOUS
<1>2. Len(s) \in Nat /\ doing \notin Cutting \cup {"end"} /\ doing' # "end"
      /\ doing \in Reading /\ doing' \in Reading
  BY <1>1, ReadNow DEF Reading, Cutting
<1>3. Layout(L)' /\ AccountInv(L)' /\ LinksInv(L)'
  BY <1>2, QuietLayout, QuietAccount, WholeStays DEF LayoutInv
<1>4. UNCHANGED <<skips, size, start>> /\ CacheInv'
  BY DEF Quiet
<1>5. Len(s) <= Len(s) /\ \A i \in 1..Len(s) : s[i] = s[i]
  BY <1>2
<1> QED
  BY <1>1, <1>2, <1>3, <1>4, <1>5, Onward

LEMMA HopInv == ASSUME FatInv, Hop PROVE FatInv'
<1>1. PICK L : LayoutInv(L)
  BY DEF FatInv
<1>2. PICK e : e = Entry(fp.cluster)
  OBVIOUS
<1>3. /\ doing = "hop" /\ GetEntry(fp.cluster)
      /\ IF e # Eoc
         THEN fp' = [fp EXCEPT !.cluster = e] /\ hops' = hops - 1 /\ doing' = Arrived
         ELSE cl' = fp.cluster /\ doing' = "search" /\ fp' = fp /\ hops' = hops
      /\ UNCHANGED <<file, asked, left, got>> /\ UNCHANGED volume
  BY <1>2 DEF Hop, Doing, Then, call, results
<1>4. /\ doing \in Reading \ {"end"} /\ doing \in Reading \ {"read"}
      /\ doing' \in Reading \ {"end"}
  BY <1>3 DEF Reading, Arrived
<1>5. PICK s : s = L[file]
  OBVIOUS
<1>6. /\ file \in Files /\ FatTypes /\ s \in Seq(Clusters) /\ Len(s) \in Nat
      /\ LinkedFrom(s, 1) /\ LayoutInv(L) /\ fp.idx \in Nat
  BY <1>1, <1>3, <1>4, <1>5, ReadNow DEF FatTypes
<1>7. /\ hops \in 1..fp.idx /\ fp.idx - hops + 1 \in 1..Len(s)
      /\ fp.cluster = s[fp.idx - hops + 1]
  BY <1>1, <1>4, <1>5 DEF LayoutInv, ReadInv
<1>8. PICK j \in 1..Len(s) : j = fp.idx - hops + 1
  BY <1>7
<1>9. fp.cluster = s[j] /\ fp.cluster \in Entries /\ fp.cluster \in Clusters
  BY <1>6, <1>7, <1>8, ElementIs
<1>10. Quiet /\ e = Nth(s, j + 1)
  <2>1. Table[s[j]] = Nth(s, j + 1)
    BY <1>6, <1>8 DEF LinkedFrom
  <2> QED
    BY <1>2, <1>3, <1>9, <2>1, QuietEntry
<1>11. CASE e # Eoc
  <2>1. j + 1 \in 1..Len(s) /\ e = s[j + 1]
    BY <1>6, <1>8, <1>10, <1>11 DEF Nth
  <2>2. e \in Clusters
    BY <1>6, <2>1, ElementIs
  <2>3. /\ fp' = [fp EXCEPT !.cluster = e] /\ hops' = hops - 1
        /\ fp'.idx = fp.idx /\ doing' = IF hops = 1 THEN "read" ELSE "hop"
    BY <1>3, <1>6, <1>11 DEF Arrived, FatTypes
  <2>4. HandleAt(s, e)'
    <3>1. CASE hops = 1
      <4>1. fp.idx + 1 = j + 1
        BY <1>6, <1>8, <3>1
      <4> QED
        BY <1>6, <2>1, <2>3, <3>1, <4>1 DEF HandleAt, Reading
    <3>2. CASE hops # 1
      <4>1. hops - 1 \in 1..fp.idx /\ fp.idx - (hops - 1) + 1 = j + 1
        BY <1>6, <1>7, <1>8, <3>2
      <4> QED
        BY <1>6, <2>1, <2>3, <3>2, <4>1 DEF HandleAt, Reading
    <3> QED
      BY <3>1, <3>2
  <2>5. HandleAt(L[file], e)'
    BY <1>3, <1>5, <2>4
  <2> QED
    BY <1>3, <1>4, <1>6, <1>10, <2>2, <2>3, <2>5, OnwardQuiet
<1>12. CASE e = Eoc
  <2>1. j = Len(s)
    <3> SUFFICES ASSUME j # Len(s) PROVE FALSE
      OBVIOUS
    <3>1. j + 1 \in 1..Len(s) /\ e = s[j + 1]
      BY <1>6, <1>8, <1>10 DEF Nth
    <3> QED
      BY <1>6, <1>12, <3>1, ElementIs
  <2>2. fp' = fp /\ hops' = hops /\ doing' = "search" /\ cl' = fp.cluster
    BY <1>3, <1>12
  <2>3. fp' = [fp EXCEPT !.cluster = fp.cluster]
    BY <1>6, <2>2 DEF FatTypes
  <2>4. HandleAt(s, fp.cluster)'
    BY <1>7, <1>8, <1>9, <2>1, <2>2 DEF HandleAt, Reading, Entries
  <2>5. PICK c : c = fp.cluster
    OBVIOUS
  <2>6. HandleAt(L[file], c)'
    BY <1>3, <1>5, <2>2, <2>4, <2>5
  <2> QED
    BY <1>3, <1>4, <1>6, <1>9, <1>10, <2>3, <2>5, <2>6, OnwardQuiet
<1> QED
  BY <1>11, <1>12

LEMMA SearchInv == ASSUME FatInv, Search PROVE FatInv'
<1>1. PICK L : LayoutInv(L)
  BY DEF FatInv
<1>2. /\ doing = "search" /\ GetEntry(cl)
      /\ \/ Entry(cl) = Free /\ doing' = "link" /\ cl' = cl
         \/ cl < LastCluster /\ cl' = cl + 1 /\ doing' = doing
         \/ cl' = 0 /\ doing' = doing
      /\ UNCHANGED <<file, asked, left, got, fp, hops>> /\ UNCHANGED volume
  BY DEF Search, Doing, Then, call, results
<1>3. /\ doing \in Reading \ {"end"} /\ doing \in Reading \ {"read"}
      /\ doing' \in Reading \ {"end"}
  BY <1>2 DEF Reading
<1>4. PICK s : s = L[file]
  OBVIOUS
<1>5. FatTypes /\ s \in Seq(Clusters) /\ Len(s) \in Nat
  BY <1>1, <1>3, <1>4, ReadNow
<1>6. /\ hops \in 1..fp.idx /\ fp.idx - hops + 1 \in 1..Len(s)
      /\ fp.cluster = s[fp.idx - hops + 1] /\ fp.idx - hops + 1 = Len(s) /\ cl \in Entries
  BY <1>1, <1>2, <1>3, <1>4 DEF LayoutInv, ReadInv
<1>7. PICK c : c = fp.cluster
  OBVIOUS
<1>8. c \in Clusters
  BY <1>5, <1>6, <1>7, ElementIs
<1>9. Quiet /\ Entry(cl) = Table[cl]
  BY <1>2, <1>6, QuietEntry
<1>10. fp' = [fp EXCEPT !.cluster = c]
  BY <1>2, <1>5, <1>7 DEF FatTypes
<1>11. cl' \in Entries
  BY <1>2, <1>6, Numbers DEF Entries
<1>12. doing' = "link" => Table'[cl'] = Free
  BY <1>2, <1>9 DEF Quiet
<1>13. HandleAt(s, c)'
  BY <1>2, <1>6, <1>7, <1>11, <1>12 DEF HandleAt, Reading, Entries, Free
<1>14. HandleAt(L[file], c)'
  BY <1>2, <1>4, <1>13
<1> QED
  BY <1>1, <1>2, <1>3, <1>8, <1>9, <1>10, <1>14, OnwardQuiet

LEMMA EndInv == ASSUME FatInv, End PROVE FatInv'
<1>1. PICK L : LayoutInv(L)
  BY DEF FatInv
<1>2. PICK c : c = cl
  OBVIOUS
<1>3. /\ doing = "end" /\ SetEntry(c, Eoc) /\ fp' = [fp EXCEPT !.cluster = c]
      /\ hops' = hops - 1 /\ doing' = Arrived
      /\ UNCHANGED <<file, asked, left, got>> /\ UNCHANGED volume
  BY <1>2 DEF End, Doing, Then, call, results
<1>4. doing \in Reading /\ doing \in Reading \ {"read"} /\ doing' \in Reading /\ doing' # "end"
  BY <1>3 DEF Reading, Arrived
<1>5. PICK s : s = L[file]
  OBVIOUS
<1>6. /\ file \in Files /\ FatTypes /\ s \in Seq(Clusters) /\ Len(s) \in Nat /\ Len(s) > 0
      /\ \A i, j \in 1..Len(s) : s[i] = s[j] => i = j
      /\ Layout(L) /\ LinksInv(L) /\ AccountInv(L) /\ fp.idx \in Nat
  BY <1>1, <1>4, <1>5, ReadNow DEF FatTypes
<1>7. hops \in 1..fp.idx /\ fp.idx - hops + 2 = Len(s) /\ c = s[Len(s)]
  BY <1>1, <1>2, <1>3, <1>4, <1>5 DEF LayoutInv, ReadInv
<1>8. Len(s) \in 1..Len(s) /\ Eoc \in Values
  BY <1>6 DEF Values
<1>9. /\ UNCHANGED <<skips, size, start>> /\ CacheInv' /\ Layout(L)'
      /\ Table' = [Table EXCEPT ![c] = Eoc] /\ Table \in [Entries -> Values]
      /\ c \in Clusters /\ c \in Entries
      /\ \A g \in Files \ {file} : LinkedFrom(L[g], 1) => LinkedFrom(L[g], 1)'
      /\ (\A y \in 0..Root : Table[y] = Eoc) => \A y \in 0..Root : Table'[y] = Eoc
  BY <1>3, <1>5, <1>6, <1>7, <1>8, SetInChain
<1>10. LinksInv(L)'
  <2>1. LinkedToLast(s)
    BY <1>3, <1>5, <1>6 DEF LinksInv, Cutting
  <2>2. LinkedFrom(s, 1)'
    <3> SUFFICES ASSUME NEW j \in 1..Len(s) PROVE Table'[s[j]] = Nth(s, j + 1)
      BY DEF LinkedFrom, Nth, Eoc
    <3>1. CASE j = Len(s)
      <4>1. ~(j + 1 <= Len(s))
        BY <1>6, <3>1
      <4> QED
        BY <1>7, <1>9, <3>1, <4>1 DEF Nth
    <3>2. CASE j # Len(s)
      <4>1. j \in 1..(Len(s) - 1) /\ j + 1 <= Len(s)
        BY <1>6, <3>2
      <4>2. s[j] \in Entries /\ s[j] # c
        BY <1>6, <1>7, <1>8, <3>2, ElementIs
      <4> QED
        BY <1>9, <2>1, <4>1, <4>2 DEF LinkedToLast, Nth
    <3> QED
      BY <3>1, <3>2
  <2>3. \A f \in Files \ {file} : LinkedFrom(L[f], 1)'
    BY <1>3, <1>6, <1>9 DEF LinksInv, Cutting
  <2> QED
    BY <1>4, <1>5, <2>2, <2>3, WholeNext
<1>11. AccountInv(L)'
  <2>1. \A x \in Clusters : x \in Entries
    BY Numbers DEF Clusters, Entries
  <2>2. Clusters' = Clusters /\ Root' = Root /\ Eoc' = Eoc /\ Free' = Free
    BY DEF Clusters, Root, Eoc, Free
  <2>3. \A x \in Clusters : Table[x] = Free =>
            Table'[x] = Free \/ \E i \in 1..Len(L[file]) : x = L[file][i]
    BY <1>5, <1>7, <1>8, <1>9, <2>1
  <2> QED
    BY <1>6, <1>9, <2>2, <2>3 DEF AccountInv
<1>12. HandleAt(s, c)'
  <2>1. fp'.idx = fp.idx /\ hops' = hops - 1 /\ doing' = IF hops = 1 THEN "read" ELSE "hop"
    BY <1>3, <1>6 DEF Arrived, FatTypes
  <2>2. CASE hops = 1
    <3>1. fp.idx + 1 = Len(s) /\ fp.idx + 1 <= Len(s)
      BY <1>6, <1>7, <2>2
    <3> QED
      BY <1>7, <2>1, <2>2, <3>1 DEF HandleAt, Reading
  <2>3. CASE hops # 1
    <3>1. hops - 1 \in 1..fp.idx /\ fp.idx - (hops - 1) + 1 = Len(s)
      BY <1>6, <1>7, <2>3
    <3> QED
      BY <1>7, <1>8, <2>1, <2>3, <3>1 DEF HandleAt, Reading
  <2> QED
    BY <2>2, <2>3
<1>13. HandleAt(L[file], c)'
  BY <1>3, <1>5, <1>12
<1>14. Len(s) <= Len(s) /\ \A i \in 1..Len(s) : s[i] = s[i]
  BY <1>6
<1> QED
  BY <1>1, <1>3, <1>4, <1>5, <1>9, <1>10, <1>11, <1>13, <1>14, Onward

\* The chain grows by a free cluster
LEMMA LinkInv == ASSUME FatInv, Link PROVE FatInv'
<1>1. PICK L : LayoutInv(L)
  BY DEF FatInv
<1>2. PICK x : x = fp.cluster
  OBVIOUS
<1>3. PICK c : c = cl
  OBVIOUS
<1>4. /\ doing = "link" /\ SetEntry(x, c) /\ doing' = "end"
      /\ UNCHANGED <<file, asked, left, got, fp, hops, cl>> /\ UNCHANGED volume
  BY <1>2, <1>3 DEF Link, Doing, Then, call, results, locals
<1>5. doing \in Reading /\ doing \in Reading \ {"read"} /\ doing' \in Reading /\ doing # "end"
  BY <1>4 DEF Reading
<1>6. PICK s : s = L[file]
  OBVIOUS
<1>7. /\ file \in Files /\ FatTypes /\ s \in Seq(Clusters) /\ Len(s) \in Nat /\ Len(s) > 0
      /\ \A i, j \in 1..Len(s) : s[i] = s[j] => i = j
      /\ \A f \in Files : LinkedFrom(L[f], 1)
      /\ Layout(L) /\ AccountInv(L) /\ CacheInv /\ fp.idx \in Nat
  BY <1>1, <1>5, <1>6, ReadNow DEF FatTypes
<1>8. /\ hops \in 1..fp.idx /\ fp.idx - hops + 1 \in 1..Len(s) /\ x = s[fp.idx - hops + 1]
      /\ fp.idx - hops + 1 = Len(s) /\ c \in Entries /\ Table[c] = Free
  BY <1>1, <1>2, <1>3, <1>4, <1>5, <1>6 DEF LayoutInv, ReadInv
<1>9. Len(s) \in 1..Len(s) /\ x = s[Len(s)] /\ c \in Values
  BY <1>8 DEF Values
<1>10. /\ UNCHANGED <<skips, size, start>> /\ CacheInv' /\ Layout(L)'
       /\ Table' = [Table EXCEPT ![x] = c] /\ Table \in [Entries -> Values]
       /\ x \in Clusters /\ x \in Entries
       /\ \A g \in Files \ {file} : LinkedFrom(L[g], 1) => LinkedFrom(L[g], 1)'
       /\ (\A y \in 0..Root : Table[y] = Eoc) => \A y \in 0..Root : Table'[y] = Eoc
  BY <1>4, <1>6, <1>7, <1>9, SetInChain
\* It is in no chain yet
<1>11. ASSUME NEW f \in Files, NEW i \in 1..Len(L[f]) PROVE L[f][i] # c
  <2>1. PICK r : r = L[f]
    OBVIOUS
  <2>2. r \in Seq(Clusters) /\ LinkedFrom(r, 1) /\ i \in 1..Len(r)
    BY <1>7, <1>11, <2>1, LayoutIs
  <2>3. Table[r[i]] = Nth(r, i + 1) /\ Len(r) \in Nat
    BY <2>2 DEF LinkedFrom
  <2>4. Nth(r, i + 1) # Free
    <3>1. CASE i + 1 <= Len(r)
      <4>1. i + 1 \in 1..Len(r) /\ Nth(r, i + 1) = r[i + 1]
        BY <2>2, <2>3, <3>1 DEF Nth
      <4> QED
        BY <2>2, <4>1, ElementIs
    <3>2. CASE ~(i + 1 <= Len(r))
      BY <3>2, Numbers DEF Nth
    <3> QED
      BY <3>1, <3>2
  <2> QED
    BY <1>8, <2>1, <2>3, <2>4
<1>12. c \in Clusters
  <2>1. c \notin 0..Root
    BY <1>7, <1>8, Numbers DEF AccountInv
  <2> QED
    BY <1>8, <2>1, Numbers DEF Clusters, Entries
<1>13. PICK t : t = Append(s, c)
  OBVIOUS
<1>14. /\ t \in Seq(Clusters) /\ Len(t) = Len(s) + 1 /\ t[Len(t)] = c
       /\ \A i \in 1..Len(s) : t[i] = s[i]
  BY <1>7, <1>12, <1>13
<1>15. PICK M : M = [L EXCEPT ![file] = t]
  OBVIOUS
<1>16. /\ M \in [Files -> Seq(Clusters)] /\ M[file] = t
       /\ \A f \in Files \ {file} : M[f] = L[f]
  BY <1>7, <1>14, <1>15 DEF Layout
<1>17. ASSUME NEW h \in Files, NEW k \in 1..Len(M[h])
       PROVE  \/ k \in 1..Len(L[h]) /\ M[h][k] = L[h][k]
              \/ h = file /\ k = Len(t) /\ M[h][k] = c
  <2>1. CASE h = file
    <3>1. k \in 1..Len(s) \/ k = Len(t)
      BY <1>7, <1>14, <1>16, <1>17, <2>1
    <3> QED
      BY <1>6, <1>14, <1>16, <2>1, <3>1
  <2>2. CASE h # file
    BY <1>16, <1>17, <2>2
  <2> QED
    BY <2>1, <2>2
<1>18. Layout(M)'
  <2>1. ASSUME NEW f \in Files
        PROVE  Len(M[f]) > 0 /\ M[f][1] = start'[f] /\ IsInjective(M[f])
    <3>1. CASE f = file
      <4>1. t[1] = start'[f] /\ Len(t) > 0
        <5>1. s[1] = start[f] /\ 1 \in 1..Len(s)
          BY <1>6, <1>7, <3>1, LayoutIs
        <5> QED
          BY <1>7, <1>10, <1>14, <5>1
      <4>2. ASSUME NEW i \in 1..Len(t), NEW j \in 1..Len(t), t[i] = t[j] PROVE i = j
        <5>1. \/ i \in 1..Len(s) /\ t[i] = s[i] /\ s[i] # c
              \/ i = Len(t) /\ t[i] = c
          BY <1>6, <1>7, <1>11, <1>14
        <5>2. \/ j \in 1..Len(s) /\ t[j] = s[j] /\ s[j] # c
              \/ j = Len(t) /\ t[j] = c
          BY <1>6, <1>7, <1>11, <1>14
        <5> QED
          BY <1>7, <4>2, <5>1, <5>2
      <4>3. DOMAIN t = 1..Len(t)
        BY <1>14
      <4> QED
        BY <1>16, <3>1, <4>1, <4>2, <4>3 DEF IsInjective
    <3>2. CASE f # file
      BY <1>10, <1>16, <3>2 DEF Layout
    <3> QED
      BY <3>1, <3>2
  <2>2. ASSUME NEW f \in Files, NEW g \in Files, f # g,
               NEW i \in 1..Len(M[f]), NEW j \in 1..Len(M[g])
        PROVE  M[f][i] # M[g][j]
    <3>1. \/ i \in 1..Len(L[f]) /\ M[f][i] = L[f][i]
          \/ f = file /\ M[f][i] = c
      BY <1>17
    <3>2. \/ j \in 1..Len(L[g]) /\ M[g][j] = L[g][j]
          \/ g = file /\ M[g][j] = c
      BY <1>17
    <3>3. CASE i \in 1..Len(L[f]) /\ M[f][i] = L[f][i]
      BY <1>7, <1>11, <2>2, <3>2, <3>3 DEF Layout
    <3>4. CASE f = file /\ M[f][i] = c
      BY <1>11, <2>2, <3>2, <3>4
    <3> QED
      BY <3>1, <3>3, <3>4
  <2> QED
    BY <1>16, <2>1, <2>2 DEF Layout, Clusters, Root
<1>19. LinksInv(M)'
  <2>1. LinkedToLast(t)'
    <3>1. c # x
      BY <1>6, <1>7, <1>9, <1>11
    <3>2. Table'[c] = Free /\ Table'[x] = c
      BY <1>8, <1>10, <3>1
    <3>3. ASSUME NEW j \in 1..(Len(t) - 1) PROVE Table'[t[j]] = t[j + 1]
      <4>1. j \in 1..Len(s) /\ t[j] = s[j]
        BY <1>7, <1>14
      <4>2. CASE j = Len(s)
        BY <1>9, <1>14, <3>2, <4>1, <4>2
      <4>3. CASE j # Len(s)
        <5>1. j + 1 \in 1..Len(s) /\ j + 1 <= Len(s) /\ t[j + 1] = s[j + 1]
          BY <1>7, <1>14, <4>1, <4>3
        <5>2. Table[s[j]] = s[j + 1]
          BY <1>6, <1>7, <4>1, <5>1 DEF LinkedFrom, Nth
        <5>3. s[j] \in Entries /\ s[j] # x
          BY <1>7, <1>9, <4>1, <4>3, ElementIs
        <5> QED
          BY <1>10, <4>1, <5>1, <5>2, <5>3
      <4> QED
        BY <4>2, <4>3
    <3> QED
      BY <1>14, <3>2, <3>3 DEF LinkedToLast, Free
  <2>2. \A f \in Files \ {file} : LinkedFrom(M[f], 1)'
    BY <1>7, <1>10, <1>16
  <2> QED
    BY <1>4, <1>16, <2>1, <2>2 DEF LinksInv, Cutting
<1>20. AccountInv(M)'
  <2>1. Clusters' = Clusters /\ Root' = Root /\ Eoc' = Eoc /\ Free' = Free
    BY DEF Clusters, Root, Eoc, Free
  <2>2. \A y \in 0..Root : Table'[y] = Eoc
    BY <1>7, <1>10 DEF AccountInv
  <2>3. ASSUME NEW h \in Files, NEW k \in 1..Len(L[h])
        PROVE  k \in 1..Len(M[h]) /\ M[h][k] = L[h][k]
    <3>1. CASE h = file
      <4>1. L[h] = s /\ M[h] = t
        BY <1>6, <1>16, <3>1
      <4>2. k \in 1..Len(s) /\ Len(t) = Len(s) + 1 /\ Len(s) \in Nat
        BY <1>7, <1>14, <4>1
      <4> QED
        BY <1>14, <4>1, <4>2
    <3>2. CASE h # file
      BY <1>16, <2>3, <3>2
    <3> QED
      BY <3>1, <3>2
  <2>4. ASSUME ~skips, NEW y \in Clusters
        PROVE  Table'[y] = Free \/ \E f \in Files : \E i \in 1..Len(M[f]) : y = M[f][i]
    <3>1. y \in Entries
      BY Numbers DEF Clusters, Entries
    <3>2. CASE \E f \in Files : \E i \in 1..Len(L[f]) : y = L[f][i]
      BY <2>3, <3>2
    <3>3. CASE Table[y] = Free /\ ~\E f \in Files : \E i \in 1..Len(L[f]) : y = L[f][i]
      <4>1. y # x
        BY <1>6, <1>7, <1>9, <3>3
      <4> QED
        BY <1>10, <3>1, <3>3, <4>1
    <3> QED
      BY <1>7, <2>4, <3>2, <3>3 DEF AccountInv
  <2> QED
    BY <1>10, <2>1, <2>2, <2>4 DEF AccountInv
<1>21. HandleAt(t, x)'
  <2>1. /\ fp.idx - hops + 2 = Len(t) /\ fp.idx - hops + 1 \in 1..Len(t)
        /\ x = t[fp.idx - hops + 1]
    BY <1>7, <1>8, <1>14
  <2> QED
    BY <1>3, <1>4, <1>8, <1>14, <2>1 DEF HandleAt, Reading
<1>22. HandleAt(M[file], x)'
  BY <1>4, <1>16, <1>21
<1>23. fp' = [fp EXCEPT !.cluster = x]
  BY <1>2, <1>4, <1>7 DEF FatTypes
<1>24. Len(s) <= Len(t)
  BY <1>7, <1>14
<1> QED
  BY <1>1, <1>4, <1>5, <1>6, <1>10, <1>14, <1>16, <1>18, <1>19, <1>20, <1>22, <1>23, <1>24,
     Onward

\* The bytes that come next
Following(s, n, x) == [k \in 1..x |-> Place(s, asked.from + n + k - 1)]

LEMMA ReturnedOn ==
    ASSUME NEW s, NEW n \in Nat, NEW x \in Nat, asked \in [from : Nat, count : Nat]
    PROVE  Returned(s, n) \o Following(s, n, x) = Returned(s, n + x)
<1> DEFINE part == Following(s, n, x)
<1> DEFINE all == Returned(s, n + x)
           S == {all[k] : k \in 1..(n + x)}
<1>1. all = [k \in 1..(n + x) |-> Place(s, asked.from + k - 1)] /\ asked.from \in Nat
  BY DEF Returned
<1>2. Returned(s, n) = [k \in 1..n |-> all[k]]
  BY DEF Returned
<1>3. part = [k \in 1..x |-> all[n + k]]
  BY <1>1 DEF Following
<1>4. all = [k \in 1..(n + x) |-> all[k]]
  BY <1>1
<1> HIDE DEF all, part
<1>5. \A k \in 1..n : all[k] \in S
  OBVIOUS
<1>6. \A k \in 1..x : all[n + k] \in S
  OBVIOUS
<1> HIDE DEF S
<1>7. Returned(s, n) \in Seq(S) /\ Len(Returned(s, n)) = n
  BY <1>2, <1>5
<1>8. part \in Seq(S) /\ Len(part) = x
  <2>1. part \in [1..x -> S]
    BY <1>3, <1>6
  <2> QED
    BY <2>1
<1>9. PICK a \in Seq(S) : a = Returned(s, n)
  BY <1>7
<1>10. PICK b \in Seq(S) : b = all /\ Len(b) = n + x
  <2>1. PICK m \in Nat : m = n + x
    OBVIOUS
  <2>2. \A k \in 1..m : all[k] \in S
    BY <2>1 DEF S
  <2>3. all \in [1..m -> S]
    BY <1>4, <2>1, <2>2
  <2>4. all \in Seq(S) /\ Len(all) = m
    BY <2>3
  <2> QED
    BY <2>1, <2>4
<1>11. Len(a) = n /\ Len(b) = n + x /\ Len(part) = x
  BY <1>4, <1>7, <1>8, <1>9, <1>10
<1>12. a \o part \in Seq(S) /\ Len(a \o part) = n + x
       /\ \A i \in 1..(n + x) : (a \o part)[i] = IF i <= n THEN a[i] ELSE part[i - n]
  <2>1. /\ a \o part \in Seq(S) /\ Len(a \o part) = Len(a) + Len(part)
        /\ \A i \in 1..Len(a) + Len(part) :
            (a \o part)[i] = IF i <= Len(a) THEN a[i] ELSE part[i - Len(a)]
    BY <1>8, ConcatProperties
  <2> QED
    BY <1>11, <2>1
<1>13. ASSUME NEW i \in 1..(n + x) PROVE (a \o part)[i] = b[i]
  <2>1. CASE i <= n
    <3>1. i \in 1..n /\ a[i] = all[i]
      BY <1>2, <1>9, <2>1
    <3> QED
      BY <1>10, <1>12, <2>1, <3>1
  <2>2. CASE ~(i <= n)
    <3>1. i - n \in 1..x /\ n + (i - n) = i
      BY <2>2
    <3>2. part[i - n] = all[i]
      BY <1>3, <3>1
    <3> QED
      BY <1>10, <1>12, <2>2, <3>2
  <2> QED
    BY <2>1, <2>2
<1>14. a \o part = b
  BY <1>11, <1>12, <1>13, SeqEqual
<1> QED
  BY <1>9, <1>10, <1>14 DEF all, part

LEMMA ReadSectorInv == ASSUME FatInv, ReadSector PROVE FatInv'
<1>1. PICK L : LayoutInv(L)
  BY DEF FatInv
<1>2. doing = "read" /\ doing \in Reading /\ doing \notin Cutting \cup {"end"}
  BY DEF ReadSector, Doing, Reading, Cutting
<1>3. PICK s : s = L[file]
  OBVIOUS
<1>4. /\ file \in Files /\ asked \in [from : Nat, count : Nat] /\ FatTypes
      /\ got = Returned(s, fp.pos - asked.from)
      /\ Layout(L) /\ LinksInv(L) /\ AccountInv(L) /\ Len(s) \in Nat
  BY <1>1, <1>2, <1>3, ReadNow
<1>5. PICK from \in Nat, count \in Nat : from = asked.from /\ count = asked.count
  BY <1>4
<1>6. PICK pos \in Nat, end \in Nat, idx \in Nat, c \in Nat :
        pos = fp.pos /\ end = fp.size /\ idx = fp.idx /\ c = fp.cluster
  BY <1>4 DEF FatTypes
<1>7. PICK rest \in Nat : rest = left
  BY <1>1, <1>2, <1>3, ReadNow
<1>8. /\ end = size[file] /\ idx = pos \div Bytes /\ from <= pos /\ pos < end
      /\ rest = count - (pos - from)
      /\ \A p \in from..(pos - 1) : p \div Bytes + 1 \in 1..Len(s)
      /\ got = Returned(s, pos - from)
  BY <1>1, <1>2, <1>3, <1>5, <1>6, <1>7, ReadNow
<1>9. idx + 1 <= Len(s) /\ c = s[idx + 1]
  BY <1>1, <1>2, <1>3, <1>6 DEF LayoutInv, ReadInv
<1>10. PICK r \in 0..Bytes - 1 : r = pos % Bytes
  BY <1>6, WholeClusters
<1>11. PICK x \in Nat :
        /\ x = Smallest(Smallest(Bytes - r, end - pos), rest)
        /\ x > 0 /\ x <= Bytes - r /\ x <= end - pos /\ x <= rest
        /\ x = Bytes - r \/ x = end - pos \/ x = rest
  <2>1. PICK a \in Nat : a = Bytes - r /\ a > 0
    BY <1>10, Numbers
  <2>2. PICK b \in Nat : b = end - pos /\ b > 0
    BY <1>6, <1>8
  <2>3. rest > 0
    BY <1>7 DEF ReadSector
  <2>4. PICK x \in Nat : /\ x = Smallest(Smallest(a, b), rest)
                         /\ x > 0 /\ x <= a /\ x <= b /\ x <= rest
                         /\ x = a \/ x = b \/ x = rest
    BY <1>7, <2>1, <2>2, <2>3 DEF Smallest
  <2> QED
    BY <2>1, <2>2, <2>4
<1>12. PICK part : part = [k \in 1..x |-> <<c, r + k - 1>>]
  OBVIOUS
<1>13. /\ rest > 0 /\ GetData(fp.cluster) /\ got' = got \o part
       /\ IF pos + x < end
          THEN left' = rest - x /\ Seek(fp, pos + x)
          ELSE left' = 0 /\ doing' = "close" /\ UNCHANGED <<fp, hops>>
       /\ UNCHANGED <<file, asked>> /\ UNCHANGED volume
  BY <1>6, <1>7, <1>10, <1>11, <1>12 DEF ReadSector, Then, call
<1>14. /\ x \in Nat /\ x > 0 /\ x <= Bytes - r /\ x <= end - pos /\ x <= rest
       /\ pos + x < end => x = Bytes - r \/ x = rest
       /\ pos - from \in Nat /\ pos - from + x = pos + x - from /\ pos + x \in Nat
       /\ rest - x \in Nat /\ rest - x = count - (pos + x - from)
       /\ ~(pos + x < end) => pos - from + x = end - from /\ end - from <= count
  <2>1. PICK a \in Nat : a = Bytes - r
    BY <1>10, Numbers
  <2>2. from <= pos /\ pos < end /\ rest = count - (pos - from)
    BY <1>8
  <2>3. x > 0 /\ x <= a /\ x <= end - pos /\ x <= rest /\ (x = a \/ x = end - pos \/ x = rest)
    BY <1>11, <2>1
  <2>4. /\ pos + x < end => x = a \/ x = rest
        /\ pos - from \in Nat /\ pos - from + x = pos + x - from /\ pos + x \in Nat
        /\ rest - x \in Nat /\ rest - x = count - (pos + x - from)
        /\ ~(pos + x < end) => pos - from + x = end - from /\ end - from <= count
    BY <2>2, <2>3
  <2> QED
    BY <1>11, <2>1, <2>4
<1>15. PICK n \in Nat : n = pos - from
  BY <1>14
<1>16. PICK next \in Nat : next = pos + x
  BY <1>14
<1>17. Quiet
  BY <1>13, QuietData
<1>18. ASSUME NEW d \in Nat, d < x
       PROVE  (pos + d) \div Bytes = idx /\ (pos + d) % Bytes = r + d
  <2>1. r + d < Bytes
    BY <1>14, <1>18, Numbers
  <2> QED
    BY <1>8, <1>10, <2>1, SameCluster
<1>19. part = Following(s, n, x)
  <2> SUFFICES ASSUME NEW k \in 1..x PROVE <<c, r + k - 1>> = Place(s, from + n + k - 1)
    BY <1>5, <1>12 DEF Following
  <2>1. PICK d \in Nat : d = k - 1 /\ d < x
    BY <1>14
  <2>2. PICK p \in Nat : p = from + n + k - 1 /\ p = pos + d
    BY <1>15, <2>1
  <2>3. p \div Bytes = idx /\ p % Bytes = r + d
    BY <1>18, <2>1, <2>2
  <2>4. Place(s, p) = <<c, r + d>>
    BY <1>9, <2>3 DEF Place
  <2>5. r + d = r + k - 1
    BY <2>1
  <2> QED
    BY <2>2, <2>4, <2>5
<1>20. got' = Returned(s, next - from)
  <2>1. got' = Returned(s, n) \o part
    BY <1>8, <1>13, <1>15
  <2>2. got' = Returned(s, n + x)
    BY <1>4, <1>14, <1>15, <1>19, <2>1, ReturnedOn
  <2>3. n + x = next - from
    BY <1>14, <1>15, <1>16
  <2> QED
    BY <2>2, <2>3
<1>21. \A p \in from..(next - 1) : p \div Bytes + 1 \in 1..Len(s)
  <2> SUFFICES ASSUME NEW p \in from..(next - 1) PROVE p \div Bytes + 1 \in 1..Len(s)
    OBVIOUS
  <2>1. CASE p < pos
    <3>1. p \in from..(pos - 1)
      BY <2>1
    <3> QED
      BY <1>8, <3>1
  <2>2. CASE p >= pos
    <3>1. PICK d \in Nat : p = pos + d /\ d < x
      <4>1. p - pos \in Nat /\ p - pos < x /\ p = pos + (p - pos)
        BY <1>14, <1>16, <2>2
      <4> QED
        BY <4>1
    <3>2. p \div Bytes = idx
      BY <1>18, <3>1
    <3> QED
      BY <1>4, <1>9, <3>2
  <2> QED
    BY <2>1, <2>2
<1>22. Layout(L)' /\ AccountInv(L)'
  BY <1>4, <1>17, QuietLayout, QuietAccount
<1>23. /\ UNCHANGED <<skips, size, start>> /\ CacheInv' /\ file' = file /\ asked' = asked
       /\ \A k : Returned(s, k)' = Returned(s, k)
       /\ L[file]' = s
  BY <1>3, <1>13, <1>17 DEF Quiet, Returned, Place
<1>24. fp \in [size : Nat, start : Nat, cluster : Nat, idx : Nat, pos : Nat]
  BY <1>4 DEF FatTypes
<1>25. CASE next < end
  <2>1. PICK q : q = next \div Bytes
    OBVIOUS
  <2>2. q \in Nat /\ (q = idx \/ q = idx + 1)
    <3>1. q \in Nat
      BY <1>16, <2>1, WholeClusters
    <3>2. CASE x < Bytes - r
      <4>1. r + x < Bytes
        BY <1>14, <3>2, Numbers
      <4>2. q = idx
        BY <1>8, <1>10, <1>14, <1>16, <2>1, <4>1, SameCluster
      <4> QED
        BY <3>1, <4>2
    <3>3. CASE x = Bytes - r
      <4>1. r + x = Bytes
        BY <1>14, <3>3, Numbers
      <4>2. q = idx + 1
        BY <1>8, <1>10, <1>14, <1>16, <2>1, <4>1, ToNextCluster
      <4> QED
        BY <3>1, <4>2
    <3> QED
      BY <1>14, <3>2, <3>3, Numbers
  <2>3. /\ hops' = q - idx /\ fp' = [fp EXCEPT !.idx = q, !.pos = next] /\ left' = rest - x
        /\ doing' = IF q > idx THEN "hop" ELSE "read"
    BY <1>6, <1>13, <1>16, <1>25, <2>1 DEF Seek, Then
  <2>4. /\ fp' \in [size : Nat, start : Nat, cluster : Nat, idx : Nat, pos : Nat]
        /\ fp'.size = end /\ fp'.cluster = c /\ fp'.idx = q /\ fp'.pos = next
    BY <1>6, <1>24, <2>2, <2>3
  <2>5. LinksInv(L)'
    BY <1>2, <1>4, <1>17, <2>3, WholeStays
  <2>6. CutInv(L)'
    BY <2>3 DEF CutInv, Cutting
  <2>7. left' \in Nat /\ left' = count - (next - from)
    BY <1>14, <1>16, <2>3
  <2>8. from <= next /\ next < end
    BY <1>8, <1>14, <1>16, <1>25
  <2>9. ReadInv(L)'
    <3>1. CASE q = idx
      <4>1. doing' = "read"
        BY <2>2, <2>3, <3>1
      <4> QED
        BY <1>4, <1>5, <1>8, <1>9, <1>20, <1>21, <1>23, <2>1, <2>4, <2>7, <2>8, <3>1, <4>1
        DEF ReadInv, Reading
    <3>2. CASE q = idx + 1
      <4>1. doing' = "hop" /\ hops' = 1
        BY <2>2, <2>3, <3>2
      <4>2. 1 \in 1..q /\ q - 1 + 1 = idx + 1 /\ idx + 1 \in 1..Len(s)
        BY <1>4, <1>9, <3>2
      <4> QED
        BY <1>4, <1>5, <1>8, <1>9, <1>20, <1>21, <1>23, <2>1, <2>4, <2>7, <2>8, <4>1, <4>2
        DEF ReadInv, Reading
    <3> QED
      BY <2>2, <3>1, <3>2
  <2>10. FatTypes'
    BY <1>4, <1>23, <2>4 DEF FatTypes
  <2> QED
    BY <1>22, <1>23, <2>5, <2>6, <2>9, <2>10 DEF FatInv, LayoutInv
<1>26. CASE ~(next < end)
  <2>1. doing' = "close" /\ fp' = fp
    BY <1>13, <1>16, <1>26
  <2>2. next - from = end - from /\ end - from <= count
    BY <1>14, <1>16, <1>26
  <2>3. Smallest(count, end - from) = next - from
    BY <2>2 DEF Smallest
  <2>4. LinksInv(L)'
    BY <1>2, <1>4, <1>17, <2>1, WholeStays
  <2>5. CutInv(L)'
    BY <2>1 DEF CutInv, Cutting
  <2>6. Smallest(asked.count, size[file] - asked.from)' = Smallest(count, end - from)
    BY <1>5, <1>8, <1>23 DEF Smallest
  <2>7. ReadInv(L)'
    BY <1>4, <1>20, <1>23, <2>1, <2>3, <2>6 DEF ReadInv, Reading
  <2>8. FatTypes'
    BY <1>4, <1>23, <2>1 DEF FatTypes
  <2> QED
    BY <1>22, <1>23, <2>4, <2>5, <2>7, <2>8 DEF FatInv, LayoutInv
<1> QED
  BY <1>25, <1>26

\* All that was asked for has been read
LEMMA DoneInv == ASSUME FatInv, Done PROVE FatInv'
<1>1. PICK L : LayoutInv(L)
  BY DEF FatInv
<1>2. /\ doing = "read" /\ left = 0 /\ doing' = "close" /\ UNCHANGED <<file, asked, fp, got>>
      /\ UNCHANGED volume /\ UNCHANGED cache
  BY DEF Done, Doing, Then, call, results
<1>3. PICK s : s = L[file]
  OBVIOUS
<1>4. /\ file \in Files /\ asked \in [from : Nat, count : Nat] /\ FatTypes
      /\ fp.size = size[file] /\ asked.from <= fp.pos /\ fp.pos < fp.size
      /\ left = asked.count - (fp.pos - asked.from)
      /\ got = Returned(s, fp.pos - asked.from)
      /\ Layout(L) /\ LinksInv(L) /\ AccountInv(L)
  BY <1>1, <1>2, <1>3, ReadNow DEF Reading
<1>5. Quiet
  BY <1>2, QuietCache
<1>6. Layout(L)' /\ AccountInv(L)' /\ LinksInv(L)'
  BY <1>2, <1>4, <1>5, QuietLayout, QuietAccount, WholeStays DEF Cutting
<1>7. CutInv(L)'
  BY <1>2 DEF CutInv, Cutting
<1>8. Smallest(asked.count, size[file] - asked.from) = fp.pos - asked.from
  <2>1. fp.pos \in Nat /\ size[file] \in Nat /\ asked.from \in Nat /\ asked.count \in Nat
    BY <1>4 DEF FatTypes
  <2> QED
    BY <1>2, <1>4, <2>1 DEF Smallest
<1>9. ReadInv(L)'
  <2>1. /\ L[file]' = s /\ asked' = asked /\ file' = file /\ size' = size /\ got' = got
    BY <1>2, <1>3, <1>5 DEF Quiet
  <2>2. \A k : Returned(s, k)' = Returned(s, k)
    BY <1>2 DEF Returned, Place
  <2>3. Smallest(asked.count, size[file] - asked.from)' = fp.pos - asked.from
    BY <1>8, <2>1 DEF Smallest
  <2> QED
    BY <1>2, <1>4, <2>1, <2>2, <2>3 DEF ReadInv, Reading
<1>10. FatTypes' /\ CacheInv'
  BY <1>2, <1>4, <1>5 DEF FatTypes, Quiet
<1> QED
  BY <1>6, <1>7, <1>9, <1>10 DEF FatInv, LayoutInv

-----------------------------------------------------------------------------
(* The theorems about the files *)

LEMMA FatNextInv == FatInv /\ [FatNext]_fatVars => FatInv'
<1> SUFFICES ASSUME FatInv, [FatNext]_fatVars PROVE FatInv'
  OBVIOUS
<1>1. ASSUME NEW path, NEW to, NEW at, NEW len, OpenToRead(path, to) \/ Ls(path, at, len)
      PROVE  FatInv'
  BY <1>1, OpenToReadInv, LsInv
<1>2. ASSUME NEW f \in Files, NEW to, Create(f, to) PROVE FatInv'
  BY <1>2, CreateInv
<1>3. ASSUME NEW f \in Files, NEW to, NEW offset \in 0..(MaxLen * Bytes),
             NEW count \in Counts, Read(f, to, offset, count)
      PROVE  FatInv'
  <2>1. offset \in Nat /\ count \in Nat
    BY Numbers
  <2> QED
    BY <1>3, <2>1, ReadFileInv
<1>4. CASE \E path \in Paths(tree) : \E to \in {Open(tree, path)} :
             \/ to.found # Undefined /\ OpenToRead(path, to)
             \/ \E at \in DOMAIN tree \cap {to.found}, len \in Lens : Ls(path, at, len)
             \/ /\ tree = Plain
                /\ \E f \in Files \cap {to.found} :
                     \/ Create(f, to)
                     \/ \E offset \in 0..(MaxLen * Bytes), count \in Counts :
                         Read(f, to, offset, count)
  BY <1>1, <1>2, <1>3, <1>4
<1>5. CASE Second \/ FirstEntry \/ FreeCluster \/ NextCluster \/ EndOfChain \/ Mark
  BY <1>5, SecondInv, FirstEntryInv, FreeClusterInv, NextClusterInv, EndOfChainInv, MarkInv
<1>6. CASE Hop \/ Search \/ Link \/ End \/ ReadSector \/ Done \/ Close
  BY <1>6, HopInv, SearchInv, LinkInv, EndInv, ReadSectorInv, DoneInv, CloseInv
<1>7. CASE UNCHANGED fatVars
  BY <1>7, StutterInv
<1> QED
  BY <1>4, <1>5, <1>6, <1>7 DEF FatNext

\* fat32.cpp: the sector in memory, the table on the card and what a call has in its hands fit
\* one layout of the files at every step.
THEOREM FatInvariance == FatSpec => []FatInv
  BY InitFat, FatNextInv, PTL DEF FatSpec

\* tf_free_clusterchain, tf_unsafe_fseek and tf_fetch (fat32.cpp:309): while chains are cut
\* and grow through the one sector in memory, no cluster is in two files or twice in one,
\* and a driver that frees all of a chain loses none, for any volume.
THEOREM ClustersAreAccountedFor == FatSpec => []ClustersAccountedFor
  BY FatInvariance, InvImpliesAccounted, PTL

\* tf_fread and tf_unsafe_fseek (fat32.cpp:1122): a read returns the bytes of its own file,
\* in order, from where it begins, for any volume, offset and count.
THEOREM ReadsReturnTheirOwn == FatSpec => []ReadsItsOwn
  BY FatInvariance, InvImpliesOwn, PTL

=============================================================================
