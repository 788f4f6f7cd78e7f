-------------------------------- MODULE Pipe --------------------------------
(***************************************************************************)
(* The pipe (kern/proc/pipe.cpp): a ring of PIPESIZE bytes with two        *)
(* counters that wrap, a reader's and a writer's sleep channel, and the    *)
(* closing of its ends.                                                    *)
(*                                                                         *)
(* Processes run on hart 0 alone and the pipe's spin lock masks its        *)
(* interrupts, so what a call does between taking the lock and releasing   *)
(* it or going to sleep is one step; that sleep loses no wakeup when all   *)
(* callers are on hart 0 is Sched's NoLostWakeup.  p->killed is only set   *)
(* by UserTrap for the process that is in it, never for one in a call.     *)
(***************************************************************************)
EXTENDS Integers, Sequences

CONSTANTS
    Readers, Writers,  \* the processes that hold the read and the write end
    Byte,              \* the values of a byte
    PIPESIZE,          \* the bytes in the ring
    Wrap,              \* 2^w for w-bit unsigned counters
    MaxN,              \* the largest request, a bound
    EndsClose          \* whether the last handle of an end calls pipeclose:
                       \* vfsclose, which should, is empty (FALSE)

ASSUME PipeAssumption ==
    /\ PIPESIZE \in Nat \ {0} /\ Wrap \in Nat /\ MaxN \in Nat
    /\ Wrap > PIPESIZE /\ Wrap % PIPESIZE = 0
    /\ Readers \cap Writers = {} /\ EndsClose \in BOOLEAN

Users == Readers \cup Writers

VARIABLES
    nread, nwrite, buf, readable, writeable,  \* the pipe's members
    deleted,  \* `delete this` has run
    handles,  \* the processes that still have their end open
    at,       \* "idle", asleep on &nread or &nwrite, or "woken" from there
    n, i,     \* n and pipewrite's i of a call that sleeps (0 otherwise)
    got       \* the bytes the last piperead to return put in its caller's memory

vars == <<nread, nwrite, buf, readable, writeable, deleted, handles, at, n, i,
          got>>
ring == <<nread, nwrite, buf>>
ends == <<readable, writeable, deleted, handles>>

\* the iterations of the byte loops before the ring is empty, or full
Avail == (nwrite - nread) % Wrap

\* Mutant: the test for a full ring is made on the sums, without their wrap
RoomUnwrapped == IF nread + PIPESIZE < nwrite THEN PIPESIZE
                 ELSE nread + PIPESIZE - nwrite

Room == (nread + PIPESIZE - nwrite) % Wrap

Slot(counter, k) == ((counter + k) % Wrap) % PIPESIZE

Init ==
    /\ nread = 0 /\ nwrite = 0
    /\ buf \in [0..PIPESIZE - 1 -> Byte]
    /\ readable = TRUE /\ writeable = TRUE /\ deleted = FALSE
    /\ handles = Users
    /\ at = [p \in Users |-> "idle"]
    /\ n = [p \in Users |-> 0]
    /\ i = [p \in Writers |-> 0]
    /\ got = <<>>

Least(a, b) == IF a < b THEN a ELSE b
Wakeup(chan) == [p \in Users |-> IF at[p] = chan THEN "woken" ELSE at[p]]

\* A process starts a call, or goes on with one after sleep; `size` is its n
Calls(p, size) ==
    /\ ~deleted /\ p \in handles
    /\ \/ at[p] = "idle" /\ size \in 1..MaxN
       \/ at[p] = "woken" /\ size = n[p]

Sleeps(p, size) == n' = [n EXCEPT ![p] = size]
Returns(p) == n' = [n EXCEPT ![p] = 0]

-----------------------------------------------------------------------------
(* piperead *)

ReadSleeps(r) ==
    /\ Avail = 0 /\ writeable
    /\ \E size \in 1..MaxN : Calls(r, size) /\ Sleeps(r, size)
    /\ at' = [at EXCEPT ![r] = "nread"]
    /\ UNCHANGED <<ring, ends, i, got>>

\* The loop takes k bytes; with lost = 1 copyout has failed on the last of them
Taken(k, lost) ==
    /\ got' = [m \in 1..k - lost |-> buf[Slot(nread, m - 1)]]
    /\ nread' = (nread + k) % Wrap

\* Mutant: the reader does not wake the writers
ReadSilent(r) ==
    /\ Avail # 0 \/ ~writeable
    /\ \E size \in 1..MaxN : Calls(r, size) /\ Taken(Least(size, Avail), 0)
    /\ Returns(r)
    /\ at' = [at EXCEPT ![r] = "idle"]
    /\ UNCHANGED <<nwrite, buf, ends, i>>

Read(r) ==
    /\ Avail # 0 \/ ~writeable
    /\ \E size \in 1..MaxN :
        /\ Calls(r, size)
        /\ \/ Taken(Least(size, Avail), 0)
           \/ \E k \in 1..Least(size, Avail) : Taken(k, 1)
    /\ Returns(r)
    /\ at' = [Wakeup("nwrite") EXCEPT ![r] = "idle"]
    /\ UNCHANGED <<nwrite, buf, ends, i>>

-----------------------------------------------------------------------------
(* pipewrite *)

\* The loop stores k bytes
Stored(k) ==
    /\ \E bs \in [1..k -> Byte] :
        buf' = [s \in DOMAIN buf |->
                  IF \E m \in 1..k : Slot(nwrite, m - 1) = s
                  THEN bs[CHOOSE m \in 1..k : Slot(nwrite, m - 1) = s] ELSE buf[s]]
    /\ nwrite' = (nwrite + k) % Wrap

\* The ring fills up before the request is through
WriteSleeps(w) ==
    /\ readable
    /\ \E size \in 1..MaxN :
        /\ Calls(w, size) /\ i[w] + Room < size
        /\ Stored(Room)
        /\ Sleeps(w, size) /\ i' = [i EXCEPT ![w] = @ + Room]
    /\ at' = [Wakeup("nread") EXCEPT ![w] = "nwrite"]
    /\ UNCHANGED <<nread, ends, got>>

\* pipewrite returns; vfswrite drops its result and returns 0
WriteReturns(w) ==
    /\ Returns(w) /\ i' = [i EXCEPT ![w] = 0]
    /\ UNCHANGED <<nread, ends, got>>

\* The ring is full and nobody can read any more: pipewrite gives up
WriteBroken(w) ==
    /\ ~readable
    /\ \E size \in 1..MaxN : Calls(w, size) /\ i[w] + Room < size
    /\ Stored(Room)
    /\ at' = [at EXCEPT ![w] = "idle"]
    /\ WriteReturns(w)

\* All of the request fits, or copyin fails on the byte after the k-th
Write(w) ==
    /\ \E size \in 1..MaxN :
        /\ Calls(w, size)
        /\ \/ i[w] + Room >= size /\ Stored(size - i[w])
           \/ \E k \in 0..Room - 1 : i[w] + k < size /\ Stored(k)
    /\ at' = [Wakeup("nread") EXCEPT ![w] = "idle"]
    /\ WriteReturns(w)

-----------------------------------------------------------------------------
(* sys_close and, for the last handle of an end, pipeclose *)

Close(p) ==
    /\ p \in handles /\ at[p] = "idle"
    /\ handles' = handles \ {p}
    /\ UNCHANGED <<ring, n, i, got>>

\* Mutant: the writers' end closes without waking the readers
CloseWriteSilent(w) ==
    /\ Close(w)
    /\ IF handles' \cap Writers = {} /\ EndsClose
       THEN writeable' = FALSE /\ deleted' = ~readable
       ELSE UNCHANGED <<writeable, deleted>>
    /\ UNCHANGED <<readable, at>>

CloseWrite(w) ==
    /\ Close(w)
    /\ IF handles' \cap Writers = {} /\ EndsClose
       THEN writeable' = FALSE /\ deleted' = ~readable /\ at' = Wakeup("nread")
       ELSE UNCHANGED <<writeable, deleted, at>>
    /\ UNCHANGED readable

\* Mutant: closing the read end deletes the pipe
CloseReadDeletes(r) ==
    /\ Close(r)
    /\ IF handles' \cap Readers = {} /\ EndsClose
       THEN readable' = FALSE /\ deleted' = TRUE /\ at' = Wakeup("nwrite")
       ELSE UNCHANGED <<readable, deleted, at>>
    /\ UNCHANGED writeable

CloseRead(r) ==
    /\ Close(r)
    /\ IF handles' \cap Readers = {} /\ EndsClose
       THEN readable' = FALSE /\ deleted' = ~writeable /\ at' = Wakeup("nwrite")
       ELSE UNCHANGED <<readable, deleted, at>>
    /\ UNCHANGED writeable

ReadStep(r) == ReadSleeps(r) \/ Read(r)
WriteStep(w) == WriteSleeps(w) \/ WriteBroken(w) \/ Write(w)

Next ==
    \/ \E r \in Readers : ReadStep(r) \/ CloseRead(r)
    \/ \E w \in Writers : WriteStep(w) \/ CloseWrite(w)

\* The scheduler runs a process that has been woken (Sched's RunnableRuns);
\* whether one that is idle calls again is its own affair.
Fairness ==
    /\ \A r \in Readers : WF_vars(at[r] = "woken" /\ ReadStep(r))
    /\ \A w \in Writers : WF_vars(at[w] = "woken" /\ WriteStep(w))

Spec == Init /\ [][Next]_vars
FairSpec == Spec /\ Fairness

-----------------------------------------------------------------------------
TypeOK ==
    /\ nread \in 0..Wrap - 1 /\ nwrite \in 0..Wrap - 1 /\ Avail <= PIPESIZE
    /\ buf \in [0..PIPESIZE - 1 -> Byte]
    /\ readable \in BOOLEAN /\ writeable \in BOOLEAN /\ deleted \in BOOLEAN
    /\ handles \subseteq Users
    /\ at \in [Users -> {"idle", "nread", "nwrite", "woken"}]
    /\ n \in [Users -> 0..MaxN] /\ i \in [Writers -> 0..MaxN - 1]
    /\ Len(got) <= MaxN

\* The loops of pipe.cpp:33 and 60: nobody sleeps while what he waits for is
\* there - a reader only on an empty pipe that can still be written, a writer
\* only on a full one that can still be read - so no wakeup is missing.
AsleepForAReason ==
    /\ \A r \in Readers : at[r] = "nread" => nread = nwrite /\ writeable
    /\ \A w \in Writers : at[w] = "nwrite" => Avail = PIPESIZE /\ readable

\* pipeclose:84 frees the pipe: when it does, no process is asleep in it or
\* about to come back to it.
NoUseAfterDelete == deleted => handles = {} /\ \A p \in Users : at[p] = "idle"

\* A byte the writer stored comes out once, in order and unchanged, whatever the
\* position of the counters and however calls are cut up by sleeps.
Channel == INSTANCE ByteChannel WITH
    Capacity <- PIPESIZE,
    queue <- [m \in 1..Avail |-> buf[Slot(nread, m - 1)]],
    readOpen <- readable,
    writeOpen <- writeable
Fifo == Channel!Spec

\* A reader asleep when the last writer lets its end go comes back from piperead
ReadersSeeTheEnd ==
    \A r \in Readers : at[r] = "nread" /\ handles \cap Writers = {} ~> at[r] = "idle"
=============================================================================
