------------------------------- MODULE Console -------------------------------
(***************************************************************************)
(* Console input (kern/console/console.cpp): consoleintr, called from the  *)
(* UART's interrupt with no lock, fills a ring of characters from one end  *)
(* or takes them back; consoleread empties it from the other.              *)
(*                                                                         *)
(* consoleread holds console.lock, which masks the interrupts of hart 0,   *)
(* where all processes run: what it does between taking the lock and       *)
(* releasing it or going to sleep is one step, and so is the handler, when *)
(* it runs on hart 0.  A handler on hart 1 would race with it.             *)
(***************************************************************************)
EXTENDS Integers, Sequences

CONSTANTS
    Readers,          \* the processes that read the console
    Char, newline,    \* what consoleintr stores; '\r' and Ctrl-P it drops
    INPUT_BUF,        \* the characters in the ring
    MaxN, MaxIndex    \* bounds: the largest request, the largest write_index

ASSUME ConsoleAssumption ==
    /\ newline \in Char /\ INPUT_BUF \in Nat \ {0}
    /\ MaxN \in Nat /\ MaxIndex \in Nat

VARIABLES
    buf, read_index, write_index,  \* console's members
    at,   \* "idle", asleep on &console.read_index, or "woken" from there
    n,    \* consoleread's n of a call that sleeps (0 otherwise)
    got   \* what the last step of consoleread put in its caller's memory

vars == <<buf, read_index, write_index, at, n, got>>

Init ==
    /\ \E c \in Char : buf = [s \in 0..INPUT_BUF - 1 |-> c]
    /\ read_index = 0 /\ write_index = 0
    /\ at = [r \in Readers |-> "idle"]
    /\ n = [r \in Readers |-> 0]
    /\ got = <<>>

Slot(index) == index % INPUT_BUF
Pending == [m \in 1..write_index - read_index |-> buf[Slot(read_index + m - 1)]]
Woken == [r \in Readers |-> IF at[r] = "asleep" THEN "woken" ELSE at[r]]

-----------------------------------------------------------------------------
(* consoleintr *)

\* Mutant: write_index is raised before it is used
StoresAhead(c) ==
    /\ buf' = [buf EXCEPT ![Slot(write_index + 1)] = c]
    /\ write_index' = write_index + 1

Stores(c) ==
    /\ buf' = [buf EXCEPT ![Slot(write_index)] = c]
    /\ write_index' = write_index + 1

\* Mutant: a newline wakes only those who wait at an empty ring
TypeWakesEmpty(c) ==
    /\ write_index < MaxIndex
    /\ Stores(c)
    /\ at' = IF c = newline /\ read_index = write_index THEN Woken ELSE at
    /\ UNCHANGED <<read_index, n, got>>

\* Mutant: nobody is woken
TypeSilent(c) ==
    /\ write_index < MaxIndex
    /\ Stores(c)
    /\ UNCHANGED <<read_index, at, n, got>>

Type(c) ==
    /\ write_index < MaxIndex
    /\ Stores(c)
    /\ at' = IF c = newline THEN Woken ELSE at
    /\ UNCHANGED <<read_index, n, got>>

Backspace ==
    /\ read_index # write_index
    /\ write_index' = write_index - 1
    /\ UNCHANGED <<buf, read_index, at, n, got>>

-----------------------------------------------------------------------------
(* consoleread *)

\* A process starts a call, or goes on with one after sleep; `size` is its n
Calls(r, size) ==
    \/ at[r] = "idle" /\ size \in 1..MaxN
    \/ at[r] = "woken" /\ size = n[r]

\* The loop takes k characters, none of them a newline but perhaps the last;
\* with lost = 1 copyout has failed on the last
Takes(k, lost) ==
    /\ k <= Len(Pending)
    /\ \A m \in 1..k - 1 : Pending[m] # newline
    /\ read_index' = read_index + k
    /\ got' = SubSeq(Pending, 1, k - lost)
    /\ UNCHANGED <<buf, write_index>>

\* The ring is empty, after k characters without a newline, and the request not
\* yet through
ReadSleeps(r) ==
    /\ \E size \in 1..MaxN :
        /\ Calls(r, size) /\ Len(Pending) < size
        /\ \A m \in DOMAIN Pending : Pending[m] # newline
        /\ Takes(Len(Pending), 0)
        /\ n' = [n EXCEPT ![r] = size - Len(Pending)]
    /\ at' = [at EXCEPT ![r] = "asleep"]

Read(r) ==
    /\ \E size \in 1..MaxN : \E k \in 1..size :
        /\ Calls(r, size)
        /\ \/ Takes(k, 0) /\ (k = size \/ Pending[k] = newline)
           \/ Takes(k, 1)
    /\ at' = [at EXCEPT ![r] = "idle"]
    /\ n' = [n EXCEPT ![r] = 0]

ReadStep(r) == ReadSleeps(r) \/ Read(r)

Next ==
    \/ \E c \in Char : Type(c)
    \/ Backspace
    \/ \E r \in Readers : ReadStep(r)

\* The scheduler runs a process that has been woken (Sched's RunnableRuns); keys
\* are pressed or not.
Fairness == \A r \in Readers : WF_vars(at[r] = "woken" /\ ReadStep(r))

Spec == Init /\ [][Next]_vars
FairSpec == Spec /\ Fairness

-----------------------------------------------------------------------------
TypeOK ==
    /\ buf \in [0..INPUT_BUF - 1 -> Char]
    /\ read_index \in 0..MaxIndex /\ write_index \in read_index..MaxIndex
    /\ at \in [Readers -> {"idle", "asleep", "woken"}]
    /\ n \in [Readers -> 0..MaxN]
    /\ got \in Seq(Char) /\ Len(got) <= MaxN

\* The two ends of the ring, the erase key and the readers who take turns at it
\* add up to a line editor: every character typed and not erased is delivered
\* once, in order, to somebody.
Editor == INSTANCE LineEditor WITH Capacity <- INPUT_BUF, pending <- Pending
ActsAsLineEditor == Editor!Spec

\* console.cpp:53: nobody sleeps in consoleread while a whole line waits, although
\* only the newline wakes and the line may be typed over, erased or shared.
NoLineMissed ==
    \A r \in Readers : at[r] = "asleep" => \A m \in DOMAIN Pending : Pending[m] # newline

\* A line that was typed while processes wait in consoleread goes to one of them,
\* or is erased first, or they all have returned with something else.
LinesAreRead ==
    (\E m \in DOMAIN Pending : Pending[m] = newline)
        ~> \/ \A m \in DOMAIN Pending : Pending[m] # newline
           \/ \A r \in Readers : at[r] = "idle"
=============================================================================
