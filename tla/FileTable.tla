------------------------------- MODULE FileTable -------------------------------
(***************************************************************************)
(* What the file layer promises: descriptors and mapped areas refer to     *)
(* open files.  An open makes an open file nobody else refers to; dup and  *)
(* fork share one; an open file keeps its mode while anybody refers to it, *)
(* and a descriptor changes only by its own process's calls.  It can all   *)
(* be lost, and nothing is promised from then on.                          *)
(***************************************************************************)
EXTENDS Integers

CONSTANTS
    Proc, File,   \* processes; the identities of open files
    Fd, Slot,     \* descriptors, a range of numbers; places for areas
    Mode, None

VARIABLES
    table,   \* the open file of each descriptor of each process
    maps,    \* the open file behind each mapped area of each process
    mode,    \* what kind of file an open file is and what it may be used for
    lost     \* whether all is lost

tables == <<table, maps, mode>>
vars == <<tables, lost>>

Used == {table[p][d] : p \in Proc, d \in Fd} \cup
        {maps[p][s] : p \in Proc, s \in Slot}

Fresh == File \ Used

\* The free descriptor an open is given: the least
IsLeastFree(p, d) == table[p][d] = None /\ \A e \in Fd : e < d => table[p][e] # None

Open(p) ==
    \E d \in Fd, f \in Fresh, m \in Mode :
        /\ IsLeastFree(p, d)
        /\ table' = [table EXCEPT ![p][d] = f]
        /\ mode' = [mode EXCEPT ![f] = m]
        /\ UNCHANGED maps

OpenTwo(p) ==
    \E d, e \in Fd, f, g \in Fresh, m, k \in Mode :
        /\ d < e /\ f # g /\ IsLeastFree(p, d)
        /\ table[p][e] = None /\ \A x \in Fd : d < x /\ x < e => table[p][x] # None
        /\ table' = [table EXCEPT ![p][d] = f, ![p][e] = g]
        /\ mode' = [mode EXCEPT ![f] = m, ![g] = k]
        /\ UNCHANGED maps

Close(p) ==
    /\ \E d \in Fd : table' = [table EXCEPT ![p][d] = None]
    /\ UNCHANGED <<maps, mode>>

Dup(p) ==
    /\ \E d, e \in Fd :
        /\ table[p][d] # None /\ table[p][e] = None
        /\ table' = [table EXCEPT ![p][e] = table[p][d]]
    /\ UNCHANGED <<maps, mode>>

Fork(p, child) ==
    /\ table' = [table EXCEPT ![child] = table[p]]
    /\ maps' = [maps EXCEPT ![child] = maps[p]]
    /\ UNCHANGED mode

Exit(p) ==
    /\ table' = [table EXCEPT ![p] = [d \in Fd |-> None]]
    /\ maps' = [maps EXCEPT ![p] = [s \in Slot |-> None]]
    /\ UNCHANGED mode

Map(p) ==
    /\ \E d \in Fd, s \in Slot :
        /\ table[p][d] # None /\ maps[p][s] = None
        /\ maps' = [maps EXCEPT ![p][s] = table[p][d]]
    /\ UNCHANGED <<table, mode>>

Unmap(p) ==
    /\ \E s \in Slot : maps' = [maps EXCEPT ![p][s] = None]
    /\ UNCHANGED <<table, mode>>

\* An open file that nobody refers to (yet, or any more) is prepared or cleared
Prepare ==
    /\ \E f \in Fresh, m \in Mode : mode' = [mode EXCEPT ![f] = m]
    /\ UNCHANGED <<table, maps>>

\* table, maps and mode are whatever they are then
Lose == lost' = TRUE

Init ==
    /\ lost = FALSE
    /\ table = [p \in Proc |-> [d \in Fd |-> None]]
    /\ maps = [p \in Proc |-> [s \in Slot |-> None]]
    /\ mode \in [File -> Mode]

Call ==
    \/ Prepare
    \/ \E p \in Proc :
        \/ Open(p) \/ OpenTwo(p) \/ Close(p) \/ Dup(p) \/ Exit(p)
        \/ Map(p) \/ Unmap(p)
        \/ \E child \in Proc \ {p} : Fork(p, child)

Next == Lose \/ (Call /\ UNCHANGED lost)

Spec == Init /\ [][Next]_vars
=============================================================================
