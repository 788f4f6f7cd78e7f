------------------------------ MODULE LineEditor ------------------------------
(***************************************************************************)
(* What the console promises to its readers (kern/console/console.cpp):    *)
(* what is typed waits, in order, until it is read or taken back with the  *)
(* erase key, and a read gets no more than the rest of one line.  Who      *)
(* types further ahead than Capacity spoils what waits, not how much.      *)
(***************************************************************************)
EXTENDS Integers, Sequences

CONSTANTS
    Char, newline,  \* what keys send
    Capacity        \* how far ahead of the readers one may type

VARIABLES
    pending,  \* typed, neither read nor erased
    got       \* what the last read, or part of one before it waits, delivered

vars == <<pending, got>>

Init == pending = <<>> /\ got = <<>>

Type(c) ==
    /\ Len(pending) < Capacity
    /\ pending' = Append(pending, c)
    /\ UNCHANGED got

TypeTooFar(c) ==
    /\ Len(pending) >= Capacity
    /\ pending' \in [1..Len(pending) + 1 -> Char]
    /\ pending'[Len(pending) + 1] = c
    /\ UNCHANGED got

Erase ==
    /\ pending # <<>>
    /\ pending' = SubSeq(pending, 1, Len(pending) - 1)
    /\ UNCHANGED got

\* k characters leave the line; lost = 1 when the reader's memory does not take
\* the last
Deliver(k, lost) ==
    /\ \A m \in 1..k - 1 : pending[m] # newline
    /\ pending' = SubSeq(pending, k + 1, Len(pending))
    /\ got' = SubSeq(pending, 1, k - lost)

Next ==
    \/ \E c \in Char : Type(c) \/ TypeTooFar(c)
    \/ Erase
    \/ \E k \in 0..Len(pending) : \E lost \in 0..1 : Deliver(k, lost)

Spec == Init /\ [][Next]_vars
=============================================================================
