----------------------------- MODULE ByteChannel -----------------------------
(***************************************************************************)
(* What a pipe promises (kern/proc/pipe.hpp): a bounded first-in-first-out *)
(* queue of bytes between the holders of a write end and those of a read   *)
(* end, where a read comes back empty-handed only when no byte can come.   *)
(***************************************************************************)
EXTENDS Sequences, Integers

CONSTANTS
    Byte,      \* the values of a byte
    Capacity   \* the most bytes in flight

VARIABLES
    queue,      \* the bytes written and not yet read
    got,        \* what the last read gave its caller
    readOpen,   \* some process still holds the read end
    writeOpen   \* some process still holds the write end

vars == <<queue, got, readOpen, writeOpen>>

Init ==
    /\ queue = <<>>
    /\ got = <<>>
    /\ readOpen = TRUE /\ writeOpen = TRUE

\* A write, or the part of one that fits
Fill(k) ==
    /\ writeOpen /\ Len(queue) + k <= Capacity
    /\ \E bs \in [1..k -> Byte] : queue' = queue \o bs
    /\ UNCHANGED <<got, readOpen, writeOpen>>

\* A read takes the k oldest bytes; the last is lost when the reader's memory
\* cannot take it
Take(k, lost) ==
    /\ readOpen /\ k <= Len(queue)
    /\ queue' = SubSeq(queue, k + 1, Len(queue))
    /\ got' = SubSeq(queue, 1, k - lost)
    /\ UNCHANGED <<readOpen, writeOpen>>

EndOfFile ==
    /\ readOpen /\ queue = <<>> /\ ~writeOpen
    /\ got' = <<>>
    /\ UNCHANGED <<queue, readOpen, writeOpen>>

CloseRead == readOpen /\ readOpen' = FALSE /\ UNCHANGED <<queue, got, writeOpen>>
CloseWrite == writeOpen /\ writeOpen' = FALSE /\ UNCHANGED <<queue, got, readOpen>>

Next ==
    \/ \E k \in 1..Capacity : Fill(k)
    \/ \E k \in 1..Capacity, lost \in 0..1 : Take(k, lost)
    \/ EndOfFile \/ CloseRead \/ CloseWrite

Spec == Init /\ [][Next]_vars
=============================================================================
