--------------------------- MODULE AddressSpaces ---------------------------
(***************************************************************************)
(* What the page tables promise: every process has memory of its own,      *)
(* which changes only by what that process asks for.                       *)
(***************************************************************************)
CONSTANTS Procs, Vaddrs,
    Image       \* what each process finds in its memory at the start

VARIABLE space  \* what each process finds at each address, or "none"

Empty == [va \in Vaddrs |-> "none"]

Init == space = [p \in Procs |-> Empty]

Start(p) ==
    /\ space[p] = Empty
    /\ space' = [space EXCEPT ![p] = Image[p]]

\* a page appears, and what its file holds is read into it
Map(p, va) ==
    /\ space[p] # Empty /\ space[p][va] = "none"
    /\ space' = [space EXCEPT ![p][va] = "zeroes"]
Read(p, va) ==
    /\ space[p][va] = "zeroes"
    /\ space' = [space EXCEPT ![p][va] = "file"]

\* one or several areas are unmapped
Unmap(p) ==
    \E V \in SUBSET {va \in Vaddrs : space[p][va] \in {"zeroes", "file"}} :
        space' = [space EXCEPT ![p] = [va \in Vaddrs |-> IF va \in V THEN "none" ELSE @[va]]]

End(p) == space' = [space EXCEPT ![p] = Empty]

Next == \E p \in Procs :
    Start(p) \/ Unmap(p) \/ End(p) \/ \E va \in Vaddrs : Map(p, va) \/ Read(p, va)

Spec == Init /\ [][Next]_space
=============================================================================
