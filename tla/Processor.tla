----------------------------- MODULE Processor -----------------------------
(***************************************************************************)
(* What the traps promise: every process has a processor of its own.  Its  *)
(* registers change only by what it executes, by its own system calls,     *)
(* and by nothing that interrupts it.                                      *)
(***************************************************************************)
CONSTANTS Procs, Contexts, Values,
    Plus4,      \* the next instruction: a function on the program counters
    child       \* what a forked process finds in a0

VARIABLES
    ctx,        \* each process's registers
    phase       \* "user", "call" or, when there is no such process, "none"

Init == ctx \in [Procs -> Contexts] /\ phase \in [Procs -> {"user", "none"}]

Execute(p) ==
    /\ phase[p] = "user"
    /\ \E c \in Contexts : ctx' = [ctx EXCEPT ![p] = c]
    /\ UNCHANGED phase

\* the call returns behind the ecall
Call(p) ==
    /\ phase[p] = "user"
    /\ ctx' = [ctx EXCEPT ![p].pc = Plus4[@]]
    /\ phase' = [phase EXCEPT ![p] = "call"]

Return(p) ==
    /\ phase[p] = "call"
    /\ \E v \in Values : ctx' = [ctx EXCEPT ![p].a0 = v]
    /\ phase' = [phase EXCEPT ![p] = "user"]

\* q starts as p will go on, but for a0
Fork(p, q) ==
    /\ phase[p] = "call" /\ phase[q] = "none"
    /\ ctx' = [ctx EXCEPT ![q] = [ctx[p] EXCEPT !.a0 = child]]
    /\ phase' = [phase EXCEPT ![q] = "user"]

End(p) ==
    /\ phase[p] # "none"
    /\ phase' = [phase EXCEPT ![p] = "none"]
    /\ \E c \in Contexts : ctx' = [ctx EXCEPT ![p] = c]

Next == \E p \in Procs :
    Execute(p) \/ Call(p) \/ Return(p) \/ End(p) \/ \E q \in Procs : Fork(p, q)

Spec == Init /\ [][Next]_<<ctx, phase>>
=============================================================================
