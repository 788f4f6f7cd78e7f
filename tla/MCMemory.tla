------------------------------ MODULE MCMemory ------------------------------
(***************************************************************************)
(* Memory for TLC, which has allocproc called MaxForks times: the order of *)
(* the free list goes by all that was ever allocated.                      *)
(***************************************************************************)
EXTENDS Memory

CONSTANT MaxForks

VARIABLE forks

MCInit == MemoryInit /\ forks = 0

MCNext ==
    /\ MemoryNext
    /\ forks' = forks + Cardinality({t \in Threads : at[t] = "user" /\ at'[t] = "trapframe"})
    /\ forks' <= MaxForks

MCSpec == MCInit /\ [][MCNext]_<<memoryVars, forks>>

Symmetry == Permutations(Procs)
=============================================================================
