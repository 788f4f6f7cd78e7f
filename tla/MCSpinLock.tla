---------------------------- MODULE MCSpinLock ----------------------------
(* SpinLock on two harts and two locks, for TLC. *)
EXTENDS SpinLock, TLC

Symmetry == Permutations(CPU) \cup Permutations(Lock)
===========================================================================
