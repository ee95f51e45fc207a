----------------------------- MODULE MCCpuTime -----------------------------
(***************************************************************************)
(* A disk used with interrupts off, the clock, and no other semaphore.     *)
(***************************************************************************)
EXTENDS CpuTime, TLC

OneDisk == {[line |-> 3, num |-> 0, recv |-> FALSE]}
NoSems == {}
SysTrap == {SYSTRAP}
NoTraps == {}

Symmetry == Permutations(Pcb)
=============================================================================
