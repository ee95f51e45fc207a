-------------------------- MODULE NucleusLifecycle --------------------------
(***************************************************************************)
(* The nucleus implements Lifecycle: what a process is doing is read off   *)
(* the free list, currentProcess, the ready queue and pcb_semAdd.          *)
(***************************************************************************)
EXTENDS Nucleus

CONSTANTS Free, Ready, Running

ASSUME StateAssumption ==
  /\ Free # Ready /\ Free # Running /\ Ready # Running
  /\ {Free, Ready, Running} \cap SemAdds = {}

procState ==
  [p \in Pcb |-> CASE p \in pcbFree -> Free
                   [] p = currentProcess -> Running
                   [] p \in Range(readyQueue) -> Ready
                   [] OTHER -> pcb_semAdd[p]]

L == INSTANCE Lifecycle WITH Proc <- Pcb, Sem <- SemAdds, state <- procState

\* Every step of the nucleus is a step of the life cycle or leaves it alone: a
\* handler, with everything it calls, never lets the processor idle while a
\* process is ready, never runs two, and moves each process as it may.
ImplementsLifecycle == L!Spec
=============================================================================
