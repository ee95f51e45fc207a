---------------------------- MODULE VirtualList ----------------------------
(***************************************************************************)
(* phase3/avsl.c: the circular list of the processes blocked on virtual    *)
(* semaphores, as the sequence from vSem_h on.                             *)
(***************************************************************************)
EXTENDS Integers, Sequences, FiniteSets, SequencesExt

VARIABLES vSem,       \* nodes [sem, asid], from vSem_h on
          vSemFree    \* nodes on the free list

avslVars == <<vSem, vSemFree>>

initAVSL(nodes) == vSem = <<>> /\ vSemFree = nodes

\* The new node goes before vSem_h, which is the end of the circle.
vInsertBlocked(s, ID) ==
  IF vSemFree = 0 THEN UNCHANGED avslVars
  ELSE /\ vSem' = Append(vSem, [sem |-> s, asid |-> ID])
       /\ vSemFree' = vSemFree - 1

\* The positions the search may end at.  When the head matches and is not alone
\* the loop does not run, and the node it starts from, the second, is taken.
vFound(s) ==
  {i \in DOMAIN vSem :
     \/ Len(vSem) = 1 /\ vSem[1].sem = s
     \/ Len(vSem) > 1 /\ vSem[1].sem = s /\ i = 2
     \/ /\ Len(vSem) > 1 /\ vSem[1].sem # s
        /\ vSem[i].sem = s
        /\ \A j \in 1 .. i - 1 : vSem[j].sem # s}

\* The process taken off the list: FALSE, which is 0, if none was found.
vRemoved(s) == IF vFound(s) = {} THEN 0
               ELSE vSem[CHOOSE i \in vFound(s) : TRUE].asid

vRemoveBlocked(s) ==
  IF vFound(s) = {} THEN UNCHANGED avslVars
  ELSE \E i \in vFound(s) : vSem' = RemoveAt(vSem, i) /\ vSemFree' = vSemFree + 1
=============================================================================
