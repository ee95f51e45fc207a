----------------------------- MODULE DelayList -----------------------------
(***************************************************************************)
(* phase3/adl.c: the list of the processes that SYS13 delays.  The active  *)
(* list is the sequence from activeDelayd_h on, the free one a number of   *)
(* nodes.                                                                  *)
(***************************************************************************)
EXTENDS Integers, Sequences, FiniteSets, SequencesExt

CONSTANT MAXPROC   \* one node less than there are

FAILURE == -1

VARIABLES active,     \* nodes [wake, asid], from activeDelayd_h on
          delaydFree  \* nodes on the list of delaydFree_h

adlVars == <<active, delaydFree>>

\* A node given back to an empty list: delaydFree_h is set to it, and to NULL.
freeDelayd(nodes) == IF nodes = 0 THEN 0 ELSE nodes + 1

initADL ==
  LET freed[i \in 0 .. MAXPROC + 1] == IF i = 0 THEN 0 ELSE freeDelayd(freed[i - 1])
  IN  active = <<>> /\ delaydFree = freed[MAXPROC + 1]

headDelayTime == IF active = <<>> THEN FAILURE ELSE active[1].wake

\* The number of nodes the search leaves before the new one: never none, and
\* from the second on those that wake earlier.
searchDelayd(wake) ==
  CHOOSE i \in 1 .. Len(active) :
    /\ \A j \in 2 .. i : active[j].wake < wake
    /\ i < Len(active) => active[i + 1].wake >= wake

\* FALSE, and nothing else, without a free node.
insertDelay(wake, ID) ==
  IF delaydFree = 0 THEN UNCHANGED adlVars
  ELSE /\ delaydFree' = delaydFree - 1
       /\ active' = InsertAt(active,
                             IF active = <<>> THEN 1 ELSE searchDelayd(wake) + 1,
                             [wake |-> wake, asid |-> ID])

removeDelay == /\ active # <<>>
               /\ active' = Tail(active)
               /\ delaydFree' = freeDelayd(delaydFree)
=============================================================================
