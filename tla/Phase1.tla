------------------------------- MODULE Phase1 -------------------------------
(***************************************************************************)
(* All of phase 1 under a caller that keeps to the rules the nucleus and   *)
(* p1test.c keep to: one call is one action, in any order.  The caller     *)
(* knows where it left each block; what a call returns is what it knows    *)
(* next.  As in p1test, a trial uses the queues or the tree, not both.     *)
(* Bounds: a trial's number of blocks allocated at once, whether it gives   *)
(* blocks back, and which of them it makes parents.                        *)
(***************************************************************************)
EXTENDS Asl

CONSTANTS FREE, HELD, READY,   \* where a block is when it waits on no semaphore
          Trials               \* the trials, see Trial

Trial == [part : {"queues", "tree"}, blocks : Nat, reuse : BOOLEAN,
          parents : SUBSET Proc]

ASSUME Phase1Assumption ==
  /\ Trials \subseteq Trial
  /\ {FREE, HELD, READY} \cap Int = {}
  /\ FREE # HELD /\ FREE # READY /\ HELD # READY

VARIABLES readyQueue,          \* tail of the ready queue
          where,               \* block |-> FREE, HELD, READY or a semaphore
          trial

vars == <<pcb_FREE_h, linkVars, treeVars, aslVars, pcb_semAdd, readyQueue,
          where, trial>>

Queue == {READY} \cup Sem

Init == /\ initPcbs /\ initASL
        /\ pcb_semAdd = [p \in Proc |-> ZERO]
        /\ readyQueue = NULL
        /\ where = [p \in Proc |-> FREE]
        /\ trial \in Trials

-----------------------------------------------------------------------------
At(w) == {p \in Proc : where[p] = w}
Returned(p, w) == where' = [q \in Proc |-> IF q = p THEN w ELSE where[q]]

Alloc == /\ Cardinality(Proc \ At(FREE)) < trial.blocks
         /\ \E p \in Proc : /\ allocPcb(p) /\ Returned(p, HELD)
                            /\ pcb_semAdd' = [pcb_semAdd EXCEPT ![p] = NULL]
         /\ UNCHANGED <<aslVars, readyQueue, trial>>

\* A block is given back when it is on no queue and in no family.
Alone(p) == pcb_child[p] = NULL /\ pcb_parent[p] \notin Proc

Free(p) == /\ trial.reuse
           /\ where[p] = HELD /\ Alone(p)
           /\ freePcb(p) /\ Returned(p, FREE)
           /\ UNCHANGED <<aslVars, pcb_semAdd, readyQueue, trial>>

Insert(p) == LET in == insertProcQ(readyQueue, p)
             IN  /\ where[p] = HELD
                 /\ readyQueue' = in.tail
                 /\ pcb_next' = in.next /\ pcb_prev' = in.prev
                 /\ Returned(p, READY)
                 /\ UNCHANGED <<pcb_FREE_h, treeVars, aslVars, pcb_semAdd, trial>>

TookReady(out) == /\ readyQueue' = out.tail
                  /\ pcb_next' = out.next /\ pcb_prev' = out.prev
                  /\ Returned(out.found, HELD)
                  /\ UNCHANGED <<pcb_FREE_h, treeVars, aslVars, pcb_semAdd, trial>>

Remove == TookReady(removeProcQ(readyQueue))

\* Also called for a block that is on no queue, or waits on a semaphore.
Out(p) == where[p] # FREE /\ TookReady(outProcQ(readyQueue, p))

-----------------------------------------------------------------------------
Block(s, p) == /\ where[p] = HELD
               /\ insertBlocked(s, p)
               /\ Returned(p, s)
               /\ UNCHANGED <<pcb_FREE_h, treeVars, readyQueue, trial>>

Wake(s) == /\ removeBlocked(s)
           /\ Returned(headProcQ(s_procQ[s_next[searchASL(s)]]), HELD)
           /\ UNCHANGED <<pcb_FREE_h, treeVars, readyQueue, trial>>

\* Also called for a block that waits on no semaphore: nothing is done.
Unblock(p) == /\ where[p] # FREE
              /\ outBlocked(p)
              /\ Returned(p, HELD)
              /\ UNCHANGED <<pcb_FREE_h, treeVars, readyQueue, trial>>

-----------------------------------------------------------------------------
Adopt(prnt, p) == /\ prnt \in trial.parents
                  /\ prnt # p /\ where[prnt] # FREE /\ where[p] # FREE /\ Alone(p)
                  /\ insertChild(prnt, p)
                  /\ UNCHANGED <<aslVars, pcb_semAdd, readyQueue, where, trial>>

OutChild(p) == /\ where[p] # FREE
               /\ outChild(p)
               /\ UNCHANGED <<aslVars, pcb_semAdd, readyQueue, where, trial>>

RemoveChild(prnt) == /\ where[prnt] # FREE
                     /\ removeChild(prnt)
                     /\ UNCHANGED <<aslVars, pcb_semAdd, readyQueue, where, trial>>

Queues == \/ Remove
          \/ \E p \in Proc : Insert(p) \/ Out(p) \/ Unblock(p)
          \/ \E s \in Sem : Wake(s) \/ \E p \in Proc : Block(s, p)

Tree == \E p \in Proc : \/ OutChild(p) \/ RemoveChild(p)
                        \/ \E r \in Proc : Adopt(r, p)

Next == \/ Alloc
        \/ \E p \in Proc : Free(p)
        \/ trial.part = "queues" /\ Queues
        \/ trial.part = "tree" /\ Tree

Spec == Init /\ [][Next]_vars

-----------------------------------------------------------------------------
\* The shapes the links can have, over the set M of what they link.

\* A chain from top along next: every member of M is met, the last has NULL.
Chain(top, next, M) ==
  /\ top \in M \cup {NULL}
  /\ \A x \in M : next[x] \in M \cup {NULL}
  /\ \A x, y \in M : next[x] = next[y] /\ next[x] # NULL => x = y
  /\ \A x \in M : next[x] # top \/ top = NULL
  /\ \A S \in SUBSET M :
        (top # NULL => top \in S) /\ (\A x \in S : next[x] # NULL => next[x] \in S)
        => S = M

\* A ring whose tail is tp: the two links are inverse to each other and no
\* part of it is closed in itself.
Ring(tp, next, prev, M) ==
  /\ IF M = {} THEN tp = NULL ELSE tp \in M
  /\ \A p \in M : /\ next[p] \in M /\ prev[next[p]] = p
                  /\ prev[p] \in M /\ next[prev[p]] = p
  /\ \A S \in SUBSET M : S # {} /\ (\A p \in S : next[p] \in S) => S = M

\* The descriptors of the semaphores with a blocked process, and the others.
Waiting == {d \in 1 .. MAXPROC : s_procQ[d] \in Proc}
Spare == (1 .. MAXPROC) \ Waiting

Children(r) == {p \in Proc : pcb_parent[p] = r}

-----------------------------------------------------------------------------
TypeOK ==
  /\ pcb_FREE_h \in Proc \cup {NULL}
  /\ \A f \in {pcb_next, pcb_prev, pcb_child, pcb_parent, pcb_prevSib, pcb_nextSib} :
        f \in [Proc -> Ptr]
  /\ s_next \in [Semd -> Semd \cup {NULL, ZERO}]
  /\ s_semAdd \in [Semd -> Sem \cup {NULL, 0, MAXINT}]
  /\ s_procQ \in [Semd -> Ptr]
  /\ semdFree_h \in 1 .. MAXPROC \cup {NULL}
  /\ pcb_semAdd \in [Proc -> Sem \cup {NULL, ZERO}]
  /\ readyQueue \in Proc \cup {NULL}
  /\ where \in [Proc -> {FREE, HELD, READY} \cup Sem]
  /\ trial \in Trials

\* No block is lost or handed out twice: the free stack holds exactly the
\* blocks that were never allocated or were given back.
FreeStackExact == Chain(pcb_FREE_h, pcb_next, At(FREE))

\* Whatever was inserted and removed, at either end or in the middle, every
\* queue is one ring over the blocks its callers put on it, the same in both
\* directions, with the tail on it: outProcQ's search ends and finds.
QueuesAreRings ==
  /\ Ring(readyQueue, pcb_next, pcb_prev, At(READY))
  /\ \A d \in Waiting : Ring(s_procQ[d], pcb_next, pcb_prev, At(s_semAdd[d]))

\* The list from dummy to dummy is strictly sorted and skips no semaphore, so
\* that the search for one stops where its descriptor is or belongs.
AslSorted ==
  \A d \in Waiting \cup {semdZero} :
     /\ s_next[d] \in Waiting \cup {semdMax}
     /\ s_semAdd[d] < s_semAdd[s_next[d]]
     /\ \A e \in Waiting : s_semAdd[d] < s_semAdd[e] => s_semAdd[s_next[d]] <= s_semAdd[e]

\* A semaphore has a descriptor exactly while a process waits on it; the other
\* descriptors are on the free stack, so that insertBlocked never runs out.
DescriptorsExact ==
  /\ {s_semAdd[d] : d \in Waiting} = {where[p] : p \in Proc} \cap Sem
  /\ \A d, e \in Waiting : s_semAdd[d] = s_semAdd[e] => d = e
  /\ Chain(semdFree_h, s_next, Spare)
  /\ \A p \in Proc : where[p] # FREE =>
        pcb_semAdd[p] = IF where[p] \in Sem THEN where[p] ELSE NULL

\* The children of a block form one list from its pcb_child on, linked both
\* ways, whichever child was removed and whatever links the removed one keeps.
SiblingsLinked ==
  \A r \in Proc :
     /\ IF Children(r) = {} THEN pcb_child[r] \in {NULL, ZERO}
        ELSE Chain(pcb_child[r], pcb_nextSib, Children(r))
     /\ \A p \in Children(r) :
           IF p = pcb_child[r] THEN pcb_prevSib[p] = NULL
           ELSE pcb_prevSib[p] \in Children(r) /\ pcb_nextSib[pcb_prevSib[p]] = p
=============================================================================
