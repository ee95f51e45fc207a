---------------------------- MODULE Phase1Lists ----------------------------
(***************************************************************************)
(* Phase 1 implements Lists: the sequences are read off the pointers.      *)
(***************************************************************************)
EXTENDS Phase1

\* The nodes from x on along f, up to last or to the end of the links.
Along(f, x, last) ==
  LET walk[k \in 1 .. MAXPROC] ==
        IF k = 1 THEN x
        ELSE LET w == walk[k - 1]
             IN  IF w \in Proc \ {last} THEN f[w] ELSE NULL
  IN  [k \in 1 .. Cardinality({j \in 1 .. MAXPROC : walk[j] \in Proc}) |-> walk[k]]

QueueOf(tp) == IF tp \in Proc THEN Along(pcb_next, pcb_next[tp], tp) ELSE <<>>

TailOf(q) == IF q = READY THEN readyQueue
             ELSE IF \E d \in Waiting : s_semAdd[d] = q
             THEN s_procQ[CHOOSE d \in Waiting : s_semAdd[d] = q] ELSE NULL

FreeBlocks == LET stack == Along(pcb_next, pcb_FREE_h, NULL)
              IN  {stack[i] : i \in DOMAIN stack}

Lines == [q \in Queue |-> QueueOf(TailOf(q))]
Kids == [r \in Proc |-> Along(pcb_nextSib, pcb_child[r], NULL)]

L == INSTANCE Lists WITH
       free <- FreeBlocks, held <- At(HELD), queue <- Lines, kids <- Kids

\* Every call leaves the pools, the queues and the families, and what the caller
\* knows of its blocks, as Lists says.
ListsImplemented == L!Spec

\* A block comes off a queue in the order it got on: removeProcQ, removeBlocked
\* and removeChild give the first of what Lists has there.
FirstIsFirst ==
  [][ /\ Remove => L!Remove(READY)
      /\ \A s \in Sem : At(s) # {} /\ Wake(s) => L!Remove(s)
      /\ \A r \in Proc : RemoveChild(r) /\ pcb_child[r] # NULL => L!RemoveChild(r)
    ]_vars

\* headBlocked gives the block that has waited longest, if one waits.
HeadBlockedFinds ==
  \A s \in Sem : At(s) # {} => headBlocked(s) = Head(QueueOf(TailOf(s)))
=============================================================================
