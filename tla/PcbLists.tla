------------------------------ MODULE PcbLists ------------------------------
(***************************************************************************)
(* phase1/pcb.c at the level of its pointers: the stack of free process    *)
(* blocks, the circular doubly linked queues that a tail pointer           *)
(* designates, and the sibling lists of the process tree.  Blocks are      *)
(* named by their index in initPcbs' array; a pointer is a block, NULL, or *)
(* the ZERO a field of static storage starts with (NULL is not zero here). *)
(***************************************************************************)
EXTENDS Integers, Sequences, FiniteSets

CONSTANTS MAXPROC,   \* blocks in the array
          NULL

ASSUME PcbAssumption == MAXPROC \in Nat \ {0} /\ NULL \notin Int

Proc == 1 .. MAXPROC
ZERO == 0
Ptr == Proc \cup {NULL, ZERO}

VARIABLES pcb_FREE_h,                  \* top of the free stack
          pcb_next, pcb_prev,          \* a block's neighbours on its queue
          pcb_child, pcb_parent, pcb_prevSib, pcb_nextSib

linkVars == <<pcb_next, pcb_prev>>
treeVars == <<pcb_child, pcb_parent, pcb_prevSib, pcb_nextSib>>

-----------------------------------------------------------------------------
SlipInitNoReset ==
  /\ pcb_FREE_h = MAXPROC
  /\ pcb_next = [p \in Proc |-> p - 1]
  /\ pcb_prev = [p \in Proc |-> ZERO]
  /\ pcb_child = [p \in Proc |-> ZERO]
  /\ pcb_parent = [p \in Proc |-> ZERO]
  /\ pcb_prevSib = [p \in Proc |-> ZERO]
  /\ pcb_nextSib = [p \in Proc |-> ZERO]

\* initPcbs frees the blocks one after the other, the last ends on top.
initPcbs ==
  /\ pcb_FREE_h = MAXPROC
  /\ pcb_next = [p \in Proc |-> IF p = 1 THEN NULL ELSE p - 1]
  /\ pcb_prev = [p \in Proc |-> ZERO]
  /\ pcb_child = [p \in Proc |-> ZERO]
  /\ pcb_parent = [p \in Proc |-> ZERO]
  /\ pcb_prevSib = [p \in Proc |-> ZERO]
  /\ pcb_nextSib = [p \in Proc |-> ZERO]

SlipFreeNoLink(p) == pcb_FREE_h' = p /\ UNCHANGED <<linkVars, treeVars>>

freePcb(p) ==
  /\ pcb_next' = [pcb_next EXCEPT ![p] = pcb_FREE_h]
  /\ pcb_FREE_h' = p
  /\ UNCHANGED <<pcb_prev, treeVars>>

\* Every link of the block is reset but the one to its parent.
allocPcb(p) ==
  /\ pcb_FREE_h # NULL /\ p = pcb_FREE_h
  /\ pcb_FREE_h' = pcb_next[p]
  /\ pcb_next' = [pcb_next EXCEPT ![p] = NULL]
  /\ pcb_prev' = [pcb_prev EXCEPT ![p] = NULL]
  /\ pcb_child' = [pcb_child EXCEPT ![p] = NULL]
  /\ pcb_prevSib' = [pcb_prevSib EXCEPT ![p] = NULL]
  /\ pcb_nextSib' = [pcb_nextSib EXCEPT ![p] = NULL]
  /\ UNCHANGED pcb_parent

-----------------------------------------------------------------------------
\* The queue operations give the links and the tail pointer they leave behind,
\* and the block they return.

SlipInsertOneWay(tp, p) ==
  [tail |-> p,
   next |-> IF tp = NULL THEN [pcb_next EXCEPT ![p] = p]
            ELSE [pcb_next EXCEPT ![p] = pcb_next[tp], ![tp] = p],
   prev |-> [pcb_prev EXCEPT ![p] = IF tp = NULL THEN p ELSE tp]]

insertProcQ(tp, p) ==
  [tail |-> p,
   next |-> IF tp = NULL THEN [pcb_next EXCEPT ![p] = p]
            ELSE [pcb_next EXCEPT ![p] = pcb_next[tp], ![tp] = p],
   prev |-> IF tp = NULL THEN [pcb_prev EXCEPT ![p] = p]
            ELSE [pcb_prev EXCEPT ![p] = tp, ![pcb_next[tp]] = p]]

headProcQ(tp) == IF tp = NULL THEN NULL ELSE pcb_next[tp]

\* The blocks the search looks at from the head on: the least set with the
\* head in it and with what follows each of its members but the tail.
Searched(tp) ==
  {p \in Proc : \A S \in SUBSET Proc :
     (pcb_next[tp] \in S /\ \A x \in S \ {tp} : pcb_next[x] \in S) => p \in S}

OnQueue(tp, p) == tp # NULL /\ (p = tp \/ p \in Searched(tp))

SlipOutKeepsTail(tp, p) ==
  IF ~OnQueue(tp, p)
  THEN [tail |-> tp, next |-> pcb_next, prev |-> pcb_prev, found |-> NULL]
  ELSE [tail |-> IF pcb_next[p] = p THEN NULL ELSE tp,
        next |-> [pcb_next EXCEPT ![pcb_prev[p]] = pcb_next[p]],
        prev |-> [pcb_prev EXCEPT ![pcb_next[p]] = pcb_prev[p]],
        found |-> p]

outProcQ(tp, p) ==
  IF ~OnQueue(tp, p)
  THEN [tail |-> tp, next |-> pcb_next, prev |-> pcb_prev, found |-> NULL]
  ELSE IF p = tp /\ pcb_next[p] = p
  THEN [tail |-> NULL, next |-> pcb_next, prev |-> pcb_prev, found |-> p]
  ELSE [tail |-> IF p = tp THEN pcb_prev[p] ELSE tp,
        next |-> [pcb_next EXCEPT ![pcb_prev[p]] = pcb_next[p]],
        prev |-> [pcb_prev EXCEPT ![pcb_next[p]] = pcb_prev[p]],
        found |-> p]

SlipRemoveTail(tp) == outProcQ(tp, tp)

removeProcQ(tp) == outProcQ(tp, headProcQ(tp))

-----------------------------------------------------------------------------
SlipChildNoBackLink(prnt, p) ==
  LET first == pcb_child[prnt]
  IN  /\ pcb_child' = [pcb_child EXCEPT ![prnt] = p]
      /\ pcb_parent' = [pcb_parent EXCEPT ![p] = prnt]
      /\ pcb_nextSib' = [pcb_nextSib EXCEPT ![p] = first]
      /\ pcb_prevSib' = [pcb_prevSib EXCEPT ![p] = NULL]
      /\ UNCHANGED <<pcb_FREE_h, linkVars>>

\* The new child becomes the first one.
insertChild(prnt, p) ==
  LET first == pcb_child[prnt]
      shifted == IF first = NULL THEN pcb_prevSib
                 ELSE [pcb_prevSib EXCEPT ![first] = p]
  IN  /\ pcb_child' = [pcb_child EXCEPT ![prnt] = p]
      /\ pcb_parent' = [pcb_parent EXCEPT ![p] = prnt]
      /\ pcb_nextSib' = [pcb_nextSib EXCEPT ![p] = first]
      /\ pcb_prevSib' = [shifted EXCEPT ![p] = NULL]
      /\ UNCHANGED <<pcb_FREE_h, linkVars>>

\* The cases of outChild, in its order.  A block that never had a parent has
\* ZERO for one, and what lies at address zero is no block.
FirstChild(p) == pcb_parent[p] \in Proc /\ pcb_child[pcb_parent[p]] = p
OnlyChild(p) == FirstChild(p) /\ pcb_nextSib[p] = NULL /\ pcb_prevSib[p] = NULL
MiddleChild(p) == ~FirstChild(p) /\ pcb_nextSib[p] # NULL /\ pcb_prevSib[p] # NULL
LastChild(p) == ~FirstChild(p) /\ pcb_nextSib[p] = NULL /\ pcb_prevSib[p] # NULL
IsChild(p) == pcb_parent[p] # NULL
              /\ (FirstChild(p) \/ MiddleChild(p) \/ LastChild(p))

\* The removed child keeps its own sibling links.
Unlink(p) ==
  \/ /\ OnlyChild(p)
     /\ pcb_child' = [pcb_child EXCEPT ![pcb_parent[p]] = NULL]
     /\ UNCHANGED <<pcb_prevSib, pcb_nextSib>>
  \/ /\ FirstChild(p) /\ ~OnlyChild(p)
     /\ pcb_prevSib' = [pcb_prevSib EXCEPT ![pcb_nextSib[p]] = NULL]
     /\ pcb_child' = [pcb_child EXCEPT ![pcb_parent[p]] = pcb_nextSib[p]]
     /\ UNCHANGED pcb_nextSib
  \/ /\ MiddleChild(p)
     /\ pcb_nextSib' = [pcb_nextSib EXCEPT ![pcb_prevSib[p]] = pcb_nextSib[p]]
     /\ pcb_prevSib' = [pcb_prevSib EXCEPT ![pcb_nextSib[p]] = pcb_prevSib[p]]
     /\ UNCHANGED pcb_child
  \/ /\ LastChild(p)
     /\ pcb_nextSib' = [pcb_nextSib EXCEPT ![pcb_prevSib[p]] = NULL]
     /\ UNCHANGED <<pcb_child, pcb_prevSib>>

outChild(p) ==
  /\ IF p # NULL /\ IsChild(p)
     THEN Unlink(p) /\ pcb_parent' = [pcb_parent EXCEPT ![p] = NULL]
     ELSE UNCHANGED treeVars
  /\ UNCHANGED <<pcb_FREE_h, linkVars>>

removeChild(parent) == outChild(pcb_child[parent])
=============================================================================
