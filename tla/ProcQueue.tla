----------------------------- MODULE ProcQueue -----------------------------
(***************************************************************************)
(* What the process queues of phase1/pcb.c promise, as operators on        *)
(* sequences: the head of the circular list is the first element, its tail *)
(* pointer designates the last one and NULL is the empty queue.            *)
(***************************************************************************)
EXTENDS Integers, Sequences, FiniteSets, Functions

\* Definitions named Slip... are the same code with a plausible mistake in it;
\* the mutation runs put them in place of the ones they precede.

SlipInsertAtHead(q, p) == <<p>> \o q

\* insertProcQ links p in behind the old tail and moves the tail to it.
insertProcQ(q, p) == Append(q, p)

\* outProcQ applied to every member of S: the queue without them, the order
\* of the others kept.  A process that is not on q is left alone, as
\* outProcQ's search returns NULL without a change.
Kept(q, S) == {i \in DOMAIN q : q[i] \notin S}
Rank(keep, i) == Cardinality({j \in keep : j <= i})

SlipOutProcQNotTail(q, S) == IF q # <<>> /\ q[Len(q)] \in S THEN q
                             ELSE SelectSeq(q, LAMBDA p : p \notin S)

outProcQ(q, S) ==
  LET keep == Kept(q, S)
  IN  [k \in 1 .. Cardinality(keep) |->
         q[CHOOSE i \in keep : Rank(keep, i) = k]]

\* p is on the queue q, exactly once, or not at all.
NoRepeats(q) == \A i, j \in DOMAIN q : q[i] = q[j] => i = j
=============================================================================
