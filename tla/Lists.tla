------------------------------- MODULE Lists -------------------------------
(***************************************************************************)
(* What phase 1 (pcb.c, asl.c) promises its callers, without a pointer: a  *)
(* pool of process blocks, FIFO queues - the ready queue and one for each  *)
(* semaphore with a blocked process - and for each block the list of its   *)
(* children, the newest first.  A block that a call returns is held by the *)
(* caller.                                                                 *)
(***************************************************************************)
EXTENDS ProcQueue

CONSTANTS Proc,      \* the process blocks
          Sem,       \* the semaphores a block can wait on
          READY      \* the name of the ready queue, not in Sem

VARIABLES free,      \* the blocks in the pool
          held,      \* those the caller holds: allocated, and on no queue
          queue,     \* READY or a semaphore |-> the blocks on its queue
          kids       \* block |-> its children

vars == <<free, held, queue, kids>>

Queue == {READY} \cup Sem

Init == /\ free = Proc
        /\ held = {}
        /\ queue = [q \in Queue |-> <<>>]
        /\ kids = [p \in Proc |-> <<>>]

Members(s) == {s[i] : i \in DOMAIN s}
Allocated == Proc \ free
Parented(p) == \E r \in Proc : p \in Members(kids[r])

Alloc(p) == /\ p \in free
            /\ free' = free \ {p}
            /\ held' = held \cup {p}
            /\ UNCHANGED <<queue, kids>>

Free(p) == /\ p \in held /\ kids[p] = <<>> /\ ~Parented(p)
           /\ held' = held \ {p}
           /\ free' = free \cup {p}
           /\ UNCHANGED <<queue, kids>>

Insert(q, p) == /\ p \in held
                /\ held' = held \ {p}
                /\ queue' = [queue EXCEPT ![q] = insertProcQ(@, p)]
                /\ UNCHANGED <<free, kids>>

\* The caller gets the first block of the queue, or the one it names.
Out(q, p) == /\ p \in Members(queue[q])
             /\ queue' = [queue EXCEPT ![q] = outProcQ(@, {p})]
             /\ held' = held \cup {p}
             /\ UNCHANGED <<free, kids>>

Remove(q) == queue[q] # <<>> /\ Out(q, Head(queue[q]))

Adopt(p) == /\ p \in Allocated /\ kids[p] = <<>> /\ ~Parented(p)
            /\ kids' \in {[kids EXCEPT ![r] = <<p>> \o @] : r \in Allocated \ {p}}
            /\ UNCHANGED <<free, held, queue>>

Orphan(p) == /\ Parented(p)
             /\ kids' = [r \in Proc |-> outProcQ(kids[r], {p})]
             /\ UNCHANGED <<free, held, queue>>

RemoveChild(r) == kids[r] # <<>> /\ Orphan(Head(kids[r]))

\* Remove is an Out, and RemoveChild an Orphan.
Next == \/ \E p \in Proc : Adopt(p) \/ Orphan(p)
        \/ \E p \in Proc : Alloc(p) \/ Free(p)
        \/ \E q \in Queue, p \in Proc : Insert(q, p) \/ Out(q, p)

Spec == Init /\ [][Next]_vars
=============================================================================
