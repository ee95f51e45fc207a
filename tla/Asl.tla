-------------------------------- MODULE Asl --------------------------------
(***************************************************************************)
(* phase1/asl.c over the pointers of PcbLists: the list of semaphore        *)
(* descriptors, sorted by address between its two dummies, and the stack   *)
(* of the free ones.                                                       *)
(***************************************************************************)
EXTENDS PcbLists

CONSTANTS Sem,        \* addresses of the semaphores
          MAXINT      \* the address in the last dummy

ASSUME AslAssumption == MAXINT \in Nat \ {0} /\ Sem \subseteq 1 .. (MAXINT - 1)

Semd == 1 .. (MAXPROC + 2)          \* semdTable
semdZero == MAXPROC + 1
semdMax == MAXPROC + 2

VARIABLES s_next, s_semAdd, s_procQ,   \* the fields of the descriptors
          semdFree_h,
          pcb_semAdd                   \* the semaphore a block waits on

aslVars == <<s_next, s_semAdd, s_procQ, semdFree_h>>

-----------------------------------------------------------------------------
initASL ==
  /\ semdFree_h = MAXPROC
  /\ s_next = [d \in Semd |-> IF d = semdZero THEN semdMax
                              ELSE IF d = 1 THEN NULL
                              ELSE IF d = semdMax THEN ZERO ELSE d - 1]
  /\ s_semAdd = [d \in Semd |-> IF d = semdMax THEN MAXINT ELSE 0]
  /\ s_procQ = [d \in Semd |-> IF d \in {semdZero, semdMax} THEN NULL ELSE ZERO]

semdActive_h == semdZero

SlipNextBelow(d, address) ==
  s_next[d] \in Semd /\ s_semAdd[s_next[d]] \in (0 .. address) \ {MAXINT}

\* The loop goes on from d: the address in the next descriptor is lower.
NextBelow(d, address) ==
  s_next[d] \in Semd /\ s_semAdd[s_next[d]] \in 0 .. (address - 1)

\* The descriptors the search passes through: the least set with the head in
\* it and the next of each member from which the loop goes on.
Passed(address) ==
  {d \in Semd \ {semdMax} : \A S \in SUBSET (Semd \ {semdMax}) :
     (semdActive_h \in S /\ \A e \in S : NextBelow(e, address) => s_next[e] \in S)
     => d \in S}

\* The one it stops at, whose next is the descriptor of semAdd or the first above.
searchASL(semAdd) ==
  LET address == IF semAdd = NULL THEN MAXINT ELSE semAdd
  IN  CHOOSE d \in Passed(address) : ~NextBelow(d, address)

Active(s) == s_semAdd[s_next[searchASL(s)]] = s

freeSemd(d, next) ==
  /\ s_next' = [next EXCEPT ![d] = semdFree_h]
  /\ semdFree_h' = d
  /\ s_semAdd' = [s_semAdd EXCEPT ![d] = NULL]

\* insertBlocked, FALSE: p waits on s, with the descriptor s has or a new one.
insertBlocked(s, p) ==
  LET prev == searchASL(s)
      has == s_semAdd[s_next[prev]] = s
      d == IF has THEN s_next[prev] ELSE semdFree_h
      in == insertProcQ(IF has THEN s_procQ[d] ELSE NULL, p)
  IN  /\ has \/ semdFree_h # NULL
      /\ IF has
         THEN UNCHANGED <<s_next, s_semAdd, semdFree_h>>
         ELSE /\ semdFree_h' = s_next[d]
              /\ s_next' = [s_next EXCEPT ![d] = s_next[prev], ![prev] = d]
              /\ s_semAdd' = [s_semAdd EXCEPT ![d] = s]
      /\ s_procQ' = [s_procQ EXCEPT ![d] = in.tail]
      /\ pcb_next' = in.next /\ pcb_prev' = in.prev
      /\ pcb_semAdd' = [pcb_semAdd EXCEPT ![p] = s]

SlipKeepEmpty(prev, out) ==
  LET d == s_next[prev]
  IN  /\ s_procQ' = [s_procQ EXCEPT ![d] = out.tail]
      /\ pcb_next' = out.next /\ pcb_prev' = out.prev
      /\ UNCHANGED <<s_next, s_semAdd, semdFree_h>>
      /\ pcb_semAdd' = [pcb_semAdd EXCEPT ![out.found] = NULL]

\* The common end of removeBlocked and outBlocked: out is what is left of the
\* queue of the descriptor behind prev, which is given back when it is empty.
takeOff(prev, out) ==
  LET d == s_next[prev]
  IN  /\ s_procQ' = [s_procQ EXCEPT ![d] = out.tail]
      /\ pcb_next' = out.next /\ pcb_prev' = out.prev
      /\ IF out.tail = NULL
         THEN freeSemd(d, [s_next EXCEPT ![prev] = s_next[d]])
         ELSE UNCHANGED <<s_next, s_semAdd, semdFree_h>>
      /\ pcb_semAdd' = [pcb_semAdd EXCEPT ![out.found] = NULL]

removeBlocked(s) ==
  LET prev == searchASL(s)
  IN  s_semAdd[s_next[prev]] = s /\ takeOff(prev, removeProcQ(s_procQ[s_next[prev]]))

outBlocked(p) ==
  LET prev == searchASL(pcb_semAdd[p])
  IN  /\ s_semAdd[s_next[prev]] = pcb_semAdd[p]
      /\ takeOff(prev, outProcQ(s_procQ[s_next[prev]], p))

SlipHeadIsTail(s) == s_procQ[s_next[searchASL(s)]]

\* Whether or not the descriptor the search stops before is the one of s.
headBlocked(s) == headProcQ(s_procQ[s_next[searchASL(s)]])
=============================================================================
