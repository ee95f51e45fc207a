-------------------------- MODULE LifecycleProofs --------------------------
(***************************************************************************)
(* The nucleus implements Lifecycle, for any number of processes,          *)
(* semaphores and devices: every handler, with all it calls, is one step   *)
(* of the life cycle or leaves it alone.                                   *)
(***************************************************************************)
EXTENDS NucleusLifecycle, NucleusProofs

(***************************************************************************)
(* procState as a function of the four pieces of state it is read off: a   *)
(* handler builds their new values in several moves.                       *)
(***************************************************************************)
StateOf(free, current, ready, semAdd) ==
  [p \in Pcb |-> CASE p \in free -> Free
                   [] p = current -> Running
                   [] p \in Range(ready) -> Ready
                   [] OTHER -> semAdd[p]]

LEMMA StateNow == procState = StateOf(pcbFree, currentProcess, readyQueue, pcb_semAdd)
BY DEF procState, StateOf

LEMMA StateNext ==
  procState' = StateOf(pcbFree', currentProcess', readyQueue', pcb_semAdd')
BY DEF procState, StateOf

LEMMA StateConstants ==
  /\ Free # Ready /\ Free # Running /\ Ready # Running
  /\ \A a \in SemAdds : a # Free /\ a # Ready /\ a # Running
BY StateAssumption

(***************************************************************************)
(* Under the partition each process is in one state, and its state tells   *)
(* where it is.                                                            *)
(***************************************************************************)
LEMMA StateTells ==
  ASSUME NEW free, NEW current, NEW ready, NEW semAdd, NEW procQ,
         Placed(free, current, ready, semAdd, procQ), NEW p \in Pcb
  PROVE  /\ StateOf(free, current, ready, semAdd)[p] =
              IF p \in free THEN Free
              ELSE IF p = current THEN Running
              ELSE IF p \in Range(ready) THEN Ready ELSE semAdd[p]
         /\ StateOf(free, current, ready, semAdd)[p] = Free <=> p \in free
         /\ StateOf(free, current, ready, semAdd)[p] = Running <=> p = current
         /\ StateOf(free, current, ready, semAdd)[p] = Ready <=> p \in Range(ready)
         /\ \A a \in SemAdds :
              StateOf(free, current, ready, semAdd)[p] = a <=> semAdd[p] = a
<1> DEFINE here == StateOf(free, current, ready, semAdd)[p]
<1>1. /\ p \in free \/ p = current \/ p \in Range(ready) \/ semAdd[p] \in SemAdds
      /\ p \in free => p # current /\ p \notin Range(ready) /\ semAdd[p] = NULL
      /\ p = current => p \notin Range(ready) /\ semAdd[p] = NULL
      /\ p \in Range(ready) => semAdd[p] = NULL
  BY DEF Placed
<1>2. here = CASE p \in free -> Free
               [] p = current -> Running
               [] p \in Range(ready) -> Ready
               [] OTHER -> semAdd[p]
  BY DEF StateOf
<1> HIDE DEF here
<1>3. here = IF p \in free THEN Free
             ELSE IF p = current THEN Running
             ELSE IF p \in Range(ready) THEN Ready ELSE semAdd[p]
  <2>1. CASE p \in free
    BY <1>1, <1>2, <2>1
  <2>2. CASE p = current
    BY <1>1, <1>2, <2>2
  <2>3. CASE p \in Range(ready)
    BY <1>1, <1>2, <2>3
  <2>4. CASE p \notin free /\ p # current /\ p \notin Range(ready)
    BY <1>2, <2>4
  <2> QED BY <2>1, <2>2, <2>3, <2>4
<1>4. NULL \notin SemAdds
  BY Constants
<1> QED BY <1>1, <1>3, <1>4, StateConstants DEF here

LEMMA StateIsFunction ==
  ASSUME NEW free, NEW current, NEW ready, NEW semAdd
  PROVE  StateOf(free, current, ready, semAdd) =
           [p \in Pcb |-> StateOf(free, current, ready, semAdd)[p]]
BY DEF StateOf

LEMMA InStates ==
  ASSUME Inv
  PROVE  /\ L!In(Free) = pcbFree
         /\ L!In(Running) = {p \in Pcb : p = currentProcess}
         /\ \A a \in SemAdds : L!In(a) = blockedOn(a)
<1>1. Placed(pcbFree, currentProcess, readyQueue, pcb_semAdd, s_procQ)
  BY InvFacts
<1>2. pcbFree \subseteq Pcb
  BY <1>1 DEF Placed
<1>3. \A p \in Pcb : /\ procState[p] = Free <=> p \in pcbFree
                     /\ procState[p] = Running <=> p = currentProcess
                     /\ \A a \in SemAdds : procState[p] = a <=> pcb_semAdd[p] = a
  BY <1>1, StateNow, StateTells
<1> QED BY <1>2, <1>3 DEF L!In, blockedOn

-----------------------------------------------------------------------------
(***************************************************************************)
(* scheduler() is Dispatch: it gives the processor to a ready process if   *)
(* there is one.                                                           *)
(***************************************************************************)
LEMMA SchedulerDispatches ==
  ASSUME NEW free, NEW ready, NEW semAdd, NEW procQ,
         NEW n \in Int, NEW s \in Int,
         Placed(free, NULL, ready, semAdd, procQ), scheduler(ready, n, s),
         pcbFree' = free, pcb_semAdd' = semAdd
  PROVE  L!Dispatch(StateOf(free, NULL, ready, semAdd))
<1> DEFINE next == StateOf(free, NULL, ready, semAdd)
<1>1. \A p \in Pcb : next[p] # Running
  BY StateTells, Constants
<1>2. \A p \in Pcb : next[p] = Ready <=> p \in Range(ready)
  BY StateTells
<1>3. procState' = StateOf(free, currentProcess', readyQueue', semAdd)
  BY StateNext
<1>4. CASE ready = <<>>
  <2>1. currentProcess' = NULL /\ readyQueue' = ready
    BY <1>4 DEF scheduler
  <2>2. procState' = next
    BY <1>3, <2>1
  <2>3. \A p \in Pcb : next[p] # Ready
    <3>1. Range(ready) = {}
      BY <1>4 DEF Range
    <3> QED BY <1>2, <3>1
  <2> HIDE DEF next
  <2>4. L!Dispatch(next)
    BY <2>2, <2>3 DEF L!Dispatch
  <2> QED BY <2>4 DEF next
<1>5. CASE ready # <<>>
  <2> DEFINE first == Head(ready)
             rest == Tail(ready)
  <2>1. currentProcess' = first /\ readyQueue' = rest
    BY <1>5 DEF scheduler
  <2>2. ready \in Seq(Pcb) /\ NoRepeats(ready)
    BY DEF Placed
  <2>3. /\ first \in Pcb /\ Range(ready) = {first} \cup Range(rest)
        /\ first \notin Range(rest)
    BY <1>5, <2>2, RemoveProperties
  <2> HIDE DEF first, rest
  <2>4. procState' = [next EXCEPT ![first] = Running]
    <3>1. first \notin free /\ \A p \in Pcb : p \in Range(ready) => p \notin free
      BY <2>3 DEF Placed
    <3>2. \A p \in Pcb : procState'[p] = IF p = first THEN Running ELSE next[p]
      <4> SUFFICES ASSUME NEW p \in Pcb
                   PROVE  procState'[p] = IF p = first THEN Running ELSE next[p]
        OBVIOUS
      <4>1. Placed(free, first, rest, semAdd, procQ)
        BY <2>1, SchedulerPlaced
      <4>2. procState'[p] = IF p \in free THEN Free
                            ELSE IF p = first THEN Running
                            ELSE IF p \in Range(rest) THEN Ready ELSE semAdd[p]
        BY <1>3, <2>1, <4>1, StateTells
      <4>3. next[p] = IF p \in free THEN Free
                      ELSE IF p \in Range(ready) THEN Ready ELSE semAdd[p]
        BY StateTells, Constants
      <4> QED BY <2>3, <3>1, <4>2, <4>3
    <3>3. next = [p \in Pcb |-> next[p]] /\ procState' = [p \in Pcb |-> procState'[p]]
      BY <1>3, StateIsFunction
    <3> HIDE DEF next
    <3> QED BY <3>2, <3>3
  <2>5. next[first] = Ready
    BY <1>2, <2>3
  <2> HIDE DEF next
  <2>6. L!Dispatch(next)
    BY <1>1, <2>3, <2>4, <2>5 DEF L!Dispatch
  <2> QED BY <2>6 DEF next
<1> QED BY <1>4, <1>5
(***************************************************************************)
(* Moving the processes of S to s, told by where each process then is.     *)
(***************************************************************************)
LEMMA MovedIs ==
  ASSUME Inv, NEW S, NEW s, NEW free, NEW current, NEW ready, NEW semAdd, NEW procQ,
         Placed(free, current, ready, semAdd, procQ),
         \A p \in Pcb \cap S : StateOf(free, current, ready, semAdd)[p] = s,
         \A p \in Pcb \ S : /\ p \in free <=> p \in pcbFree
                            /\ p = current <=> p = currentProcess
                            /\ p \in Range(ready) <=> p \in Range(readyQueue)
                            /\ semAdd[p] = pcb_semAdd[p]
  PROVE  L!Moved(S, s) = StateOf(free, current, ready, semAdd)
<1> DEFINE next == StateOf(free, current, ready, semAdd)
<1>1. Placed(pcbFree, currentProcess, readyQueue, pcb_semAdd, s_procQ)
  BY InvFacts
<1>2. \A p \in Pcb \ S : next[p] = procState[p]
  <2> SUFFICES ASSUME NEW p \in Pcb \ S PROVE next[p] = procState[p]
    OBVIOUS
  <2>1. next[p] = IF p \in free THEN Free
                  ELSE IF p = current THEN Running
                  ELSE IF p \in Range(ready) THEN Ready ELSE semAdd[p]
    BY StateTells
  <2>2. procState[p] = IF p \in pcbFree THEN Free
                       ELSE IF p = currentProcess THEN Running
                       ELSE IF p \in Range(readyQueue) THEN Ready ELSE pcb_semAdd[p]
    BY <1>1, StateNow, StateTells
  <2> QED BY <2>1, <2>2
<1>3. next = [p \in Pcb |-> next[p]]
  BY StateIsFunction
<1> HIDE DEF next
<1>4. \A p \in Pcb \cap S : next[p] = s
  BY DEF next
<1>5. next = [p \in Pcb |-> IF p \in S THEN s ELSE procState[p]]
  BY <1>2, <1>3, <1>4
<1> QED BY <1>5 DEF L!Moved, next

-----------------------------------------------------------------------------
LEMMA RangeOfInsert ==
  \A q \in Seq(Pcb), p \in Pcb : Range(insertProcQ(q, p)) = Range(q) \cup {p}
BY InsertProperties

(***************************************************************************)
(* The interrupts: the processes of W, blocked on a, are made ready, and   *)
(* the interrupted one gives way.                                          *)
(***************************************************************************)
LEMMA FinishInterrupts ==
  ASSUME Inv, NEW a \in SemAdds, NEW W \in SUBSET blockedOn(a), NEW ready,
         NEW s \in Int,
         Placed(pcbFree, currentProcess, ready, pcb_semAdd', s_procQ'),
         Range(ready) = Range(readyQueue) \cup W,
         \A p \in Pcb \ W : pcb_semAdd'[p] = pcb_semAdd[p],
         finish(ready, s), pcbFree' = pcbFree
  PROVE  L!Preempt \/ L!Interrupt(a)
<1> DEFINE all == IF currentProcess = NULL THEN ready
                  ELSE insertProcQ(ready, currentProcess)
           next == StateOf(pcbFree, NULL, all, pcb_semAdd')
           S == W \cup L!In(Running)
<1>1. OtherTypes /\ processCount \in Int
  BY InvFacts DEF OtherTypes
<1>2. /\ ready \in Seq(Pcb) /\ currentProcess \in Pcb \cup {NULL}
      /\ pcb_semAdd' \in [Pcb -> SemAdds \cup {NULL}]
  BY DEF Placed
<1>3. Range(all) = Range(readyQueue) \cup W \cup L!In(Running)
  <2>1. L!In(Running) = {p \in Pcb : p = currentProcess}
    BY InStates
  <2>2. CASE currentProcess = NULL
    BY <2>1, <2>2, Constants
  <2>3. CASE currentProcess # NULL
    <3>1. currentProcess \in Pcb /\ L!In(Running) = {currentProcess}
      BY <1>2, <2>1, <2>3
    <3>2. ready \in Seq(Pcb)
      BY <1>2
    <3>3. Range(insertProcQ(ready, currentProcess)) = Range(ready) \cup {currentProcess}
      BY <3>1, <3>2, RangeOfInsert
    <3> QED BY <2>3, <3>1, <3>3
  <2> QED BY <2>2, <2>3
<1>4. Placed(pcbFree, NULL, all, pcb_semAdd', s_procQ')
  <2>1. CASE currentProcess = NULL
    BY <2>1
  <2>2. CASE currentProcess # NULL
    BY <2>2, PreemptPlaced
  <2> QED BY <2>1, <2>2
<1>5. scheduler(all, processCount, s)
  BY DEF finish
<1> HIDE DEF all
<1>6. L!Dispatch(next)
  BY <1>1, <1>4, <1>5, SchedulerDispatches
<1>7. L!Moved(S, Ready) = next
  <2>1. \A p \in Pcb \cap S : next[p] = Ready
    BY <1>3, <1>4, StateTells
  <2>2. \A p \in Pcb \ S : /\ p = NULL <=> p = currentProcess
                           /\ p \in Range(all) <=> p \in Range(readyQueue)
                           /\ pcb_semAdd'[p] = pcb_semAdd[p]
    <3>1. \A p \in Pcb \ S : p # NULL /\ p # currentProcess
      BY InStates, Constants
    <3> QED BY <1>3, <3>1
  <2> HIDE DEF S
  <2> QED BY <1>4, <2>1, <2>2, MovedIs
<1>8. W \in SUBSET L!In(a)
  BY InStates
<1> HIDE DEF next
<1>9. CASE W = {}
  BY <1>6, <1>7, <1>9 DEF L!Preempt
<1>10. CASE W # {}
  BY <1>6, <1>7, <1>8, <1>10 DEF L!Interrupt
<1> QED BY <1>9, <1>10

LEMMA QuantumIsInterrupt == ASSUME Inv, QuantumExpired PROVE L!Preempt \/ L!Interrupt(ClockSem)
<1>1. Placed(pcbFree, currentProcess, readyQueue, pcb_semAdd, s_procQ) /\ OtherTypes
  BY InvFacts
<1>2. /\ finish(readyQueue, softBlockCount)
      /\ pcbFree' = pcbFree /\ pcb_semAdd' = pcb_semAdd /\ s_procQ' = s_procQ
  BY DEF QuantumExpired, pcbs, blocking
<1>3. {} \in SUBSET blockedOn(ClockSem) /\ Range(readyQueue) = Range(readyQueue) \cup {}
  OBVIOUS
<1>4. softBlockCount \in Int /\ ClockSem \in SemAdds
  BY <1>1, SemAddsFacts DEF OtherTypes
<1>5. Placed(pcbFree, currentProcess, readyQueue, pcb_semAdd', s_procQ')
  BY <1>1, <1>2
<1>6. \A p \in Pcb \ {} : pcb_semAdd'[p] = pcb_semAdd[p]
  BY <1>2
<1> QED BY <1>2, <1>3, <1>4, <1>5, <1>6, FinishInterrupts
LEMMA TickIsInterrupt ==
  ASSUME \A a \in UserSems : a < ClockSem, Inv, IntervalTimer
  PROVE  L!Preempt \/ L!Interrupt(ClockSem)
<1> DEFINE woken == takenByTick
           ready == readyQueue \o woken
           queues == IF woken = <<>> THEN s_procQ
                     ELSE [s_procQ EXCEPT ![ClockSem] = <<>>]
<1>1. Placed(pcbFree, currentProcess, readyQueue, pcb_semAdd, s_procQ) /\ OtherTypes
  BY InvFacts
<1>2. /\ readyQueue \in Seq(Pcb)
      /\ s_procQ \in [SemAdds -> Seq(Pcb)] /\ s_procQ[ClockSem] \in Seq(Pcb)
      /\ Range(s_procQ[ClockSem]) = blockedOn(ClockSem)
      /\ ClockSem \in SemAdds
  BY <1>1, SemAddsFacts DEF Placed, blockedOn
<1>3. headBlocked(queues, ClockSem) = NULL
  BY ClockEmptied
<1>4. finish(ready, softBlockCount - Len(woken)) /\ pcbFree' = pcbFree
  BY <1>3 DEF IntervalTimer, takenByTick, pcbs
<1>5. /\ Placed(pcbFree, currentProcess, ready, pcb_semAdd', s_procQ')
      /\ \A p \in Pcb \ Range(woken) : pcb_semAdd'[p] = pcb_semAdd[p]
  BY TickPlaced
<1>6. woken \in Seq(Pcb) /\ Range(woken) \in SUBSET blockedOn(ClockSem)
  <2>1. <<>> \in Seq(Pcb) /\ Range(<<>>) = {}
    BY DEF Range
  <2> QED BY <1>2, <2>1 DEF takenByTick
<1> HIDE DEF woken
<1>7. Range(ready) = Range(readyQueue) \cup Range(woken)
  BY <1>2, <1>6, ConcatenationProperties
<1>8. softBlockCount - Len(woken) \in Int
  BY <1>1, <1>6, LenProperties DEF OtherTypes
<1> HIDE DEF ready
<1> QED BY <1>2, <1>4, <1>5, <1>6, <1>7, <1>8, FinishInterrupts

LEMMA DeviceIsInterrupt ==
  ASSUME Inv, DeviceInterrupt
  PROVE  L!Preempt \/ L!Interrupt(semIndex(servedDevice))
<1> DEFINE a == semIndex(servedDevice)
           first == Head(s_procQ[a])
<1>1. Placed(pcbFree, currentProcess, readyQueue, pcb_semAdd, s_procQ) /\ OtherTypes
  BY InvFacts
<1>2. a \in SemAdds
  BY <1>1, ServedSemIndex, SemAddsFacts DEF DeviceInterrupt, OtherTypes
<1>3. pcbFree' = pcbFree
  BY DEF DeviceInterrupt, pcbs
<1>4. CASE wakesOne(a)
  <2>1. /\ removeBlocked(a)
        /\ finish(insertProcQ(readyQueue, first), softBlockCount - 1)
    BY <1>4 DEF DeviceInterrupt
  <2>2. s_procQ[a] # <<>>
    BY <1>4 DEF wakesOne, ASL
  <2>3. /\ s_procQ' = [s_procQ EXCEPT ![a] = Tail(@)]
        /\ pcb_semAdd' = [pcb_semAdd EXCEPT ![first] = NULL]
    BY <1>2, <2>1, <2>2 DEF removeBlocked, ASL
  <2> HIDE DEF a
  <2>4. Placed(pcbFree, currentProcess, insertProcQ(readyQueue, first),
               pcb_semAdd', s_procQ')
    BY <1>1, <1>2, <2>2, <2>3, WakePlaced
  <2>5. /\ s_procQ[a] \in Seq(Pcb) /\ Range(s_procQ[a]) = blockedOn(a)
        /\ readyQueue \in Seq(Pcb) /\ pcb_semAdd \in [Pcb -> SemAdds \cup {NULL}]
    BY <1>1, <1>2 DEF Placed, blockedOn
  <2>6. first \in Pcb /\ {first} \in SUBSET blockedOn(a)
    BY <2>2, <2>5, RemoveProperties
  <2> HIDE DEF first
  <2>7. Range(insertProcQ(readyQueue, first)) = Range(readyQueue) \cup {first}
    BY <2>5, <2>6, InsertProperties
  <2>8. \A p \in Pcb \ {first} : pcb_semAdd'[p] = pcb_semAdd[p]
    BY <2>3, <2>5
  <2>9. softBlockCount - 1 \in Int
    BY <1>1 DEF OtherTypes
  <2>10. L!Preempt \/ L!Interrupt(a)
    BY <1>2, <1>3, <2>1, <2>4, <2>6, <2>7, <2>8, <2>9, FinishInterrupts
  <2> QED BY <2>10 DEF a
<1>5. CASE ~wakesOne(a)
  <2>1. finish(readyQueue, softBlockCount) /\ UNCHANGED <<s_procQ, pcb_semAdd>>
    BY <1>5 DEF DeviceInterrupt
  <2> HIDE DEF a
  <2>2. Placed(pcbFree, currentProcess, readyQueue, pcb_semAdd', s_procQ')
    BY <1>1, <2>1
  <2>3. /\ {} \in SUBSET blockedOn(a) /\ Range(readyQueue) = Range(readyQueue) \cup {}
        /\ \A p \in Pcb \ {} : pcb_semAdd'[p] = pcb_semAdd[p]
    BY <2>1
  <2>4. softBlockCount \in Int
    BY <1>1 DEF OtherTypes
  <2>5. L!Preempt \/ L!Interrupt(a)
    BY <1>2, <1>3, <2>1, <2>2, <2>3, <2>4, FinishInterrupts
  <2> QED BY <2>5 DEF a
<1> QED BY <1>4, <1>5

-----------------------------------------------------------------------------
(***************************************************************************)
(* The system calls.                                                       *)
(***************************************************************************)
LEMMA RunningNow ==
  ASSUME Inv, currentProcess \in Pcb
  PROVE  L!In(Running) = {currentProcess}
BY InStates

LEMMA SameState ==
  ASSUME UNCHANGED <<pcbFree, currentProcess, readyQueue, pcb_semAdd>>
  PROVE  procState' = procState
BY StateNow, StateNext

LEMMA CreateIsCreate ==
  ASSUME Inv, currentProcess \in Pcb, sysCreate
  PROVE  L!Create \/ procState' = procState
<1>1. Placed(pcbFree, currentProcess, readyQueue, pcb_semAdd, s_procQ)
  BY InvFacts
<1>2. CASE pcbFree = {}
  BY <1>2, SameState DEF sysCreate, vars, pcbs, blocking
<1>3. CASE pcbFree # {}
  <2>1. PICK p \in pcbFree :
          /\ allocPcb(p)
          /\ readyQueue' = insertProcQ(readyQueue, p)
          /\ UNCHANGED <<currentProcess, s_procQ>>
    BY <1>3 DEF sysCreate
  <2>2. /\ pcbFree' = pcbFree \ {p} /\ pcb_semAdd' = [pcb_semAdd EXCEPT ![p] = NULL]
    BY <2>1 DEF allocPcb
  <2>3. /\ p \in Pcb /\ readyQueue \in Seq(Pcb) /\ pcbFree \subseteq Pcb
        /\ pcb_semAdd \in [Pcb -> SemAdds \cup {NULL}]
    BY <1>1 DEF Placed
  <2>4. Placed(pcbFree', currentProcess', readyQueue', pcb_semAdd', s_procQ')
    BY <1>1, <2>1, <2>2, CreatePlaced
  <2>5. Range(readyQueue') = Range(readyQueue) \cup {p}
    <3>1. Range(insertProcQ(readyQueue, p)) = Range(readyQueue) \cup {p}
      BY <2>3, InsertProperties
    <3> QED BY <2>1, <3>1
  <2>6. \A q \in Pcb \cap {p} : procState'[q] = Ready
    BY <2>4, <2>5, StateNext, StateTells
  <2>7. \A q \in Pcb \ {p} : /\ q \in pcbFree' <=> q \in pcbFree
                             /\ q = currentProcess' <=> q = currentProcess
                             /\ q \in Range(readyQueue') <=> q \in Range(readyQueue)
                             /\ pcb_semAdd'[q] = pcb_semAdd[q]
    BY <2>1, <2>2, <2>3, <2>5
  <2>8. L!Moved({p}, Ready) = procState'
    BY <2>4, <2>6, <2>7, StateNext, MovedIs
  <2>9. L!In(Running) # {} /\ p \in L!In(Free)
    BY RunningNow, InStates
  <2> QED BY <2>8, <2>9 DEF L!Create
<1> QED BY <1>2, <1>3

LEMMA SignalIsSignal ==
  ASSUME Inv, currentProcess \in Pcb, NEW a \in UserSems, sysSignal(a)
  PROVE  L!Signal(a) \/ procState' = procState
<1> DEFINE first == Head(s_procQ[a])
<1>1. Placed(pcbFree, currentProcess, readyQueue, pcb_semAdd, s_procQ) /\ a \in SemAdds
  BY InvFacts, SemAddsFacts
<1>2. UNCHANGED <<currentProcess, pcbFree>>
  BY DEF sysSignal, pcbs
<1>3. CASE wakesOne(a)
  <2>1. removeBlocked(a) /\ readyQueue' = insertProcQ(readyQueue, first)
    BY <1>3 DEF sysSignal
  <2>2. s_procQ[a] # <<>>
    BY <1>3 DEF wakesOne, ASL
  <2>3. /\ s_procQ' = [s_procQ EXCEPT ![a] = Tail(@)]
        /\ pcb_semAdd' = [pcb_semAdd EXCEPT ![first] = NULL]
    BY <1>1, <2>1, <2>2 DEF removeBlocked, ASL
  <2>4. Placed(pcbFree', currentProcess', readyQueue', pcb_semAdd', s_procQ')
    BY <1>1, <1>2, <2>1, <2>2, <2>3, WakePlaced
  <2>5. /\ s_procQ[a] \in Seq(Pcb) /\ Range(s_procQ[a]) = blockedOn(a)
        /\ readyQueue \in Seq(Pcb) /\ pcb_semAdd \in [Pcb -> SemAdds \cup {NULL}]
    BY <1>1 DEF Placed, blockedOn
  <2>6. first \in Pcb /\ first \in blockedOn(a)
    BY <2>2, <2>5, RemoveProperties
  <2> HIDE DEF first
  <2>7. Range(readyQueue') = Range(readyQueue) \cup {first}
    <3>1. Range(insertProcQ(readyQueue, first)) = Range(readyQueue) \cup {first}
      BY <2>5, <2>6, InsertProperties
    <3> QED BY <2>1, <3>1
  <2>8. \A q \in Pcb \cap {first} : procState'[q] = Ready
    BY <2>4, <2>7, StateNext, StateTells
  <2>9. \A q \in Pcb \ {first} :
          /\ q \in pcbFree' <=> q \in pcbFree
          /\ q = currentProcess' <=> q = currentProcess
          /\ q \in Range(readyQueue') <=> q \in Range(readyQueue)
          /\ pcb_semAdd'[q] = pcb_semAdd[q]
    BY <1>2, <2>3, <2>5, <2>7
  <2>10. L!Moved({first}, Ready) = procState'
    BY <2>4, <2>8, <2>9, StateNext, MovedIs
  <2>11. L!In(Running) # {} /\ first \in L!In(a)
    BY <1>1, <2>6, RunningNow, InStates
  <2> QED BY <2>10, <2>11 DEF L!Signal
<1>4. CASE ~wakesOne(a)
  BY <1>2, <1>4, SameState DEF sysSignal
<1> QED BY <1>3, <1>4

LEMMA InsertIsBlock ==
  ASSUME Inv, currentProcess \in Pcb, NEW a \in SemAdds, NEW s \in Int,
         insertBlocked(a, currentProcess), scheduler(readyQueue, processCount, s),
         pcbFree' = pcbFree
  PROVE  L!Block(a)
<1> DEFINE next == StateOf(pcbFree, NULL, readyQueue, pcb_semAdd')
<1>1. Placed(pcbFree, currentProcess, readyQueue, pcb_semAdd, s_procQ) /\ OtherTypes
  BY InvFacts
<1>2. Placed(pcbFree, NULL, readyQueue, pcb_semAdd', s_procQ')
  BY <1>1, InsertBlockedPlaced
<1>3. pcb_semAdd' = [pcb_semAdd EXCEPT ![currentProcess] = a]
  BY DescriptorLeft
<1>4. pcb_semAdd \in [Pcb -> SemAdds \cup {NULL}]
  BY <1>1 DEF Placed
<1>5. processCount \in Int
  BY <1>1 DEF OtherTypes
<1>6. L!Dispatch(next)
  BY <1>2, <1>5, SchedulerDispatches
<1>7. \A p \in Pcb \cap {currentProcess} : next[p] = a
  <2>1. pcb_semAdd'[currentProcess] = a
    BY <1>3, <1>4
  <2>2. next[currentProcess] = a
    BY <1>2, <2>1, StateTells
  <2> QED BY <2>2
<1>8. \A p \in Pcb \ {currentProcess} : /\ p = NULL <=> p = currentProcess
                                        /\ pcb_semAdd'[p] = pcb_semAdd[p]
  BY <1>3, <1>4, Constants
<1>9. L!Moved({currentProcess}, a) = next
  BY <1>2, <1>7, <1>8, MovedIs
<1> HIDE DEF next
<1> QED BY <1>6, <1>9, RunningNow DEF L!Block

LEMMA WaitIsBlock ==
  ASSUME Inv, currentProcess \in Pcb, NEW a \in UserSems, sysWait(a)
  PROVE  L!Block(a) \/ procState' = procState
<1>1. a \in SemAdds /\ softBlockCount \in Int /\ pcbFree' = pcbFree
  BY InvFacts, SemAddsFacts DEF OtherTypes, sysWait, pcbs
<1>2. CASE sem[a] - 1 < 0
  BY <1>1, <1>2, InsertIsBlock DEF sysWait
<1>3. CASE ~(sem[a] - 1 < 0)
  BY <1>1, <1>3, SameState DEF sysWait, resume
<1> QED BY <1>2, <1>3

LEMMA ClockIsBlock ==
  ASSUME Inv, currentProcess \in Pcb, sysWaitForClock
  PROVE  L!Block(ClockSem)
<1>1. /\ ClockSem \in SemAdds /\ softBlockCount + 1 \in Int /\ pcbFree' = pcbFree
      /\ sem[ClockSem] \in Int /\ sem[ClockSem] <= 0
  BY InvFacts, SemAddsFacts DEF OtherTypes, sysWaitForClock, pcbs
<1>2. sem[ClockSem] - 1 < 0
  BY <1>1
<1> QED BY <1>1, <1>2, InsertIsBlock DEF sysWaitForClock

LEMMA DeviceWaitIsBlock ==
  ASSUME Inv, currentProcess \in Pcb, NEW d \in Devices, sysGoPowerRangers(d)
  PROVE  L!Block(semIndex(d)) \/ procState' = procState
<1> DEFINE a == semIndex(d)
<1>1. a \in SemAdds /\ softBlockCount + 1 \in Int /\ pcbFree' = pcbFree
  <2>1. a \in SemAdds
    BY DeviceSemIndex, SemAddsFacts
  <2>2. softBlockCount + 1 \in Int
    BY InvFacts DEF OtherTypes
  <2> QED BY <2>1, <2>2 DEF sysGoPowerRangers, pcbs
<1>2. CASE sem[a] - 1 < 0
  <2>1. insertBlocked(a, currentProcess)
        /\ scheduler(readyQueue, processCount, softBlockCount + 1)
    BY <1>2 DEF sysGoPowerRangers
  <2> QED BY <1>1, <2>1, InsertIsBlock
<1>3. CASE ~(sem[a] - 1 < 0)
  BY <1>1, <1>3, SameState DEF sysGoPowerRangers, resume
<1> QED BY <1>2, <1>3

LEMMA KillIsTerminate ==
  ASSUME Inv, Genealogy, currentProcess \in Pcb, sysSendToNorthKorea
  PROVE  L!Terminate
<1> DEFINE dead == Family(currentProcess)
           ready == outProcQ(readyQueue, dead)
           free == pcbFree \cup dead
           n == processCount - Cardinality(dead)
           s == softBlockCount
                  - Cardinality({p \in dead : countedAsSoft(pcb_semAdd[p])})
           next == StateOf(free, NULL, ready, pcb_semAdd')
<1>1. Placed(pcbFree, currentProcess, readyQueue, pcb_semAdd, s_procQ) /\ OtherTypes
  BY InvFacts
<1>2. dead \in SUBSET Pcb /\ currentProcess \in dead
  BY FamilyFacts
<1>3. /\ pcbFree' = free
      /\ pcb_semAdd' = [p \in Pcb |-> IF p \in dead THEN NULL ELSE pcb_semAdd[p]]
      /\ s_procQ' = [a \in SemAdds |-> outProcQ(s_procQ[a], dead)]
      /\ scheduler(ready, n, s)
  BY DEF sysSendToNorthKorea, executeOrderSixtySix
<1>4. dead \in SUBSET Live
  <2>1. currentProcess \in Live
    BY <1>1 DEF Placed, Live
  <2> QED BY <2>1, FamilyAlive DEF Genealogy, Inv
<1>5. n \in Int /\ s \in Int
  <2>1. {p \in dead : countedAsSoft(pcb_semAdd[p])} \in SUBSET Pcb
    BY <1>2
  <2> QED BY <1>1, <1>2, <2>1, CardinalityOfPcbs DEF OtherTypes
<1> HIDE DEF dead, n, s
<1>6. Placed(free, NULL, ready, pcb_semAdd', s_procQ')
  BY <1>1, <1>2, <1>3, KillPlaced
<1>7. Range(ready) = Range(readyQueue) \ dead
  <2>1. readyQueue \in Seq(Pcb)
    BY <1>1 DEF Placed
  <2> QED BY <2>1, OutProperties
<1>8. L!Dispatch(next)
  BY <1>3, <1>5, <1>6, SchedulerDispatches
<1>9. \A p \in Pcb \cap dead : next[p] = Free
  BY <1>6, StateTells
<1>10. \A p \in Pcb \ dead : /\ p \in free <=> p \in pcbFree
                             /\ p = NULL <=> p = currentProcess
                             /\ p \in Range(ready) <=> p \in Range(readyQueue)
                             /\ pcb_semAdd'[p] = pcb_semAdd[p]
  BY <1>2, <1>3, <1>7, Constants
<1>11. L!Moved(dead, Free) = next
  BY <1>6, <1>9, <1>10, MovedIs
<1>12. dead \in SUBSET (Pcb \ L!In(Free)) /\ L!In(Running) = {currentProcess}
  BY <1>4, InStates, RunningNow DEF Live
<1> HIDE DEF next
<1> QED BY <1>2, <1>8, <1>11, <1>12 DEF L!Terminate

LEMMA CallLifecycle ==
  ASSUME Inv, Genealogy, sysCallHandler
  PROVE  L!Next \/ procState' = procState
<1>1. currentProcess \in Pcb
  BY InvFacts DEF sysCallHandler, executing, OtherTypes, Placed
<1>2. CASE sysCreate
  BY <1>1, <1>2, CreateIsCreate DEF L!Next
<1>3. CASE sysSendToNorthKorea
  BY <1>1, <1>3, KillIsTerminate DEF L!Next
<1>4. ASSUME NEW a \in UserSems, sysSignal(a) \/ sysWait(a)
      PROVE  L!Next \/ procState' = procState
  <2>1. L!Signal(a) \/ L!Block(a) \/ procState' = procState
    BY <1>1, <1>4, SignalIsSignal, WaitIsBlock
  <2>2. a \in SemAdds
    BY SemAddsFacts
  <2> QED BY <2>1, <2>2 DEF L!Next
<1>5. ASSUME NEW type \in Handled, sysBYOL(type)
      PROVE  L!Next \/ procState' = procState
  <2>1. CASE type \in pcb_states[currentProcess]
    BY <1>1, <1>5, <2>1, KillIsTerminate DEF L!Next, sysBYOL
  <2>2. CASE type \notin pcb_states[currentProcess]
    BY <1>5, <2>2, SameState DEF sysBYOL, resume, blocking
  <2> QED BY <2>1, <2>2
<1>6. CASE sysWaitForClock
  BY <1>1, <1>6, ClockIsBlock, SemAddsFacts DEF L!Next
<1> QED BY <1>2, <1>3, <1>4, <1>5, <1>6 DEF sysCallHandler

LEMMA InterruptLifecycle ==
  ASSUME \A a \in UserSems : a < ClockSem, Inv,
         QuantumExpired \/ IntervalTimer \/ DeviceInterrupt
  PROVE  L!Next
<1>1. CASE QuantumExpired
  BY <1>1, QuantumIsInterrupt, SemAddsFacts DEF L!Next
<1>2. CASE IntervalTimer
  BY <1>2, TickIsInterrupt, SemAddsFacts DEF L!Next
<1>3. CASE DeviceInterrupt
  <2>1. L!Preempt \/ L!Interrupt(semIndex(servedDevice))
    BY <1>3, DeviceIsInterrupt
  <2>2. semIndex(servedDevice) \in SemAdds
    BY <1>3, InvFacts, ServedSemIndex, SemAddsFacts DEF DeviceInterrupt, OtherTypes
  <2> QED BY <2>1, <2>2 DEF L!Next
<1> QED BY <1>1, <1>2, <1>3

LEMMA StepLifecycle ==
  ASSUME \A a \in UserSems : a < ClockSem
  PROVE  Inv /\ Genealogy /\ [Next]_vars => [L!Next]_procState
<1> SUFFICES ASSUME Inv, Genealogy, [Next]_vars
             PROVE  L!Next \/ procState' = procState
  OBVIOUS
<1>1. CASE sysCallHandler
  BY <1>1, CallLifecycle
<1>2. CASE waitForIO
  <2>1. PICK d \in Devices : executing /\ sysGoPowerRangers(d)
    BY <1>2 DEF waitForIO
  <2>2. currentProcess \in Pcb
    BY <2>1, InvFacts DEF executing, OtherTypes, Placed
  <2>3. L!Block(semIndex(d)) \/ procState' = procState
    BY <2>1, <2>2, DeviceWaitIsBlock
  <2>4. semIndex(d) \in SemAdds
    BY DeviceSemIndex, SemAddsFacts
  <2> QED BY <2>3, <2>4 DEF L!Next
<1>3. CASE QuantumExpired \/ IntervalTimer \/ DeviceInterrupt
  BY <1>3, InterruptLifecycle
<1>4. CASE Trap
  BY <1>4, SameState DEF Trap, pullUpAndDie, vars, pcbs, blocking
<1>5. CASE QuantumEndsMasked
  BY <1>5, SameState DEF QuantumEndsMasked, pcbs, blocking
<1>6. CASE \E d \in Devices : StartIO(d) \/ DeviceDone(d)
  BY <1>6, SameState DEF StartIO, DeviceDone, resume, pcbs, blocking
<1>7. CASE Stopped \/ UNCHANGED vars
  BY <1>7, SameState DEF Stopped, vars, pcbs, blocking
<1> QED BY <1>1, <1>2, <1>3, <1>4, <1>5, <1>6, <1>7 DEF Next

LEMMA InitLifecycle == Init => L!Init
<1> SUFFICES ASSUME Init PROVE L!Init
  OBVIOUS
<1>1. Placed(pcbFree, currentProcess, readyQueue, pcb_semAdd, s_procQ)
  BY InitInv, InvFacts
<1>2. PICK p \in Pcb : p = currentProcess
  BY DEF Init
<1>3. \A q \in Pcb : procState[q] = IF q = p THEN Running ELSE Free
  <2>1. pcbFree = Pcb \ {p}
    BY <1>2 DEF Init
  <2> QED BY <1>1, <1>2, <2>1, StateNow, StateTells
<1>4. procState = [q \in Pcb |-> procState[q]]
  BY DEF procState
<1>5. procState = [q \in Pcb |-> IF q = p THEN Running ELSE Free]
  BY <1>3, <1>4
<1> QED BY <1>5 DEF L!Init

(***************************************************************************)
(* initial.c, scheduler.c, exceptions.c and interrupts.c together: whatever *)
(* is called and interrupts, in any order, every process is free, running, *)
(* ready or blocked on one semaphore, moves between these only as          *)
(* Lifecycle lets it, and the processor is never idle past a ready         *)
(* process.  The semaphores of the programs must lie below sem[]: the loop *)
(* of the tick does not end otherwise.                                     *)
(***************************************************************************)
THEOREM LifecycleImplemented ==
  ASSUME \A a \in UserSems : a < ClockSem
  PROVE  Spec => ImplementsLifecycle
<1>1. Inv /\ Genealogy /\ [Next]_vars => [L!Next]_procState
  BY StepLifecycle
<1> QED BY <1>1, InitLifecycle, Invariance, GenealogyInvariance, PTL
        DEF Spec, ImplementsLifecycle, L!Spec
=============================================================================
