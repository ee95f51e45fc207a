---------------------------- MODULE NucleusProofs ----------------------------
(***************************************************************************)
(* Proofs about the nucleus for every number of processes, devices and     *)
(* semaphores: no process is ever lost or in two places, and the counts    *)
(* scheduler() relies on.                                                  *)
(***************************************************************************)
EXTENDS Nucleus, ProcQueueProofs

(***************************************************************************)
(* ProcessPartition, and the types of what it is about, as a predicate on  *)
(* the five pieces of state it relates: a handler builds their new values  *)
(* in several moves, each of which a lemma below takes in turn.            *)
(***************************************************************************)
Placed(free, current, ready, semAdd, procQ) ==
  /\ free \in SUBSET Pcb
  /\ current \in Pcb \cup {NULL}
  /\ ready \in Seq(Pcb) /\ NoRepeats(ready)
  /\ semAdd \in [Pcb -> SemAdds \cup {NULL}]
  /\ procQ \in [SemAdds -> Seq(Pcb)]
  /\ \A a \in SemAdds : NoRepeats(procQ[a])
  /\ \A a \in SemAdds : Range(procQ[a]) = {p \in Pcb : semAdd[p] = a}
  /\ \A p \in Pcb : p \in free \/ p = current \/ p \in Range(ready) \/ semAdd[p] # NULL
  /\ \A p \in Pcb : p \in free => p # current /\ p \notin Range(ready) /\ semAdd[p] = NULL
  /\ \A p \in Pcb : p = current => p \notin Range(ready) /\ semAdd[p] = NULL
  /\ \A p \in Pcb : p \in Range(ready) => semAdd[p] = NULL

LEMMA PlacedNow ==
  ASSUME TypeOK, ProcessPartition
  PROVE  Placed(pcbFree, currentProcess, readyQueue, pcb_semAdd, s_procQ)
BY DEF TypeOK, ProcessPartition, Placed, blockedOn

LEMMA PlacedNext ==
  ASSUME Placed(pcbFree', currentProcess', readyQueue', pcb_semAdd', s_procQ')
  PROVE  ProcessPartition'
BY DEF ProcessPartition, Placed, blockedOn

LEMMA Constants == NULL \notin Pcb /\ NULL \notin SemAdds /\ IsFiniteSet(Pcb)
BY PcbAssumption, SemAssumption

(***************************************************************************)
(* The moves.  insertProcQ of the interrupted process (finish()):          *)
(***************************************************************************)
LEMMA PreemptPlaced ==
  ASSUME NEW free, NEW current, NEW ready, NEW semAdd, NEW procQ,
         Placed(free, current, ready, semAdd, procQ),
         current # NULL
  PROVE  Placed(free, NULL, insertProcQ(ready, current), semAdd, procQ)
<1> DEFINE next == insertProcQ(ready, current)
<1>1. ready \in Seq(Pcb) /\ current \in Pcb /\ current \notin Range(ready)
      /\ NoRepeats(ready)
  BY DEF Placed
<1>2. /\ next \in Seq(Pcb) /\ NoRepeats(next)
      /\ Range(next) = Range(ready) \cup {current}
  BY <1>1, InsertProperties
<1> HIDE DEF next
<1>3. Placed(free, NULL, next, semAdd, procQ)
  BY <1>2, Constants DEF Placed
<1> QED BY <1>3 DEF next

(***************************************************************************)
(* scheduler() gives the processor to the head of the ready queue.         *)
(***************************************************************************)
LEMMA SchedulerPlaced ==
  ASSUME NEW free, NEW ready, NEW semAdd, NEW procQ, NEW n \in Int, NEW s \in Int,
         Placed(free, NULL, ready, semAdd, procQ),
         scheduler(ready, n, s)
  PROVE  /\ Placed(free, currentProcess', readyQueue', semAdd, procQ)
         /\ processCount' = n /\ softBlockCount' = s
         /\ mode' \in Modes /\ (mode' = "run" => currentProcess' # NULL)
         /\ (expired \in BOOLEAN => expired' \in BOOLEAN)
<1>1. ready \in Seq(Pcb) /\ NoRepeats(ready)
  BY DEF Placed
<1>2. CASE ready = <<>>
  <2>1. currentProcess' = NULL /\ readyQueue' = ready
    BY <1>2 DEF scheduler
  <2>2. mode' \in {"halt", "panic", "wait", "return"}
    BY <1>2 DEF scheduler
  <2> QED BY <2>1, <2>2 DEF scheduler, Modes
<1>3. CASE ready # <<>>
  <2>1. currentProcess' = Head(ready) /\ readyQueue' = Tail(ready) /\ mode' = "run"
    BY <1>3 DEF scheduler
  <2>2. /\ Head(ready) \in Pcb /\ Tail(ready) \in Seq(Pcb) /\ NoRepeats(Tail(ready))
        /\ Range(ready) = {Head(ready)} \cup Range(Tail(ready))
        /\ Head(ready) \notin Range(Tail(ready))
    BY <1>1, <1>3, RemoveProperties
  <2>3. Placed(free, Head(ready), Tail(ready), semAdd, procQ)
    BY <2>2, Constants DEF Placed
  <2> QED BY <2>1, <2>2, <2>3, Constants DEF scheduler, Modes
<1> QED BY <1>2, <1>3

(***************************************************************************)
(* A semaphore descriptor is always free for the running process: those in *)
(* use have a first process each, all different and none of them running.  *)
(***************************************************************************)
LEMMA DescriptorFree ==
  ASSUME NEW free, NEW current \in Pcb, NEW ready, NEW semAdd, NEW procQ,
         Placed(free, current, ready, semAdd, procQ)
  PROVE  Cardinality({a \in SemAdds : procQ[a] # <<>>}) < MAXPROC
<1> DEFINE used == {a \in SemAdds : procQ[a] # <<>>}
           others == Pcb \ {current}
           first == [a \in used |-> Head(procQ[a])]
<1>1. \A a \in used : Head(procQ[a]) \in Pcb /\ semAdd[Head(procQ[a])] = a
  <2> SUFFICES ASSUME NEW a \in used
               PROVE  Head(procQ[a]) \in Pcb /\ semAdd[Head(procQ[a])] = a
    OBVIOUS
  <2>1. procQ[a] \in Seq(Pcb) /\ procQ[a] # <<>>
    BY DEF Placed
  <2>2. Head(procQ[a]) \in Range(procQ[a])
    BY <2>1, RemoveProperties
  <2> QED BY <2>2 DEF Placed
<1>2. \A a \in used : Head(procQ[a]) # current
  BY <1>1, Constants DEF Placed
<1>3. first \in Injection(used, others)
  BY <1>1, <1>2 DEF Injection, IsInjective
<1>4. IsFiniteSet(others) /\ Cardinality(others) = MAXPROC - 1 /\ MAXPROC \in Nat
  BY Constants, FS_RemoveElement, FS_CardinalityType DEF MAXPROC
<1>5. IsFiniteSet(used) /\ Cardinality(used) <= Cardinality(others)
  BY <1>3, <1>4, FS_Injection
<1>6. Cardinality(used) \in Nat
  BY <1>5, FS_CardinalityType
<1> QED BY <1>4, <1>5, <1>6

(***************************************************************************)
(* insertBlocked moves the running process to the queue of a semaphore.    *)
(***************************************************************************)
LEMMA BlockPlaced ==
  ASSUME NEW free, NEW current \in Pcb, NEW ready, NEW semAdd, NEW procQ,
         NEW a \in SemAdds,
         Placed(free, current, ready, semAdd, procQ)
  PROVE  Placed(free, NULL, ready, [semAdd EXCEPT ![current] = a],
                [procQ EXCEPT ![a] = insertProcQ(@, current)])
<1> DEFINE q == procQ[a]
           next == insertProcQ(q, current)
           semAdd2 == [semAdd EXCEPT ![current] = a]
           procQ2 == [procQ EXCEPT ![a] = next]
<1>1. q \in Seq(Pcb) /\ NoRepeats(q) /\ Range(q) = {p \in Pcb : semAdd[p] = a}
      /\ semAdd[current] = NULL
  BY DEF Placed
<1>2. /\ next \in Seq(Pcb) /\ Range(next) = Range(q) \cup {current}
      /\ NoRepeats(next)
  <2>1. current \notin Range(q)
    BY <1>1, Constants
  <2> QED BY <1>1, <2>1, InsertProperties, ZenonT(120)
<1>3. /\ semAdd2 \in [Pcb -> SemAdds \cup {NULL}]
      /\ procQ2 \in [SemAdds -> Seq(Pcb)]
      /\ \A b \in SemAdds : NoRepeats(procQ2[b])
  <2> HIDE DEF next
  <2> QED BY <1>2 DEF Placed
<1>4. \A b \in SemAdds : Range(procQ2[b]) = {p \in Pcb : semAdd2[p] = b}
  <2> SUFFICES ASSUME NEW b \in SemAdds
               PROVE  Range(procQ2[b]) = {p \in Pcb : semAdd2[p] = b}
    OBVIOUS
  <2>1. /\ semAdd \in [Pcb -> SemAdds \cup {NULL}] /\ procQ \in [SemAdds -> Seq(Pcb)]
        /\ Range(procQ[b]) = {p \in Pcb : semAdd[p] = b}
    BY DEF Placed
  <2>2. procQ2[b] = IF b = a THEN next ELSE procQ[b]
    BY <2>1
  <2>3. {p \in Pcb : semAdd2[p] = b} =
          IF b = a THEN {p \in Pcb : semAdd[p] = b} \cup {current}
          ELSE {p \in Pcb : semAdd[p] = b}
    BY <2>1, <1>1, Constants
  <2> HIDE DEF next, semAdd2, procQ2
  <2> QED BY <2>1, <2>2, <2>3, <1>1, <1>2
<1>5. \A p \in Pcb : semAdd2[p] = IF p = current THEN a ELSE semAdd[p]
  BY DEF Placed
<1> HIDE DEF semAdd2, procQ2, next
<1>6. Placed(free, NULL, ready, semAdd2, procQ2)
  BY <1>3, <1>4, <1>5, Constants DEF Placed
<1> QED BY <1>6 DEF semAdd2, procQ2, next

(***************************************************************************)
(* A V moves the first process of a semaphore to the ready queue.          *)
(***************************************************************************)
LEMMA WakePlaced ==
  ASSUME NEW free, NEW current, NEW ready, NEW semAdd, NEW procQ,
         NEW a \in SemAdds, procQ[a] # <<>>,
         Placed(free, current, ready, semAdd, procQ)
  PROVE  Placed(free, current, insertProcQ(ready, Head(procQ[a])),
                [semAdd EXCEPT ![Head(procQ[a])] = NULL],
                [procQ EXCEPT ![a] = Tail(@)])
<1> DEFINE first == Head(procQ[a])
           rest == Tail(procQ[a])
           next == insertProcQ(ready, first)
           semAdd2 == [semAdd EXCEPT ![first] = NULL]
           procQ2 == [procQ EXCEPT ![a] = rest]
<1>1. procQ[a] \in Seq(Pcb) /\ NoRepeats(procQ[a])
      /\ Range(procQ[a]) = {p \in Pcb : semAdd[p] = a}
  BY DEF Placed
<1>2. /\ first \in Pcb /\ rest \in Seq(Pcb) /\ NoRepeats(rest)
      /\ Range(procQ[a]) = {first} \cup Range(rest) /\ first \notin Range(rest)
  BY <1>1, RemoveProperties
<1>3. semAdd[first] = a /\ first \notin free /\ first # current
      /\ first \notin Range(ready)
  BY <1>1, <1>2, Constants DEF Placed
<1>4. /\ next \in Seq(Pcb) /\ NoRepeats(next)
      /\ Range(next) = Range(ready) \cup {first}
  <2>1. ready \in Seq(Pcb) /\ NoRepeats(ready)
    BY DEF Placed
  <2> HIDE DEF first
  <2> QED BY <1>2, <1>3, <2>1, InsertProperties
<1> HIDE DEF first, rest, next
<1>5. /\ semAdd2 \in [Pcb -> SemAdds \cup {NULL}]
      /\ procQ2 \in [SemAdds -> Seq(Pcb)]
      /\ \A b \in SemAdds : NoRepeats(procQ2[b])
  BY <1>2 DEF Placed
<1>6. \A p \in Pcb : semAdd2[p] = IF p = first THEN NULL ELSE semAdd[p]
  BY DEF Placed
<1>7. \A b \in SemAdds : Range(procQ2[b]) = {p \in Pcb : semAdd2[p] = b}
  <2> SUFFICES ASSUME NEW b \in SemAdds
               PROVE  Range(procQ2[b]) = {p \in Pcb : semAdd2[p] = b}
    OBVIOUS
  <2>1. Range(procQ[b]) = {p \in Pcb : semAdd[p] = b}
    BY DEF Placed
  <2>2. procQ2[b] = IF b = a THEN rest ELSE procQ[b]
    BY DEF Placed
  <2> HIDE DEF semAdd2, procQ2
  <2>3. {p \in Pcb : semAdd2[p] = b} = {p \in Pcb : semAdd[p] = b} \ {first}
    BY <1>6, Constants
  <2> QED BY <2>1, <2>2, <2>3, <1>1, <1>2, <1>3
<1> HIDE DEF semAdd2, procQ2
<1>8. Placed(free, current, next, semAdd2, procQ2)
  BY <1>3, <1>4, <1>5, <1>6, <1>7, Constants DEF Placed
<1> QED BY <1>8 DEF semAdd2, procQ2, next, first, rest

(***************************************************************************)
(* The tick moves all the processes of a semaphore there.                  *)
(***************************************************************************)
LEMMA WakeAllPlaced ==
  ASSUME NEW free, NEW current, NEW ready, NEW semAdd, NEW procQ,
         NEW a \in SemAdds,
         Placed(free, current, ready, semAdd, procQ)
  PROVE  Placed(free, current, ready \o procQ[a],
                [p \in Pcb |-> IF p \in Range(procQ[a]) THEN NULL ELSE semAdd[p]],
                [procQ EXCEPT ![a] = <<>>])
<1> DEFINE woken == procQ[a]
           next == ready \o woken
           semAdd2 == [p \in Pcb |-> IF p \in Range(woken) THEN NULL ELSE semAdd[p]]
           procQ2 == [procQ EXCEPT ![a] = <<>>]
<1>1. /\ woken \in Seq(Pcb) /\ NoRepeats(woken)
      /\ Range(woken) = {p \in Pcb : semAdd[p] = a}
      /\ ready \in Seq(Pcb) /\ NoRepeats(ready)
  BY DEF Placed
<1>2. \A p \in Range(woken) : p \in Pcb /\ p \notin free /\ p # current
                              /\ p \notin Range(ready)
  BY <1>1, Constants DEF Placed
<1>3. /\ next \in Seq(Pcb) /\ NoRepeats(next)
      /\ Range(next) = Range(ready) \cup Range(woken)
  <2>1. Range(ready) \cap Range(woken) = {}
    BY <1>2
  <2> QED BY <1>1, <2>1, ConcatenationProperties
<1>4. <<>> \in Seq(Pcb) /\ NoRepeats(<<>>) /\ Range(<<>>) = {}
  BY DEF NoRepeats, Range
<1> HIDE DEF woken, next
<1>5. /\ semAdd2 \in [Pcb -> SemAdds \cup {NULL}]
      /\ procQ2 \in [SemAdds -> Seq(Pcb)]
      /\ \A b \in SemAdds : NoRepeats(procQ2[b])
  BY <1>4 DEF Placed
<1>6. \A p \in Pcb : semAdd2[p] = IF p \in Range(woken) THEN NULL ELSE semAdd[p]
  OBVIOUS
<1>7. \A b \in SemAdds : Range(procQ2[b]) = {p \in Pcb : semAdd2[p] = b}
  <2> SUFFICES ASSUME NEW b \in SemAdds
               PROVE  Range(procQ2[b]) = {p \in Pcb : semAdd2[p] = b}
    OBVIOUS
  <2>1. Range(procQ[b]) = {p \in Pcb : semAdd[p] = b}
    BY DEF Placed
  <2>2. procQ2[b] = IF b = a THEN <<>> ELSE procQ[b]
    BY DEF Placed
  <2> HIDE DEF semAdd2, procQ2
  <2> QED BY <2>1, <2>2, <1>1, <1>4, <1>6, Constants
<1> HIDE DEF semAdd2, procQ2
<1>8. Placed(free, current, next, semAdd2, procQ2)
  BY <1>1, <1>2, <1>3, <1>5, <1>6, <1>7, Constants DEF Placed
<1> QED BY <1>8 DEF semAdd2, procQ2, next, woken

(***************************************************************************)
(* executeOrderSixtySix moves a family, the running process included, to   *)
(* the free list.                                                          *)
(***************************************************************************)
LEMMA KillPlaced ==
  ASSUME NEW free, NEW current, NEW ready, NEW semAdd, NEW procQ,
         NEW dead \in SUBSET Pcb, current \in dead,
         Placed(free, current, ready, semAdd, procQ)
  PROVE  Placed(free \cup dead, NULL, outProcQ(ready, dead),
                [p \in Pcb |-> IF p \in dead THEN NULL ELSE semAdd[p]],
                [a \in SemAdds |-> outProcQ(procQ[a], dead)])
<1> DEFINE next == outProcQ(ready, dead)
           semAdd2 == [p \in Pcb |-> IF p \in dead THEN NULL ELSE semAdd[p]]
           procQ2 == [a \in SemAdds |-> outProcQ(procQ[a], dead)]
<1>1. /\ next \in Seq(Pcb) /\ NoRepeats(next) /\ Range(next) = Range(ready) \ dead
  BY OutProperties DEF Placed
<1>2. \A a \in SemAdds : /\ procQ2[a] \in Seq(Pcb) /\ NoRepeats(procQ2[a])
                         /\ Range(procQ2[a]) = Range(procQ[a]) \ dead
  BY OutProperties DEF Placed
<1>3. \A a \in SemAdds : Range(procQ[a]) = {p \in Pcb : semAdd[p] = a}
  BY DEF Placed
<1>4. procQ2 \in [SemAdds -> Seq(Pcb)]
  BY <1>2
<1>5. semAdd2 \in [Pcb -> SemAdds \cup {NULL}]
      /\ \A p \in Pcb : semAdd2[p] = IF p \in dead THEN NULL ELSE semAdd[p]
  BY DEF Placed
<1> HIDE DEF next, semAdd2, procQ2
<1>6. \A a \in SemAdds : Range(procQ2[a]) = {p \in Pcb : semAdd2[p] = a}
  BY <1>2, <1>3, <1>5, Constants, SMTT(30)
<1>7. Placed(free \cup dead, NULL, next, semAdd2, procQ2)
  BY <1>1, <1>2, <1>4, <1>5, <1>6, Constants DEF Placed
<1> QED BY <1>7 DEF next, semAdd2, procQ2

(***************************************************************************)
(* sysCreate moves a process from the free list to the ready queue.        *)
(***************************************************************************)
LEMMA CreatePlaced ==
  ASSUME NEW free, NEW current, NEW ready, NEW semAdd, NEW procQ,
         NEW p \in free,
         Placed(free, current, ready, semAdd, procQ)
  PROVE  Placed(free \ {p}, current, insertProcQ(ready, p),
                [semAdd EXCEPT ![p] = NULL], procQ)
<1> DEFINE next == insertProcQ(ready, p)
           semAdd2 == [semAdd EXCEPT ![p] = NULL]
<1>1. p \in Pcb /\ p \notin Range(ready) /\ p # current /\ semAdd[p] = NULL
  BY DEF Placed
<1>2. /\ next \in Seq(Pcb) /\ NoRepeats(next) /\ Range(next) = Range(ready) \cup {p}
  BY <1>1, InsertProperties DEF Placed
<1>3. semAdd2 = semAdd
  BY <1>1 DEF Placed
<1> HIDE DEF next, semAdd2
<1>4. Placed(free \ {p}, current, next, semAdd, procQ)
  BY <1>1, <1>2 DEF Placed
<1> QED BY <1>3, <1>4 DEF next, semAdd2

-----------------------------------------------------------------------------
(***************************************************************************)
(* Facts about the constants: every device, and what the interrupt handler *)
(* makes of one, has a semaphore of sem[] other than the clock's.          *)
(***************************************************************************)
LEMMA SemIndexRange ==
  ASSUME NEW l \in DEVNOSEM .. TERMINT, NEW n \in 0 .. DEVPERINT, NEW r \in BOOLEAN,
         n = DEVPERINT => l # TERMINT, r => l = TERMINT /\ n < DEVPERINT
  PROVE  semIndex([line |-> l, num |-> n, recv |-> r]) \in DeviceSems
<1>1. DEVPERINT \in Nat /\ DEVPERINT > 0
  BY DevPerIntAssumption
<1> DEFINE k == l - 3 + (IF r THEN 1 ELSE 0)
<1>2. l \in 3 .. 7
  BY DEF DEVNOSEM, TERMINT
<1>3. k \in 0 .. 5 /\ (n = DEVPERINT => k <= 3)
  BY <1>1, <1>2 DEF TERMINT
<1>4. k * DEVPERINT + n \in 0 .. 6 * DEVPERINT - 1
  <2> HIDE DEF k
  <2>1. DEVPERINT \in Int /\ n \in Int /\ 0 <= n /\ n <= DEVPERINT
        /\ (n = DEVPERINT => k <= 3)
    BY <1>1, <1>3
  <2>2. CASE k = 0
    BY <2>1, <2>2, <1>1
  <2>3. CASE k = 1
    BY <2>1, <2>3, <1>1
  <2>4. CASE k = 2
    BY <2>1, <2>4, <1>1
  <2>5. CASE k = 3
    BY <2>1, <2>5, <1>1
  <2>6. CASE k = 4
    BY <2>1, <2>6, <1>1
  <2>7. CASE k = 5
    BY <2>1, <2>7, <1>1
  <2> QED BY <2>2, <2>3, <2>4, <2>5, <2>6, <2>7, <1>3
<1>5. semIndex([line |-> l, num |-> n, recv |-> r]) = k * DEVPERINT + n
  BY DEF semIndex, DEVNOSEM
<1>6. DeviceSems = 0 .. 6 * DEVPERINT - 1
  BY <1>1 DEF DeviceSems, TOTALSEM
<1> HIDE DEF k
<1> QED BY <1>4, <1>5, <1>6

LEMMA SemAddsFacts ==
  /\ ClockSem \in SemAdds /\ ClockSem \notin DeviceSems /\ ClockSem \notin UserSems
  /\ DeviceSems \subseteq SemAdds /\ UserSems \subseteq SemAdds
  /\ SemAdds \subseteq Int
  /\ ClockSem \in 0 .. TOTALSEM
BY DevPerIntAssumption, SemAssumption
   DEF SemAdds, ClockSem, TOTALSEM, DeviceSems, DeviceOrClockSems

LEMMA DeviceSemIndex == \A d \in Devices : semIndex(d) \in DeviceSems
<1> SUFFICES ASSUME NEW d \in Devices PROVE semIndex(d) \in DeviceSems
  OBVIOUS
<1>1. /\ d.line \in DEVNOSEM .. TERMINT /\ d.num \in 0 .. DEVPERINT - 1
      /\ d.recv \in BOOLEAN /\ d = [line |-> d.line, num |-> d.num, recv |-> d.recv]
  BY DeviceAssumption DEF Device
<1>2. d.recv => d.line = TERMINT
  BY DeviceAssumption
<1>3. d.num \in 0 .. DEVPERINT /\ d.num < DEVPERINT /\ d.num # DEVPERINT
  BY <1>1, DevPerIntAssumption
<1> QED BY <1>1, <1>2, <1>3, SemIndexRange

LEMMA LeastLine ==
  ASSUME NEW lines \in SUBSET (DEVNOSEM .. TERMINT), lines # {}
  PROVE  \E x \in lines : \A y \in lines : x <= y
<1>1. lines \subseteq 3 .. 7
  BY DEF DEVNOSEM, TERMINT
<1>2. \A x \in lines : x \in Int /\ x >= 3 /\ x <= 7
  BY <1>1
<1>3. CASE 3 \in lines
  BY <1>2, <1>3
<1>4. CASE 3 \notin lines /\ 4 \in lines
  BY <1>2, <1>4
<1>5. CASE 3 \notin lines /\ 4 \notin lines /\ 5 \in lines
  BY <1>2, <1>5
<1>6. CASE 3 \notin lines /\ 4 \notin lines /\ 5 \notin lines /\ 6 \in lines
  BY <1>2, <1>6
<1>7. CASE lines = {7}
  BY <1>7
<1>8. lines = {7} \/ 3 \in lines \/ 4 \in lines \/ 5 \in lines \/ 6 \in lines
  <2>1. \A x \in lines : x = 3 \/ x = 4 \/ x = 5 \/ x = 6 \/ x = 7
    BY <1>2
  <2> QED BY <2>1, Zenon
<1> QED BY <1>3, <1>4, <1>5, <1>6, <1>7, <1>8

LEMMA ServedSemIndex ==
  ASSUME pending # {}, devStatus \in [Devices -> {"READY", "BUSY", "DONE"}]
  PROVE  semIndex(servedDevice) \in DeviceSems
<1> DEFINE lines == {d.line : d \in pending}
           l == CHOOSE x \in lines : \A d \in pending : x <= d.line
           n == getDeviceNumber(l)
<1>1. lines # {} /\ lines \subseteq DEVNOSEM .. TERMINT
      /\ \A d \in pending : d.line \in lines
  BY DeviceAssumption DEF pending, Device
<1>2. \E x \in lines : \A y \in lines : x <= y
  BY <1>1, LeastLine
<1>3. l \in lines
  BY <1>1, <1>2
<1>4. PICK d \in pending : d.line = l
  BY <1>3
<1>5. n \in {0, DEVPERINT} /\ (l = TERMINT => n = 0)
  <2>1. l = TERMINT => d.num = 0
    BY <1>4, DeviceAssumption DEF pending
  <2> QED BY <2>1, <1>4 DEF getDeviceNumber
<1>6. DEVPERINT \in Nat /\ DEVPERINT > 0
  BY DevPerIntAssumption
<1>7. l \in DEVNOSEM .. TERMINT
  BY <1>1, <1>3
<1>8. servedDevice = [line |-> l, num |-> n, recv |-> FALSE]
      \/ (l = TERMINT /\ servedDevice = [line |-> l, num |-> n, recv |-> TRUE])
  BY DEF servedDevice, OtherHalf
<1> HIDE DEF l, n
<1>9. n \in 0 .. DEVPERINT /\ (n = DEVPERINT => l # TERMINT)
      /\ (l = TERMINT => n < DEVPERINT)
  BY <1>5, <1>6
<1> QED BY <1>7, <1>8, <1>9, SemIndexRange

LEMMA CardinalityOfPcbs ==
  \A S \in SUBSET Pcb : IsFiniteSet(S) /\ Cardinality(S) \in Int
BY Constants, FS_Subset, FS_CardinalityType

-----------------------------------------------------------------------------
(***************************************************************************)
(* Inv is inductive.  It is the partition that carries the proof; the last *)
(* conjunct is what sysWaitForClock needs, and mode tells the handlers     *)
(* that run on behalf of a process that there is one.                      *)
(***************************************************************************)
OtherTypes ==
  /\ mode \in Modes
  /\ processCount \in Int /\ softBlockCount \in Int
  /\ sem \in [SemAdds -> Int]
  /\ pcb_parent \in [Pcb -> Pcb \cup {NULL}]
  /\ pcb_states \in [Pcb -> SUBSET TrapTypes]
  /\ devStatus \in [Devices -> {"READY", "BUSY", "DONE"}]
  /\ io \in [Pcb -> Devices \cup {NULL}]
  /\ expired \in BOOLEAN
  /\ mode = "run" => currentProcess # NULL
  /\ sem[ClockSem] <= 0

LEMMA InvFacts ==
  ASSUME Inv
  PROVE  /\ Placed(pcbFree, currentProcess, readyQueue, pcb_semAdd, s_procQ)
         /\ OtherTypes
BY PlacedNow DEF Inv, TypeOK, OtherTypes

LEMMA InvNext ==
  ASSUME Placed(pcbFree', currentProcess', readyQueue', pcb_semAdd', s_procQ'),
         OtherTypes'
  PROVE  Inv'
BY PlacedNext DEF Inv, TypeOK, OtherTypes, Placed

LEMMA FinishPlaced ==
  ASSUME NEW free, NEW ready, NEW semAdd, NEW procQ, NEW s \in Int,
         Placed(free, currentProcess, ready, semAdd, procQ), OtherTypes,
         finish(ready, s)
  PROVE  /\ Placed(free, currentProcess', readyQueue', semAdd, procQ)
         /\ processCount' = processCount /\ softBlockCount' = s
         /\ mode' \in Modes /\ (mode' = "run" => currentProcess' # NULL)
         /\ (expired \in BOOLEAN => expired' \in BOOLEAN)
<1> processCount \in Int
  BY DEF OtherTypes
<1>1. CASE currentProcess = NULL
  BY <1>1, SchedulerPlaced DEF finish
<1>2. CASE currentProcess # NULL
  <2>1. Placed(free, NULL, insertProcQ(ready, currentProcess), semAdd, procQ)
    BY <1>2, PreemptPlaced
  <2>2. scheduler(insertProcQ(ready, currentProcess), processCount, s)
    BY <1>2 DEF finish
  <2> HIDE DEF scheduler
  <2> QED BY <2>1, <2>2, SchedulerPlaced
<1> QED BY <1>1, <1>2

LEMMA InitInv == Init => Inv
<1> SUFFICES ASSUME Init PROVE Inv
  OBVIOUS
<1>1. TypeOK
  <2>1. expired \in BOOLEAN
    BY DEF Init
  <2>2. sem \in [SemAdds -> Int]
    BY SemAddsFacts DEF Init
  <2> QED BY <2>1, <2>2, Constants, SemAddsFacts DEF Init, TypeOK, Modes
<1>2. ProcessPartition
  <2>1. Range(<<>>) = {} /\ NoRepeats(<<>>)
    BY DEF Range, NoRepeats
  <2>2. \A a \in SemAdds : blockedOn(a) = {}
    BY Constants DEF Init, blockedOn
  <2> QED BY <2>1, <2>2, Constants DEF Init, ProcessPartition
<1>3. sem[ClockSem] <= 0
  BY SemAddsFacts DEF Init
<1> QED BY <1>1, <1>2, <1>3, Constants DEF Inv, Init

LEMMA QuantumExpiredInv == ASSUME Inv, QuantumExpired PROVE Inv'
<1>1. Placed(pcbFree, currentProcess, readyQueue, pcb_semAdd, s_procQ) /\ OtherTypes
  BY InvFacts
<1>2. finish(readyQueue, softBlockCount) /\ UNCHANGED <<pcbs, blocking, hardware>>
  BY DEF QuantumExpired
<1>3. /\ Placed(pcbFree, currentProcess', readyQueue', pcb_semAdd, s_procQ)
      /\ processCount' = processCount /\ softBlockCount' = softBlockCount
      /\ mode' \in Modes /\ (mode' = "run" => currentProcess' # NULL)
      /\ (expired \in BOOLEAN => expired' \in BOOLEAN)
  BY <1>1, <1>2, FinishPlaced DEF OtherTypes
<1>4. OtherTypes'
  BY <1>1, <1>2, <1>3 DEF OtherTypes, pcbs, blocking, hardware
<1>5. Placed(pcbFree', currentProcess', readyQueue', pcb_semAdd', s_procQ')
  BY <1>2, <1>3 DEF pcbs, blocking
<1> QED BY <1>4, <1>5, InvNext

LEMMA QuantumEndsMaskedInv == ASSUME Inv, QuantumEndsMasked PROVE Inv'
<1>1. Placed(pcbFree, currentProcess, readyQueue, pcb_semAdd, s_procQ) /\ OtherTypes
  BY InvFacts
<1>2. OtherTypes'
  BY <1>1 DEF QuantumEndsMasked, OtherTypes, counts, pcbs, blocking, hardware
<1> QED BY <1>1, <1>2, InvNext DEF QuantumEndsMasked, pcbs, blocking

(***************************************************************************)
(* The processes a tick moves to the ready queue.                          *)
(***************************************************************************)
takenByTick ==
  IF headBlocked(s_procQ, ClockSem) = NULL THEN <<>> ELSE s_procQ[ClockSem]

LEMMA TickPlaced ==
  ASSUME Inv, IntervalTimer
  PROVE  /\ Placed(pcbFree, currentProcess, readyQueue \o takenByTick,
                   pcb_semAdd', s_procQ')
         /\ pcb_semAdd' = [p \in Pcb |-> IF p \in Range(takenByTick) THEN NULL
                                         ELSE pcb_semAdd[p]]
<1> DEFINE woken == takenByTick
<1>0. Placed(pcbFree, currentProcess, readyQueue, pcb_semAdd, s_procQ)
  BY InvFacts
<1>1. pcb_semAdd' = [p \in Pcb |-> IF p \in Range(woken) THEN NULL ELSE pcb_semAdd[p]]
      /\ s_procQ' = IF woken = <<>> THEN s_procQ
                    ELSE [s_procQ EXCEPT ![ClockSem] = <<>>]
  BY DEF IntervalTimer, takenByTick
<1>2. ASSUME woken = <<>>
      PROVE  Placed(pcbFree, currentProcess, readyQueue \o woken, pcb_semAdd', s_procQ')
  <2>1. Range(<<>>) = {}
    BY DEF Range
  <2>2. pcb_semAdd \in [Pcb -> SemAdds \cup {NULL}] /\ readyQueue \in Seq(Pcb)
    BY <1>0 DEF Placed
  <2> HIDE DEF woken
  <2>3. pcb_semAdd' = pcb_semAdd /\ s_procQ' = s_procQ
    BY <1>1, <1>2, <2>1, <2>2
  <2>4. readyQueue \o woken = readyQueue
    BY <1>2, <2>2
  <2> QED BY <1>0, <2>3, <2>4
<1>3. ASSUME woken # <<>>
      PROVE  Placed(pcbFree, currentProcess, readyQueue \o woken, pcb_semAdd', s_procQ')
  <2>1. woken = s_procQ[ClockSem]
    BY <1>3 DEF takenByTick
  <2>2. Placed(pcbFree, currentProcess, readyQueue \o s_procQ[ClockSem],
               [p \in Pcb |-> IF p \in Range(s_procQ[ClockSem]) THEN NULL
                              ELSE pcb_semAdd[p]],
               [s_procQ EXCEPT ![ClockSem] = <<>>])
    <3>1. ClockSem \in SemAdds
      BY SemAddsFacts
    <3>2. Placed(pcbFree, currentProcess, readyQueue, pcb_semAdd, s_procQ)
      BY <1>0
    <3> QED BY <3>1, <3>2, WakeAllPlaced
  <2> HIDE DEF woken
  <2>3. pcb_semAdd' = [p \in Pcb |-> IF p \in Range(s_procQ[ClockSem]) THEN NULL
                                     ELSE pcb_semAdd[p]]
    BY <1>1, <2>1
  <2>4. s_procQ' = [s_procQ EXCEPT ![ClockSem] = <<>>]
    BY <1>1, <1>3
  <2> QED BY <2>1, <2>2, <2>3, <2>4
<1> QED BY <1>1, <1>2, <1>3

(***************************************************************************)
(* With no semaphore behind sem[], headBlocked finds nothing once the      *)
(* clock's queue is empty.                                                 *)
(***************************************************************************)
LEMMA NothingBehindClock ==
  ASSUME \A a \in UserSems : a < ClockSem, NEW queues, queues[ClockSem] = <<>>
  PROVE  headBlocked(queues, ClockSem) = NULL
<1>1. \A b \in SemAdds : b >= ClockSem => b = ClockSem
  BY SemAssumption, DevPerIntAssumption DEF SemAdds, ClockSem, TOTALSEM
<1> QED BY <1>1 DEF headBlocked

LEMMA ClockEmptied ==
  ASSUME \A a \in UserSems : a < ClockSem, Inv
  PROVE  headBlocked(IF takenByTick = <<>> THEN s_procQ
                     ELSE [s_procQ EXCEPT ![ClockSem] = <<>>], ClockSem) = NULL
<1> DEFINE queues == IF takenByTick = <<>> THEN s_procQ
                     ELSE [s_procQ EXCEPT ![ClockSem] = <<>>]
<1>1. s_procQ \in [SemAdds -> Seq(Pcb)] /\ ClockSem \in SemAdds
  BY InvFacts, SemAddsFacts DEF Placed
<1>2. CASE takenByTick = <<>>
  <2>1. CASE headBlocked(s_procQ, ClockSem) = NULL
    BY <1>2, <2>1
  <2>2. CASE headBlocked(s_procQ, ClockSem) # NULL
    <3>1. queues[ClockSem] = <<>>
      BY <1>2, <2>2 DEF takenByTick
    <3> HIDE DEF queues
    <3>2. headBlocked(queues, ClockSem) = NULL
      BY <3>1, NothingBehindClock
    <3> QED BY <3>2 DEF queues
  <2> QED BY <2>1, <2>2
<1>3. CASE takenByTick # <<>>
  <2>1. queues[ClockSem] = <<>>
    BY <1>1, <1>3
  <2> HIDE DEF queues
  <2>2. headBlocked(queues, ClockSem) = NULL
    BY <2>1, NothingBehindClock
  <2> QED BY <2>2 DEF queues
<1> QED BY <1>2, <1>3

LEMMA IntervalTimerInv == ASSUME Inv, IntervalTimer PROVE Inv'
<1> DEFINE woken == IF headBlocked(s_procQ, ClockSem) = NULL THEN <<>>
                    ELSE s_procQ[ClockSem]
           count == softBlockCount - Len(woken)
           ready == readyQueue \o woken
<1>1. Placed(pcbFree, currentProcess, readyQueue, pcb_semAdd, s_procQ) /\ OtherTypes
  BY InvFacts
<1>2. Placed(pcbFree, currentProcess, ready, pcb_semAdd', s_procQ')
  BY TickPlaced DEF takenByTick
<1>3. count \in Int
  <2>1. woken \in Seq(Pcb)
    BY <1>1, SemAddsFacts DEF Placed
  <2> HIDE DEF woken
  <2> QED BY <2>1, <1>1, LenProperties DEF OtherTypes
<1>4. UNCHANGED <<pcbs, hardware>>
  BY DEF IntervalTimer
<1>5. CASE finish(ready, count) /\ sem' = [sem EXCEPT ![ClockSem] = 0]
  <2> HIDE DEF ready, count
  <2>1. /\ Placed(pcbFree, currentProcess', readyQueue', pcb_semAdd', s_procQ')
        /\ processCount' = processCount /\ softBlockCount' = count
        /\ mode' \in Modes /\ (mode' = "run" => currentProcess' # NULL)
        /\ (expired \in BOOLEAN => expired' \in BOOLEAN)
    BY <1>1, <1>2, <1>3, <1>5, FinishPlaced
  <2>2. sem' \in [SemAdds -> Int] /\ sem'[ClockSem] <= 0
    BY <1>1, <1>5, SemAddsFacts DEF OtherTypes
  <2>3. OtherTypes'
    BY <1>1, <1>3, <1>4, <2>1, <2>2 DEF OtherTypes, pcbs, hardware
  <2> QED BY <1>4, <2>1, <2>3, InvNext DEF pcbs
<1>6. CASE /\ mode' = "hang" /\ readyQueue' = ready /\ softBlockCount' = count
           /\ UNCHANGED <<sem, currentProcess, expired, processCount>>
  <2> HIDE DEF ready, count
  <2>1. OtherTypes'
    BY <1>1, <1>3, <1>4, <1>6 DEF OtherTypes, pcbs, hardware, Modes
  <2> QED BY <1>2, <1>4, <1>6, <2>1, InvNext DEF pcbs
<1> QED BY <1>5, <1>6 DEF IntervalTimer

LEMMA DeviceInterruptInv == ASSUME Inv, DeviceInterrupt PROVE Inv'
<1> DEFINE a == semIndex(servedDevice)
           first == Head(s_procQ[a])
<1>1. Placed(pcbFree, currentProcess, readyQueue, pcb_semAdd, s_procQ) /\ OtherTypes
  BY InvFacts
<1>2. a \in DeviceSems /\ a \in SemAdds /\ a # ClockSem
  BY <1>1, ServedSemIndex, SemAddsFacts DEF DeviceInterrupt, OtherTypes
<1>3. /\ sem' = [sem EXCEPT ![a] = @ + 1]
      /\ devStatus' \in [Devices -> {"READY", "BUSY", "DONE"}]
      /\ UNCHANGED <<pcbs, io>>
  BY <1>1 DEF DeviceInterrupt, OtherTypes
<1> HIDE DEF a
<1>4. sem' \in [SemAdds -> Int] /\ sem'[ClockSem] <= 0
  BY <1>1, <1>2, <1>3, SemAddsFacts DEF OtherTypes
<1>5. CASE /\ wakesOne(a) /\ removeBlocked(a)
           /\ finish(insertProcQ(readyQueue, first), softBlockCount - 1)
  <2>1. s_procQ[a] # <<>>
    BY <1>5 DEF wakesOne, ASL
  <2>2. /\ s_procQ' = [s_procQ EXCEPT ![a] = Tail(@)]
        /\ pcb_semAdd' = [pcb_semAdd EXCEPT ![first] = NULL]
    BY <1>5 DEF removeBlocked, wakesOne
  <2>3. Placed(pcbFree, currentProcess, insertProcQ(readyQueue, first),
               pcb_semAdd', s_procQ')
    BY <1>1, <1>2, <2>1, <2>2, WakePlaced
  <2>4. softBlockCount - 1 \in Int
    BY <1>1 DEF OtherTypes
  <2>5. /\ Placed(pcbFree, currentProcess', readyQueue', pcb_semAdd', s_procQ')
        /\ processCount' = processCount /\ softBlockCount' = softBlockCount - 1
        /\ mode' \in Modes /\ (mode' = "run" => currentProcess' # NULL)
        /\ (expired \in BOOLEAN => expired' \in BOOLEAN)
    BY <1>1, <1>5, <2>3, <2>4, FinishPlaced
  <2>6. OtherTypes'
    BY <1>1, <1>3, <1>4, <2>4, <2>5 DEF OtherTypes, pcbs
  <2> QED BY <1>3, <2>5, <2>6, InvNext DEF pcbs
<1>6. CASE UNCHANGED <<s_procQ, pcb_semAdd>> /\ finish(readyQueue, softBlockCount)
  <2>1. /\ Placed(pcbFree, currentProcess', readyQueue', pcb_semAdd, s_procQ)
        /\ processCount' = processCount /\ softBlockCount' = softBlockCount
        /\ mode' \in Modes /\ (mode' = "run" => currentProcess' # NULL)
        /\ (expired \in BOOLEAN => expired' \in BOOLEAN)
    BY <1>1, <1>6, FinishPlaced DEF OtherTypes
  <2>2. OtherTypes'
    BY <1>1, <1>3, <1>4, <2>1 DEF OtherTypes, pcbs
  <2> QED BY <1>3, <1>6, <2>1, <2>2, InvNext DEF pcbs
<1> QED BY <1>5, <1>6 DEF DeviceInterrupt, a

-----------------------------------------------------------------------------
(* The system calls *)

LEMMA InsertBlockedPlaced ==
  ASSUME NEW a \in SemAdds, currentProcess \in Pcb,
         Placed(pcbFree, currentProcess, readyQueue, pcb_semAdd, s_procQ),
         insertBlocked(a, currentProcess)
  PROVE  Placed(pcbFree, NULL, readyQueue, pcb_semAdd', s_procQ')
<1>1. Cardinality(ASL) < MAXPROC
  BY DescriptorFree DEF ASL
<1>2. /\ s_procQ' = [s_procQ EXCEPT ![a] = insertProcQ(@, currentProcess)]
      /\ pcb_semAdd' = [pcb_semAdd EXCEPT ![currentProcess] = a]
  BY <1>1 DEF insertBlocked
<1> QED BY <1>2, BlockPlaced

LEMMA sysCreateInv == ASSUME Inv, sysCreate PROVE Inv'
<1>1. Placed(pcbFree, currentProcess, readyQueue, pcb_semAdd, s_procQ) /\ OtherTypes
  BY InvFacts
<1>2. CASE UNCHANGED vars
  BY <1>1, <1>2, InvNext
     DEF vars, counts, pcbs, blocking, hardware, OtherTypes
<1>3. ASSUME NEW p \in pcbFree,
             allocPcb(p),
             processCount' = processCount + 1,
             pcb_parent' = [pcb_parent EXCEPT ![p] = currentProcess],
             readyQueue' = insertProcQ(readyQueue, p),
             UNCHANGED <<mode, currentProcess, expired, softBlockCount, sem, s_procQ,
                         hardware>>
      PROVE  Inv'
  <2>1. Placed(pcbFree', currentProcess', readyQueue', pcb_semAdd', s_procQ')
    BY <1>1, <1>3, CreatePlaced DEF allocPcb
  <2>2. OtherTypes'
    BY <1>1, <1>3 DEF OtherTypes, allocPcb, hardware, Placed
  <2> QED BY <2>1, <2>2, InvNext
<1> QED BY <1>2, <1>3 DEF sysCreate

LEMMA FamilyFacts ==
  ASSUME NEW p \in Pcb
  PROVE  Family(p) \in SUBSET Pcb /\ p \in Family(p)
BY DEF Family

LEMMA sysSendToNorthKoreaInv ==
  ASSUME Inv, currentProcess \in Pcb, sysSendToNorthKorea
  PROVE  Inv'
<1> DEFINE dead == Family(currentProcess)
           n == processCount - Cardinality(dead)
           soft == {p \in dead : countedAsSoft(pcb_semAdd[p])}
           s == softBlockCount - Cardinality(soft)
           ready == outProcQ(readyQueue, dead)
<1>1. Placed(pcbFree, currentProcess, readyQueue, pcb_semAdd, s_procQ) /\ OtherTypes
  BY InvFacts
<1>2. dead \in SUBSET Pcb /\ currentProcess \in dead
  BY FamilyFacts
<1>3. executeOrderSixtySix(dead) /\ scheduler(ready, n, s)
  BY DEF sysSendToNorthKorea
<1> HIDE DEF dead
<1>4. n \in Int /\ s \in Int
  <2>1. soft \in SUBSET Pcb
    BY <1>2
  <2> HIDE DEF soft
  <2> QED BY <1>1, <1>2, <2>1, CardinalityOfPcbs DEF OtherTypes
<1> HIDE DEF n, s
<1>5. Placed(pcbFree', NULL, ready, pcb_semAdd', s_procQ')
  BY <1>1, <1>2, <1>3, KillPlaced DEF executeOrderSixtySix
<1> HIDE DEF ready
<1>6. /\ Placed(pcbFree', currentProcess', readyQueue', pcb_semAdd', s_procQ')
      /\ processCount' = n /\ softBlockCount' = s
      /\ mode' \in Modes /\ (mode' = "run" => currentProcess' # NULL)
      /\ (expired \in BOOLEAN => expired' \in BOOLEAN)
  BY <1>3, <1>4, <1>5, SchedulerPlaced
<1>7. sem' \in [SemAdds -> Int] /\ sem'[ClockSem] <= 0
  <2>1. sem' = [a \in SemAdds |->
                  IF countedAsSoft(a) THEN sem[a]
                  ELSE sem[a] + Cardinality({p \in dead : pcb_semAdd[p] = a})]
    BY <1>3 DEF executeOrderSixtySix
  <2>2. \A a \in SemAdds : Cardinality({p \in dead : pcb_semAdd[p] = a}) \in Int
    BY <1>2, CardinalityOfPcbs
  <2>3. countedAsSoft(ClockSem) /\ ClockSem \in SemAdds
    BY SemAddsFacts, Constants DEF countedAsSoft
  <2> QED BY <1>1, <2>1, <2>2, <2>3 DEF OtherTypes
<1>8. OtherTypes'
  BY <1>1, <1>3, <1>4, <1>6, <1>7 DEF OtherTypes, executeOrderSixtySix
<1> QED BY <1>6, <1>8, InvNext

LEMMA sysSignalInv ==
  ASSUME Inv, NEW a \in UserSems, sysSignal(a)
  PROVE  Inv'
<1> DEFINE first == Head(s_procQ[a])
<1>1. Placed(pcbFree, currentProcess, readyQueue, pcb_semAdd, s_procQ) /\ OtherTypes
  BY InvFacts
<1>2. a \in SemAdds /\ a # ClockSem
  BY SemAddsFacts
<1>3. OtherTypes'
  BY <1>1, <1>2, SemAddsFacts DEF OtherTypes, sysSignal, counts, pcbs, hardware
<1>4. UNCHANGED <<pcbFree, currentProcess>>
  BY DEF sysSignal, pcbs
<1>5. CASE /\ wakesOne(a) /\ removeBlocked(a)
           /\ readyQueue' = insertProcQ(readyQueue, first)
  <2>1. s_procQ[a] # <<>>
    BY <1>5 DEF wakesOne, ASL
  <2>2. /\ s_procQ' = [s_procQ EXCEPT ![a] = Tail(@)]
        /\ pcb_semAdd' = [pcb_semAdd EXCEPT ![first] = NULL]
    BY <1>5 DEF removeBlocked, wakesOne
  <2>3. Placed(pcbFree', currentProcess', readyQueue', pcb_semAdd', s_procQ')
    BY <1>1, <1>2, <1>4, <1>5, <2>1, <2>2, WakePlaced
  <2> QED BY <1>3, <2>3, InvNext
<1>6. CASE UNCHANGED <<s_procQ, pcb_semAdd, readyQueue>>
  BY <1>1, <1>3, <1>4, <1>6, InvNext
<1> QED BY <1>5, <1>6 DEF sysSignal

LEMMA sysWaitInv ==
  ASSUME Inv, currentProcess \in Pcb, NEW a \in UserSems, sysWait(a)
  PROVE  Inv'
<1>1. Placed(pcbFree, currentProcess, readyQueue, pcb_semAdd, s_procQ) /\ OtherTypes
  BY InvFacts
<1>2. a \in SemAdds /\ a # ClockSem
  BY SemAddsFacts
<1>3. sem' = [sem EXCEPT ![a] = @ - 1] /\ UNCHANGED <<pcbs, hardware>>
  BY DEF sysWait
<1>4. sem' \in [SemAdds -> Int] /\ sem'[ClockSem] <= 0
  BY <1>1, <1>2, <1>3, SemAddsFacts DEF OtherTypes
<1>5. CASE /\ insertBlocked(a, currentProcess)
           /\ scheduler(readyQueue, processCount, softBlockCount)
  <2>1. Placed(pcbFree, NULL, readyQueue, pcb_semAdd', s_procQ')
    BY <1>1, <1>2, <1>5, InsertBlockedPlaced
  <2>2. processCount \in Int /\ softBlockCount \in Int
    BY <1>1 DEF OtherTypes
  <2>3. /\ Placed(pcbFree, currentProcess', readyQueue', pcb_semAdd', s_procQ')
        /\ processCount' = processCount /\ softBlockCount' = softBlockCount
        /\ mode' \in Modes /\ (mode' = "run" => currentProcess' # NULL)
        /\ (expired \in BOOLEAN => expired' \in BOOLEAN)
    BY <1>5, <2>1, <2>2, SchedulerPlaced
  <2>4. OtherTypes'
    BY <1>1, <1>3, <1>4, <2>2, <2>3 DEF OtherTypes, pcbs, hardware
  <2> QED BY <1>3, <2>3, <2>4, InvNext DEF pcbs
<1>6. CASE resume /\ UNCHANGED <<s_procQ, pcb_semAdd>>
  <2>1. OtherTypes'
    BY <1>1, <1>3, <1>4, <1>6 DEF OtherTypes, pcbs, hardware, resume, counts
  <2> QED BY <1>1, <1>3, <1>6, <2>1, InvNext DEF pcbs, resume
<1> QED BY <1>5, <1>6 DEF sysWait

LEMMA sysWaitForClockInv ==
  ASSUME Inv, currentProcess \in Pcb, sysWaitForClock
  PROVE  Inv'
<1>1. Placed(pcbFree, currentProcess, readyQueue, pcb_semAdd, s_procQ) /\ OtherTypes
  BY InvFacts
<1>2. sem' = [sem EXCEPT ![ClockSem] = @ - 1] /\ UNCHANGED <<pcbs, hardware>>
  BY DEF sysWaitForClock
<1>3. /\ sem[ClockSem] \in Int /\ sem[ClockSem] - 1 < 0
      /\ sem' \in [SemAdds -> Int] /\ sem'[ClockSem] <= 0
  BY <1>1, <1>2, SemAddsFacts DEF OtherTypes
<1>4. /\ insertBlocked(ClockSem, currentProcess)
      /\ scheduler(readyQueue, processCount, softBlockCount + 1)
  BY <1>3 DEF sysWaitForClock
<1>5. Placed(pcbFree, NULL, readyQueue, pcb_semAdd', s_procQ')
  BY <1>1, <1>4, SemAddsFacts, InsertBlockedPlaced
<1>6. processCount \in Int /\ softBlockCount + 1 \in Int
  BY <1>1 DEF OtherTypes
<1>7. /\ Placed(pcbFree, currentProcess', readyQueue', pcb_semAdd', s_procQ')
      /\ processCount' = processCount /\ softBlockCount' = softBlockCount + 1
      /\ mode' \in Modes /\ (mode' = "run" => currentProcess' # NULL)
      /\ (expired \in BOOLEAN => expired' \in BOOLEAN)
  BY <1>4, <1>5, <1>6, SchedulerPlaced
<1>8. OtherTypes'
  BY <1>1, <1>2, <1>3, <1>6, <1>7 DEF OtherTypes, pcbs, hardware
<1> QED BY <1>2, <1>7, <1>8, InvNext DEF pcbs

LEMMA sysGoPowerRangersInv ==
  ASSUME Inv, currentProcess \in Pcb, NEW d \in Devices, sysGoPowerRangers(d)
  PROVE  Inv'
<1> DEFINE a == semIndex(d)
<1>1. Placed(pcbFree, currentProcess, readyQueue, pcb_semAdd, s_procQ) /\ OtherTypes
  BY InvFacts
<1>2. a \in SemAdds /\ a # ClockSem
  BY DeviceSemIndex, SemAddsFacts
<1>3. /\ sem' = [sem EXCEPT ![a] = @ - 1] /\ UNCHANGED <<pcbs, devStatus>>
      /\ io' \in [Pcb -> Devices \cup {NULL}]
  BY <1>1 DEF sysGoPowerRangers, OtherTypes
<1> HIDE DEF a
<1>4. sem' \in [SemAdds -> Int] /\ sem'[ClockSem] <= 0
  BY <1>1, <1>2, <1>3, SemAddsFacts DEF OtherTypes
<1>5. CASE /\ insertBlocked(a, currentProcess)
           /\ scheduler(readyQueue, processCount, softBlockCount + 1)
  <2>1. Placed(pcbFree, NULL, readyQueue, pcb_semAdd', s_procQ')
    BY <1>1, <1>2, <1>5, InsertBlockedPlaced
  <2>2. processCount \in Int /\ softBlockCount + 1 \in Int
    BY <1>1 DEF OtherTypes
  <2>3. /\ Placed(pcbFree, currentProcess', readyQueue', pcb_semAdd', s_procQ')
        /\ processCount' = processCount /\ softBlockCount' = softBlockCount + 1
        /\ mode' \in Modes /\ (mode' = "run" => currentProcess' # NULL)
        /\ (expired \in BOOLEAN => expired' \in BOOLEAN)
    BY <1>5, <2>1, <2>2, SchedulerPlaced
  <2>4. OtherTypes'
    BY <1>1, <1>3, <1>4, <2>2, <2>3 DEF OtherTypes, pcbs
  <2> QED BY <1>3, <2>3, <2>4, InvNext DEF pcbs
<1>6. CASE resume /\ UNCHANGED <<s_procQ, pcb_semAdd>>
  <2>1. OtherTypes'
    BY <1>1, <1>3, <1>4, <1>6 DEF OtherTypes, pcbs, resume, counts
  <2> QED BY <1>1, <1>3, <1>6, <2>1, InvNext DEF pcbs, resume
<1> QED BY <1>5, <1>6 DEF sysGoPowerRangers, a

LEMMA sysBYOLInv ==
  ASSUME Inv, currentProcess \in Pcb, NEW type \in Handled, sysBYOL(type)
  PROVE  Inv'
<1>1. Placed(pcbFree, currentProcess, readyQueue, pcb_semAdd, s_procQ) /\ OtherTypes
  BY InvFacts
<1>2. CASE sysSendToNorthKorea
  BY <1>2, sysSendToNorthKoreaInv
<1>3. CASE /\ pcb_states' = [pcb_states EXCEPT ![currentProcess] = @ \cup {type}]
           /\ resume /\ UNCHANGED <<pcbFree, pcb_parent, blocking, hardware>>
  <2>1. OtherTypes'
    BY <1>1, <1>3, TrapAssumption
       DEF OtherTypes, resume, counts, blocking, hardware
  <2> QED BY <1>1, <1>3, <2>1, InvNext DEF resume, blocking
<1> QED BY <1>2, <1>3 DEF sysBYOL

LEMMA pullUpAndDieInv ==
  ASSUME Inv, NEW type \in Raised, pullUpAndDie(type)
  PROVE  Inv'
<1>1. Placed(pcbFree, currentProcess, readyQueue, pcb_semAdd, s_procQ) /\ OtherTypes
  BY InvFacts
<1>2. /\ mode' \in {mode, "hang"}
      /\ UNCHANGED <<currentProcess, readyQueue, expired, counts, pcbs, blocking,
                     hardware>>
  BY DEF pullUpAndDie, vars
<1>3. OtherTypes'
  BY <1>1, <1>2 DEF OtherTypes, Modes, counts, pcbs, blocking, hardware
<1> QED BY <1>1, <1>2, <1>3, InvNext DEF pcbs, blocking

LEMMA DeviceStepInv ==
  ASSUME Inv, NEW d \in Devices, currentProcess \in Pcb \/ DeviceDone(d),
         StartIO(d) \/ DeviceDone(d)
  PROVE  Inv'
<1>1. Placed(pcbFree, currentProcess, readyQueue, pcb_semAdd, s_procQ) /\ OtherTypes
  BY InvFacts
<1>2. resume /\ UNCHANGED <<pcbs, blocking>>
  BY DEF StartIO, DeviceDone
<1>3. devStatus' \in [Devices -> {"READY", "BUSY", "DONE"}]
      /\ io' \in [Pcb -> Devices \cup {NULL}]
  BY <1>1 DEF StartIO, DeviceDone, OtherTypes
<1>4. OtherTypes'
  BY <1>1, <1>2, <1>3 DEF OtherTypes, resume, counts, pcbs, blocking
<1> QED BY <1>1, <1>2, <1>4, InvNext DEF resume, pcbs, blocking

LEMMA StepInv == Inv /\ [Next]_vars => Inv'
<1> SUFFICES ASSUME Inv, [Next]_vars PROVE Inv'
  OBVIOUS
<1>1. executing => currentProcess \in Pcb
  BY DEF executing, Inv, TypeOK
<1>2. CASE sysCallHandler
  BY <1>1, <1>2, sysCreateInv, sysSendToNorthKoreaInv, sysSignalInv, sysWaitInv,
     sysBYOLInv, sysWaitForClockInv DEF sysCallHandler
<1>3. CASE waitForIO
  BY <1>1, <1>3, sysGoPowerRangersInv DEF waitForIO
<1>4. CASE Trap
  BY <1>4, pullUpAndDieInv DEF Trap
<1>5. CASE QuantumExpired
  BY <1>5, QuantumExpiredInv
<1>10. CASE QuantumEndsMasked
  BY <1>10, QuantumEndsMaskedInv
<1>6. CASE IntervalTimer
  BY <1>6, IntervalTimerInv
<1>7. CASE DeviceInterrupt
  BY <1>7, DeviceInterruptInv
<1>8. ASSUME NEW d \in Devices, StartIO(d) \/ DeviceDone(d) PROVE Inv'
  BY <1>1, <1>8, DeviceStepInv DEF StartIO
<1>9. CASE UNCHANGED vars
  <2>1. Placed(pcbFree, currentProcess, readyQueue, pcb_semAdd, s_procQ) /\ OtherTypes
    BY InvFacts
  <2> QED BY <1>9, <2>1, InvNext
          DEF vars, counts, pcbs, blocking, hardware, OtherTypes
<1> QED BY <1>2, <1>3, <1>4, <1>5, <1>6, <1>7, <1>8, <1>9, <1>10 DEF Next, Stopped

-----------------------------------------------------------------------------
(***************************************************************************)
(* The theorems.  The inductive invariant holds in every reachable state.  *)
(***************************************************************************)
THEOREM Invariance == Spec => []Inv
BY InitInv, StepInv, PTL DEF Spec

(***************************************************************************)
(* The state always has the types the code's declarations give it.         *)
(***************************************************************************)
THEOREM TypeCorrect == Spec => []TypeOK
<1>1. Inv => TypeOK
  BY DEF Inv
<1> QED BY <1>1, Invariance, PTL

(***************************************************************************)
(* No handler ever loses a process block or puts it in two places, for any *)
(* number of processes, semaphores and devices.                            *)
(***************************************************************************)
THEOREM PartitionCorrect == Spec => []ProcessPartition
<1>1. Inv => ProcessPartition
  BY DEF Inv
<1> QED BY <1>1, Invariance, PTL

(***************************************************************************)
(* MAXPROC descriptors are enough: insertBlocked, whose failure no caller  *)
(* handles, never fails.                                                   *)
(***************************************************************************)
THEOREM DescriptorsSuffice == Spec => []SemdAvailable
<1>1. ASSUME Inv PROVE SemdAvailable
  <2>1. SUFFICES ASSUME mode = "run" PROVE Cardinality(ASL) < MAXPROC
    BY DEF SemdAvailable
  <2>2. Placed(pcbFree, currentProcess, readyQueue, pcb_semAdd, s_procQ)
    BY <1>1, InvFacts
  <2>3. currentProcess \in Pcb
    BY <1>1, <2>1 DEF Inv, TypeOK
  <2> QED BY <2>2, <2>3, DescriptorFree DEF ASL
<1> QED BY <1>1, Invariance, PTL

-----------------------------------------------------------------------------
(***************************************************************************)
(* What the nucleus counts: the processes alive, the soft blocked ones,    *)
(* and the values of the user semaphores.                                  *)
(***************************************************************************)

(***************************************************************************)
(* Families.  The family of a live process is alive and is closed under    *)
(* children: killing it leaves no child behind.                            *)
(***************************************************************************)
LEMMA FamilyLeast ==
  ASSUME NEW p \in Pcb, NEW S \in SUBSET Pcb, p \in S,
         \A c \in Pcb : pcb_parent[c] \in S => c \in S
  PROVE  Family(p) \subseteq S
BY DEF Family

LEMMA FamilyClosed ==
  ASSUME NEW p \in Pcb, NEW c \in Pcb, pcb_parent[c] \in Family(p)
  PROVE  c \in Family(p)
BY DEF Family

LEMMA FamilyAlive ==
  ASSUME TypeOK, NoOrphans, NEW p \in Live
  PROVE  Family(p) \subseteq Live
<1>1. \A c \in Pcb : pcb_parent[c] \in Live => c \in Live
  BY Constants DEF NoOrphans, Live
<1> QED BY <1>1, FamilyLeast DEF Live

(***************************************************************************)
(* Who is alive, the tree and processCount change in SYS1 and in SYS2 (and *)
(* the SYS5 that kills), and in no other step.                             *)
(***************************************************************************)
Genealogy == NoOrphans /\ ProcessCountExact

LEMMA InitGenealogy == Init => Genealogy
<1> SUFFICES ASSUME Init PROVE Genealogy
  OBVIOUS
<1>1. Live = {currentProcess}
  BY DEF Init, Live
<1>2. Cardinality(Live) = 1
  BY <1>1, FS_Singleton
<1> QED BY <1>2 DEF Init, Genealogy, NoOrphans, ProcessCountExact

LEMMA CreateGenealogy ==
  ASSUME Inv, Genealogy, currentProcess \in Pcb, sysCreate
  PROVE  Genealogy'
<1>1. CASE UNCHANGED vars
  BY <1>1 DEF vars, pcbs, counts, Genealogy, NoOrphans, ProcessCountExact, Live
<1>2. ASSUME NEW p \in pcbFree,
             allocPcb(p),
             processCount' = processCount + 1,
             pcb_parent' = [pcb_parent EXCEPT ![p] = currentProcess]
      PROVE  Genealogy'
  <2>1. /\ pcbFree \in SUBSET Pcb /\ pcb_parent \in [Pcb -> Pcb \cup {NULL}]
        /\ currentProcess \notin pcbFree /\ p \in Pcb
    BY DEF Inv, TypeOK, ProcessPartition
  <2>2. pcbFree' = pcbFree \ {p}
    BY <1>2 DEF allocPcb
  <2>3. Live' = Live \cup {p} /\ p \notin Live /\ Live \in SUBSET Pcb
    BY <2>1, <2>2 DEF Live
  <2>4. NoOrphans'
    BY <1>2, <2>1, <2>2, <2>3 DEF Genealogy, NoOrphans, Live
  <2>5. Cardinality(Live') = Cardinality(Live) + 1
    BY <2>3, CardinalityOfPcbs, FS_AddElement
  <2> QED BY <1>2, <2>4, <2>5 DEF Genealogy, ProcessCountExact
<1> QED BY <1>1, <1>2 DEF sysCreate

LEMMA KillGenealogy ==
  ASSUME Inv, Genealogy, currentProcess \in Pcb, sysSendToNorthKorea
  PROVE  Genealogy'
<1> DEFINE dead == Family(currentProcess)
<1>1. /\ TypeOK /\ currentProcess \in Live
      /\ pcbFree \in SUBSET Pcb /\ pcb_parent \in [Pcb -> Pcb \cup {NULL}]
  BY DEF Inv, TypeOK, ProcessPartition, Live
<1>2. dead \subseteq Live /\ Live \in SUBSET Pcb
  BY <1>1, FamilyAlive DEF Genealogy, Live
<1>3. \A c \in Pcb : pcb_parent[c] \in dead => c \in dead
  BY FamilyClosed
<1>4. /\ pcbFree' = pcbFree \cup dead
      /\ pcb_parent' = [p \in Pcb |-> IF p \in dead THEN NULL ELSE pcb_parent[p]]
      /\ processCount' = processCount - Cardinality(dead)
  BY DEF sysSendToNorthKorea, executeOrderSixtySix, scheduler
<1> HIDE DEF dead
<1>5. Live' = Live \ dead
  BY <1>4 DEF Live
<1>6. NoOrphans'
  BY <1>1, <1>2, <1>3, <1>4, <1>5 DEF Genealogy, NoOrphans
<1>7. Cardinality(Live') = Cardinality(Live) - Cardinality(dead)
  <2>1. Live \cap dead = dead
    BY <1>2
  <2> QED BY <1>2, <1>5, <2>1, CardinalityOfPcbs, FS_Difference, ZenonT(60)
<1> QED BY <1>4, <1>6, <1>7 DEF Genealogy, ProcessCountExact

LEMMA FinishKeepsProcesses ==
  ASSUME NEW ready, NEW s, finish(ready, s)
  PROVE  processCount' = processCount /\ softBlockCount' = s
BY DEF finish, scheduler

LEMMA StepGenealogy == Inv /\ Genealogy /\ [Next]_vars => Genealogy'
<1> SUFFICES ASSUME Inv, Genealogy, [Next]_vars PROVE Genealogy'
  OBVIOUS
<1>1. ASSUME UNCHANGED <<pcbFree, pcb_parent, processCount>> PROVE Genealogy'
  BY <1>1 DEF Genealogy, NoOrphans, ProcessCountExact, Live
<1>2. executing => currentProcess \in Pcb
  BY DEF executing, Inv, TypeOK
<1>3. CASE sysCallHandler
  <2>1. currentProcess \in Pcb
    BY <1>2, <1>3 DEF sysCallHandler
  <2>2. CASE sysCreate
    BY <2>1, <2>2, CreateGenealogy
  <2>3. CASE sysSendToNorthKorea
    BY <2>1, <2>3, KillGenealogy
  <2>4. ASSUME NEW a \in UserSems, sysSignal(a) PROVE Genealogy'
    BY <1>1, <2>4 DEF sysSignal, counts, pcbs
  <2>5. ASSUME NEW a \in UserSems, sysWait(a) PROVE Genealogy'
    BY <1>1, <2>5 DEF sysWait, counts, pcbs, scheduler, resume
  <2>6. ASSUME NEW type \in Handled, sysBYOL(type) PROVE Genealogy'
    BY <1>1, <2>1, <2>6, KillGenealogy DEF sysBYOL, resume, counts
  <2>7. CASE sysWaitForClock
    BY <1>1, <2>7 DEF sysWaitForClock, scheduler, pcbs
  <2> QED BY <1>3, <2>2, <2>3, <2>4, <2>5, <2>6, <2>7 DEF sysCallHandler
<1>4. CASE waitForIO
  BY <1>1, <1>4 DEF waitForIO, sysGoPowerRangers, scheduler, resume, counts, pcbs
<1>5. CASE Trap
  BY <1>1, <1>5 DEF Trap, pullUpAndDie, vars, counts, pcbs
<1>6. CASE QuantumExpired
  BY <1>1, <1>6, FinishKeepsProcesses DEF QuantumExpired, pcbs
<1>7. CASE IntervalTimer
  BY <1>1, <1>7, FinishKeepsProcesses DEF IntervalTimer, pcbs
<1>8. CASE DeviceInterrupt
  BY <1>1, <1>8, FinishKeepsProcesses DEF DeviceInterrupt, pcbs
<1>9. ASSUME NEW d \in Devices, StartIO(d) \/ DeviceDone(d) PROVE Genealogy'
  BY <1>1, <1>9 DEF StartIO, DeviceDone, resume, counts, pcbs
<1>10. CASE UNCHANGED vars
  BY <1>1, <1>10 DEF vars, counts, pcbs
<1>11. CASE QuantumEndsMasked
  BY <1>1, <1>11 DEF QuantumEndsMasked, counts, pcbs
<1> QED BY <1>3, <1>4, <1>5, <1>6, <1>7, <1>8, <1>9, <1>10, <1>11 DEF Next, Stopped

LEMMA GenealogyInvariance == Spec => []Genealogy
BY InitGenealogy, StepGenealogy, Invariance, PTL DEF Spec

(***************************************************************************)
(* processCount is the number of processes alive, whatever was created and *)
(* killed: scheduler() halts when the last process is gone, not before.    *)
(***************************************************************************)
THEOREM ProcessCountCorrect == Spec => []ProcessCountExact
<1>1. Genealogy => ProcessCountExact
  BY DEF Genealogy
<1> QED BY <1>1, GenealogyInvariance, PTL

(***************************************************************************)
(* No process outlives its parent: executeOrderSixtySix reaches the whole  *)
(* progeny of the process that terminates.                                 *)
(***************************************************************************)
THEOREM NobodyOrphaned == Spec => []NoOrphans
<1>1. Genealogy => NoOrphans
  BY DEF Genealogy
<1> QED BY <1>1, GenealogyInvariance, PTL

-----------------------------------------------------------------------------
(***************************************************************************)
(* softBlockCount.  The words of sem[] are told from user semaphores when  *)
(* a blocked process is killed only if no user semaphore lies right behind *)
(* the array: the comparison there goes one too far.                       *)
(***************************************************************************)
LEMMA CountedExactly ==
  ASSUME TOTALSEM \notin UserSems, NEW a \in SemAdds \cup {NULL}
  PROVE  countedAsSoft(a) <=> a \in DeviceOrClockSems
<1>1. TOTALSEM \in Nat /\ TOTALSEM > 0
  BY DevPerIntAssumption DEF TOTALSEM
<1>2. a # NULL => a \in 0 .. TOTALSEM - 1 \/ (a \in UserSems /\ a # TOTALSEM)
  BY DEF SemAdds
<1>3. a \in UserSems => a \in Int /\ a \notin 0 .. TOTALSEM - 1
  BY SemAssumption DEF DeviceOrClockSems
<1>4. NULL \notin DeviceOrClockSems
  BY SemAssumption DEF SemAdds, DeviceOrClockSems
<1> QED BY <1>1, <1>2, <1>3, <1>4 DEF countedAsSoft, DeviceOrClockSems

LEMMA SoftAddresses ==
  /\ ClockSem \in DeviceOrClockSems /\ NULL \notin DeviceOrClockSems
  /\ DeviceSems \subseteq DeviceOrClockSems
  /\ \A a \in UserSems : a \notin DeviceOrClockSems
BY DevPerIntAssumption, SemAssumption
   DEF SemAdds, DeviceOrClockSems, DeviceSems, ClockSem, TOTALSEM

(***************************************************************************)
(* The four ways a step changes who is soft blocked.                       *)
(***************************************************************************)
LEMMA SoftBlocks ==
  ASSUME Inv, SoftBlockExact, currentProcess \in Pcb, NEW a \in SemAdds,
         pcb_semAdd' = [pcb_semAdd EXCEPT ![currentProcess] = a],
         softBlockCount' = IF a \in DeviceOrClockSems THEN softBlockCount + 1
                           ELSE softBlockCount
  PROVE  SoftBlockExact'
<1>1. pcb_semAdd \in [Pcb -> SemAdds \cup {NULL}] /\ pcb_semAdd[currentProcess] = NULL
  BY DEF Inv, TypeOK, ProcessPartition
<1>2. /\ currentProcess \notin softBlocked /\ softBlocked \in SUBSET Pcb
      /\ softBlocked' = IF a \in DeviceOrClockSems THEN softBlocked \cup {currentProcess}
                        ELSE softBlocked
  BY <1>1, SoftAddresses DEF softBlocked
<1>3. a \in DeviceOrClockSems => Cardinality(softBlocked') = Cardinality(softBlocked) + 1
  BY <1>2, CardinalityOfPcbs, FS_AddElement
<1> QED BY <1>2, <1>3 DEF SoftBlockExact

LEMMA SoftWakes ==
  ASSUME Inv, SoftBlockExact, NEW a \in SemAdds, s_procQ[a] # <<>>,
         pcb_semAdd' = [pcb_semAdd EXCEPT ![Head(s_procQ[a])] = NULL],
         softBlockCount' = IF a \in DeviceOrClockSems THEN softBlockCount - 1
                           ELSE softBlockCount
  PROVE  SoftBlockExact'
<1> DEFINE first == Head(s_procQ[a])
<1>1. /\ pcb_semAdd \in [Pcb -> SemAdds \cup {NULL}]
      /\ s_procQ[a] \in Seq(Pcb) /\ Range(s_procQ[a]) = blockedOn(a)
  BY DEF Inv, TypeOK, ProcessPartition
<1>2. first \in Pcb /\ pcb_semAdd[first] = a
  BY <1>1, RemoveProperties DEF blockedOn
<1> HIDE DEF first
<1>3. /\ softBlocked \in SUBSET Pcb
      /\ first \in softBlocked <=> a \in DeviceOrClockSems
      /\ softBlocked' = softBlocked \ {first}
  <2>1. pcb_semAdd' = [pcb_semAdd EXCEPT ![first] = NULL]
    BY DEF first
  <2> QED BY <1>1, <1>2, <2>1, SoftAddresses DEF softBlocked
<1>4. Cardinality(softBlocked') = IF a \in DeviceOrClockSems
                                  THEN Cardinality(softBlocked) - 1
                                  ELSE Cardinality(softBlocked)
  BY <1>3, CardinalityOfPcbs, FS_RemoveElement
<1> QED BY <1>4 DEF SoftBlockExact

LEMMA SoftWakesAll ==
  ASSUME Inv, SoftBlockExact, NEW woken \in {<<>>, s_procQ[ClockSem]},
         pcb_semAdd' = [p \in Pcb |-> IF p \in Range(woken) THEN NULL ELSE pcb_semAdd[p]],
         softBlockCount' = softBlockCount - Len(woken)
  PROVE  SoftBlockExact'
<1>1. /\ pcb_semAdd \in [Pcb -> SemAdds \cup {NULL}]
      /\ s_procQ[ClockSem] \in Seq(Pcb) /\ NoRepeats(s_procQ[ClockSem])
      /\ Range(s_procQ[ClockSem]) = blockedOn(ClockSem)
  BY SemAddsFacts DEF Inv, TypeOK, ProcessPartition
<1>2. <<>> \in Seq(Pcb) /\ NoRepeats(<<>>) /\ Range(<<>>) = {}
  BY DEF NoRepeats, Range
<1>3. woken \in Seq(Pcb) /\ NoRepeats(woken) /\ Range(woken) \in {{}, blockedOn(ClockSem)}
  BY <1>1, <1>2
<1>4. Cardinality(Range(woken)) = Len(woken)
  BY <1>3, LengthIsCardinality
<1>5. /\ softBlocked \in SUBSET Pcb /\ Range(woken) \subseteq softBlocked
      /\ softBlocked' = softBlocked \ Range(woken)
  BY <1>1, <1>3, SoftAddresses DEF softBlocked, blockedOn
<1>6. softBlocked \cap Range(woken) = Range(woken)
  BY <1>5
<1>7. IsFiniteSet(softBlocked)
  BY <1>5, CardinalityOfPcbs
<1>8. Cardinality(softBlocked \ Range(woken)) =
        Cardinality(softBlocked) - Cardinality(softBlocked \cap Range(woken))
  BY <1>7, FS_Difference
<1>9. Cardinality(softBlocked') = Cardinality(softBlocked) - Len(woken)
  BY <1>4, <1>5, <1>6, <1>8
<1> QED BY <1>9 DEF SoftBlockExact

LEMMA SoftKills ==
  ASSUME TOTALSEM \notin UserSems, Inv, SoftBlockExact, currentProcess \in Pcb,
         sysSendToNorthKorea
  PROVE  SoftBlockExact'
<1> DEFINE dead == Family(currentProcess)
           soft == {p \in dead : countedAsSoft(pcb_semAdd[p])}
<1>1. /\ pcb_semAdd' = [p \in Pcb |-> IF p \in dead THEN NULL ELSE pcb_semAdd[p]]
      /\ softBlockCount' = softBlockCount - Cardinality(soft)
  BY DEF sysSendToNorthKorea, executeOrderSixtySix, scheduler
<1>2. dead \in SUBSET Pcb /\ pcb_semAdd \in [Pcb -> SemAdds \cup {NULL}]
  BY FamilyFacts DEF Inv, TypeOK
<1> HIDE DEF dead
<1>3. soft = {p \in dead : pcb_semAdd[p] \in DeviceOrClockSems}
  <2>1. \A p \in dead : countedAsSoft(pcb_semAdd[p]) <=> pcb_semAdd[p] \in DeviceOrClockSems
    BY <1>2, CountedExactly
  <2> QED BY <2>1
<1> HIDE DEF soft
<1>4. /\ softBlocked \in SUBSET Pcb /\ softBlocked \cap soft = soft
      /\ softBlocked' = softBlocked \ soft
  BY <1>1, <1>2, <1>3, SoftAddresses DEF softBlocked
<1>5. Cardinality(softBlocked') = Cardinality(softBlocked) - Cardinality(soft)
  BY <1>4, CardinalityOfPcbs, FS_Difference, ZenonT(60)
<1> QED BY <1>1, <1>5 DEF SoftBlockExact

LEMMA DescriptorLeft ==
  ASSUME Inv, currentProcess \in Pcb, NEW a \in SemAdds, insertBlocked(a, currentProcess)
  PROVE  /\ s_procQ' = [s_procQ EXCEPT ![a] = insertProcQ(@, currentProcess)]
         /\ pcb_semAdd' = [pcb_semAdd EXCEPT ![currentProcess] = a]
<1>1. Placed(pcbFree, currentProcess, readyQueue, pcb_semAdd, s_procQ)
  BY InvFacts
<1>2. Cardinality(ASL) < MAXPROC
  BY <1>1, DescriptorFree DEF ASL
<1> QED BY <1>2 DEF insertBlocked

LEMMA SoftUnchanged ==
  ASSUME SoftBlockExact, UNCHANGED <<softBlockCount, pcb_semAdd>>
  PROVE  SoftBlockExact'
BY DEF SoftBlockExact, softBlocked

LEMMA InitSoft == Init => SoftBlockExact
<1> SUFFICES ASSUME Init PROVE SoftBlockExact
  OBVIOUS
<1>1. softBlocked = {}
  BY SoftAddresses DEF Init, softBlocked
<1> QED BY <1>1, FS_EmptySet DEF Init, SoftBlockExact

LEMMA CallSoft ==
  ASSUME TOTALSEM \notin UserSems, Inv, SoftBlockExact, sysCallHandler
  PROVE  SoftBlockExact'
<1>1. currentProcess \in Pcb /\ pcb_semAdd \in [Pcb -> SemAdds \cup {NULL}]
  BY DEF sysCallHandler, executing, Inv, TypeOK
<1>2. CASE sysCreate
  <2>1. ASSUME NEW p \in pcbFree, allocPcb(p),
               UNCHANGED <<mode, currentProcess, expired, softBlockCount, sem, s_procQ,
                           hardware>>
        PROVE  SoftBlockExact'
    <3>1. p \in Pcb /\ pcb_semAdd[p] = NULL
      BY DEF Inv, TypeOK, ProcessPartition
    <3>2. pcb_semAdd' = pcb_semAdd
      BY <1>1, <2>1, <3>1 DEF allocPcb
    <3> QED BY <2>1, <3>2, SoftUnchanged
  <2> QED BY <1>2, <2>1, SoftUnchanged DEF sysCreate, vars, counts, blocking
<1>3. CASE sysSendToNorthKorea
  BY <1>1, <1>3, SoftKills
<1>4. ASSUME NEW a \in UserSems, sysSignal(a) PROVE SoftBlockExact'
  <2>1. a \in SemAdds /\ a \notin DeviceOrClockSems /\ softBlockCount' = softBlockCount
    BY <1>4, SemAddsFacts, SoftAddresses DEF sysSignal, counts
  <2>2. CASE wakesOne(a) /\ removeBlocked(a)
    BY <2>1, <2>2, SoftWakes DEF wakesOne, ASL, removeBlocked
  <2> QED BY <1>4, <2>1, <2>2, SoftUnchanged DEF sysSignal
<1>5. ASSUME NEW a \in UserSems, sysWait(a) PROVE SoftBlockExact'
  <2>1. a \in SemAdds /\ a \notin DeviceOrClockSems
    BY SemAddsFacts, SoftAddresses
  <2>2. CASE /\ insertBlocked(a, currentProcess)
             /\ scheduler(readyQueue, processCount, softBlockCount)
    BY <1>1, <2>1, <2>2, DescriptorLeft, SoftBlocks DEF scheduler
  <2> QED BY <1>5, <2>2, SoftUnchanged DEF sysWait, resume, counts
<1>6. ASSUME NEW type \in Handled, sysBYOL(type) PROVE SoftBlockExact'
  BY <1>1, <1>6, SoftKills, SoftUnchanged DEF sysBYOL, resume, counts, blocking
<1>7. CASE sysWaitForClock
  <2>1. /\ insertBlocked(ClockSem, currentProcess)
        /\ scheduler(readyQueue, processCount, softBlockCount + 1)
    <3>1. sem[ClockSem] \in Int /\ sem[ClockSem] <= 0
      BY SemAddsFacts DEF Inv, TypeOK
    <3> QED BY <1>7, <3>1 DEF sysWaitForClock
  <2> QED BY <1>1, <2>1, SemAddsFacts, SoftAddresses, DescriptorLeft, SoftBlocks
          DEF scheduler
<1> QED BY <1>2, <1>3, <1>4, <1>5, <1>6, <1>7 DEF sysCallHandler

LEMMA WaitForIOSoft ==
  ASSUME Inv, SoftBlockExact, waitForIO
  PROVE  SoftBlockExact'
<1>1. PICK d \in Devices : sysGoPowerRangers(d)
  BY DEF waitForIO
<1>2. currentProcess \in Pcb
  BY DEF waitForIO, executing, Inv, TypeOK
<1> DEFINE a == semIndex(d)
<1>3. a \in SemAdds /\ a \in DeviceOrClockSems
  BY DeviceSemIndex, SemAddsFacts, SoftAddresses
<1> HIDE DEF a
<1>4. CASE /\ insertBlocked(a, currentProcess)
           /\ scheduler(readyQueue, processCount, softBlockCount + 1)
  BY <1>2, <1>3, <1>4, DescriptorLeft, SoftBlocks DEF scheduler
<1>5. CASE resume /\ UNCHANGED <<s_procQ, pcb_semAdd>>
  BY <1>5, SoftUnchanged DEF resume, counts
<1> QED BY <1>1, <1>4, <1>5 DEF sysGoPowerRangers, a

LEMMA InterruptSoft ==
  ASSUME Inv, SoftBlockExact, QuantumExpired \/ IntervalTimer \/ DeviceInterrupt
  PROVE  SoftBlockExact'
<1>1. CASE QuantumExpired
  BY <1>1, FinishKeepsProcesses, SoftUnchanged DEF QuantumExpired, blocking
<1>2. CASE IntervalTimer
  <2> DEFINE woken == IF headBlocked(s_procQ, ClockSem) = NULL THEN <<>>
                      ELSE s_procQ[ClockSem]
  <2>1. /\ woken \in {<<>>, s_procQ[ClockSem]}
        /\ pcb_semAdd' = [p \in Pcb |-> IF p \in Range(woken) THEN NULL
                                        ELSE pcb_semAdd[p]]
    BY <1>2 DEF IntervalTimer
  <2>2. softBlockCount' = softBlockCount - Len(woken)
    BY <1>2, FinishKeepsProcesses DEF IntervalTimer
  <2> HIDE DEF woken
  <2> QED BY <2>1, <2>2, SoftWakesAll
<1>3. CASE DeviceInterrupt
  <2> DEFINE a == semIndex(servedDevice)
  <2>1. a \in SemAdds /\ a \in DeviceOrClockSems
    BY <1>3, ServedSemIndex, SemAddsFacts, SoftAddresses DEF DeviceInterrupt, Inv, TypeOK
  <2> HIDE DEF a
  <2>2. CASE /\ wakesOne(a) /\ removeBlocked(a)
             /\ finish(insertProcQ(readyQueue, Head(s_procQ[a])), softBlockCount - 1)
    BY <2>1, <2>2, FinishKeepsProcesses, SoftWakes DEF wakesOne, ASL, removeBlocked
  <2>3. CASE UNCHANGED <<s_procQ, pcb_semAdd>> /\ finish(readyQueue, softBlockCount)
    BY <2>3, FinishKeepsProcesses, SoftUnchanged
  <2> QED BY <1>3, <2>2, <2>3 DEF DeviceInterrupt, a
<1> QED BY <1>1, <1>2, <1>3

LEMMA StepSoft ==
  ASSUME TOTALSEM \notin UserSems
  PROVE  Inv /\ SoftBlockExact /\ [Next]_vars => SoftBlockExact'
<1> SUFFICES ASSUME Inv, SoftBlockExact, [Next]_vars PROVE SoftBlockExact'
  OBVIOUS
<1>1. CASE Trap
  BY <1>1, SoftUnchanged DEF Trap, pullUpAndDie, vars, counts, blocking
<1>2. ASSUME NEW d \in Devices, StartIO(d) \/ DeviceDone(d) PROVE SoftBlockExact'
  BY <1>2, SoftUnchanged DEF StartIO, DeviceDone, resume, counts, blocking
<1>3. CASE UNCHANGED vars
  BY <1>3, SoftUnchanged DEF vars, counts, blocking
<1>4. CASE QuantumEndsMasked
  BY <1>4, SoftUnchanged DEF QuantumEndsMasked, counts, blocking
<1> QED BY <1>1, <1>2, <1>3, <1>4, CallSoft, WaitForIOSoft, InterruptSoft DEF Next, Stopped

(***************************************************************************)
(* softBlockCount is the number of processes blocked on the clock and the  *)
(* devices after any sequence of waits, interrupts and kills: scheduler()  *)
(* tells a deadlock from a wait rightly.  It needs that no semaphore lies  *)
(* right behind sem[].                                                     *)
(***************************************************************************)
THEOREM SoftBlockCorrect ==
  ASSUME TOTALSEM \notin UserSems
  PROVE  Spec => []SoftBlockExact
BY InitSoft, StepSoft, Invariance, PTL DEF Spec

-----------------------------------------------------------------------------
(***************************************************************************)
(* The values of the user semaphores.                                      *)
(***************************************************************************)
BalancedBy(value, queue) == Len(queue) = (IF value < 0 THEN -value ELSE 0)

LEMMA BalanceUnchanged ==
  ASSUME UserSemBalance, \A a \in UserSems : sem'[a] = sem[a] /\ s_procQ'[a] = s_procQ[a]
  PROVE  UserSemBalance'
BY DEF UserSemBalance

(***************************************************************************)
(* A step that changes the value and the queue of one user semaphore.      *)
(***************************************************************************)
LEMMA BalanceOne ==
  ASSUME Inv, UserSemBalance, NEW a \in UserSems, NEW value, NEW queue,
         sem' = [sem EXCEPT ![a] = value], s_procQ' = [s_procQ EXCEPT ![a] = queue],
         BalancedBy(value, queue)
  PROVE  UserSemBalance'
<1>1. sem \in [SemAdds -> Int] /\ s_procQ \in [SemAdds -> Seq(Pcb)]
      /\ UserSems \subseteq SemAdds
  BY SemAddsFacts DEF Inv, TypeOK
<1> QED BY <1>1 DEF UserSemBalance, BalancedBy

(***************************************************************************)
(* A step that leaves the user semaphores alone, working on another one.   *)
(***************************************************************************)
LEMMA BalanceOther ==
  ASSUME Inv, UserSemBalance, NEW b \in SemAdds, b \notin UserSems,
         NEW value, NEW queue,
         sem' = [sem EXCEPT ![b] = value],
         s_procQ' \in {s_procQ, [s_procQ EXCEPT ![b] = queue]}
  PROVE  UserSemBalance'
<1>1. sem \in [SemAdds -> Int] /\ s_procQ \in [SemAdds -> Seq(Pcb)]
      /\ UserSems \subseteq SemAdds
  BY SemAddsFacts DEF Inv, TypeOK
<1>2. \A a \in UserSems : sem'[a] = sem[a] /\ s_procQ'[a] = s_procQ[a]
  BY <1>1
<1> QED BY <1>2, BalanceUnchanged

LEMMA OtherSemaphores ==
  /\ ClockSem \in SemAdds /\ ClockSem \notin UserSems
  /\ \A a \in DeviceSems : a \in SemAdds /\ a \notin UserSems
BY SemAddsFacts, SoftAddresses

(***************************************************************************)
(* The dead leave their semaphores' queues, and the values rise by as many.*)
(***************************************************************************)
LEMMA BalanceKills ==
  ASSUME TOTALSEM \notin UserSems, Inv, UserSemBalance, currentProcess \in Pcb,
         sysSendToNorthKorea
  PROVE  UserSemBalance'
<1> DEFINE dead == Family(currentProcess)
<1> SUFFICES ASSUME NEW a \in UserSems
             PROVE  Len(s_procQ'[a]) = (IF sem'[a] < 0 THEN -sem'[a] ELSE 0)
  BY DEF UserSemBalance
<1> DEFINE q == s_procQ[a]
           gone == {p \in dead : pcb_semAdd[p] = a}
           rest == outProcQ(q, dead)
<1>1. a \in SemAdds /\ ~countedAsSoft(a)
  BY SemAddsFacts, SoftAddresses, CountedExactly
<1>2. s_procQ'[a] = rest /\ sem'[a] = sem[a] + Cardinality(gone)
  BY <1>1 DEF sysSendToNorthKorea, executeOrderSixtySix
<1>3. /\ dead \in SUBSET Pcb /\ q \in Seq(Pcb) /\ NoRepeats(q)
      /\ Range(q) = {p \in Pcb : pcb_semAdd[p] = a} /\ sem[a] \in Int
  BY <1>1, FamilyFacts DEF Inv, TypeOK, ProcessPartition, blockedOn
<1> HIDE DEF dead, q
<1>4. rest \in Seq(Pcb) /\ NoRepeats(rest) /\ Range(rest) = Range(q) \ dead
  BY <1>3, OutProperties
<1> HIDE DEF rest
<1>5. Range(q) \cap dead = gone
  BY <1>3
<1> HIDE DEF gone
<1>6. /\ Cardinality(Range(q)) = Len(q) /\ Cardinality(Range(rest)) = Len(rest)
      /\ IsFiniteSet(Range(q))
  BY <1>3, <1>4, LengthIsCardinality
<1>7. Cardinality(Range(q) \ dead) = Cardinality(Range(q)) - Cardinality(Range(q) \cap dead)
  BY <1>6, FS_Difference
<1>8. Len(rest) = Len(q) - Cardinality(gone)
  BY <1>4, <1>5, <1>6, <1>7
<1>9. /\ gone \in SUBSET Pcb /\ Cardinality(gone) \in Nat
      /\ Len(rest) \in Nat /\ Len(q) \in Nat
  <2>1. gone \in SUBSET Pcb
    BY <1>3, <1>5
  <2> QED BY <1>3, <1>4, <2>1, Constants, FS_Subset, FS_CardinalityType, LenProperties
<1>10. Len(q) = (IF sem[a] < 0 THEN -sem[a] ELSE 0)
  BY DEF UserSemBalance, q
<1> QED BY <1>2, <1>3, <1>8, <1>9, <1>10

LEMMA BalanceSignals ==
  ASSUME Inv, UserSemBalance, NEW a \in UserSems, sysSignal(a)
  PROVE  UserSemBalance'
<1> DEFINE q == s_procQ[a]
<1>1. /\ a \in SemAdds /\ sem \in [SemAdds -> Int] /\ s_procQ \in [SemAdds -> Seq(Pcb)]
      /\ q \in Seq(Pcb) /\ sem[a] \in Int
  BY SemAddsFacts DEF Inv, TypeOK
<1>2. Len(q) = (IF sem[a] < 0 THEN -sem[a] ELSE 0)
  BY DEF UserSemBalance
<1>3. sem' = [sem EXCEPT ![a] = sem[a] + 1]
  BY DEF sysSignal
<1>4. q # <<>> <=> Len(q) > 0
  BY <1>1
<1>5. CASE wakesOne(a)
  <2>1. s_procQ' = [s_procQ EXCEPT ![a] = Tail(q)] /\ q # <<>>
    BY <1>5 DEF sysSignal, removeBlocked, wakesOne, ASL
  <2>2. Len(Tail(q)) = Len(q) - 1
    BY <1>1, <2>1
  <2>3. BalancedBy(sem[a] + 1, Tail(q))
    <3> HIDE DEF q
    <3> QED BY <1>1, <1>2, <1>4, <2>1, <2>2 DEF BalancedBy
  <2> HIDE DEF q
  <2> QED BY <1>3, <2>1, <2>3, BalanceOne
<1>6. CASE ~wakesOne(a)
  <2>1. s_procQ' = s_procQ /\ ~(sem[a] + 1 <= 0 /\ q # <<>>)
    BY <1>1, <1>6 DEF sysSignal, wakesOne, ASL
  <2>2. s_procQ' = [s_procQ EXCEPT ![a] = q]
    BY <1>1, <2>1
  <2> HIDE DEF q
  <2>3. BalancedBy(sem[a] + 1, q)
    BY <1>1, <1>2, <1>4, <2>1 DEF BalancedBy
  <2> QED BY <1>3, <2>2, <2>3, BalanceOne
<1> QED BY <1>5, <1>6

LEMMA BalanceWaits ==
  ASSUME Inv, UserSemBalance, currentProcess \in Pcb, NEW a \in UserSems, sysWait(a)
  PROVE  UserSemBalance'
<1> DEFINE q == s_procQ[a]
           longer == insertProcQ(q, currentProcess)
<1>1. /\ a \in SemAdds /\ sem \in [SemAdds -> Int] /\ s_procQ \in [SemAdds -> Seq(Pcb)]
      /\ q \in Seq(Pcb) /\ sem[a] \in Int
  BY SemAddsFacts DEF Inv, TypeOK
<1>2. Len(q) = (IF sem[a] < 0 THEN -sem[a] ELSE 0)
  BY DEF UserSemBalance
<1>3. sem' = [sem EXCEPT ![a] = sem[a] - 1]
  BY DEF sysWait
<1>4. CASE sem[a] - 1 < 0
  <2>1. s_procQ' = [s_procQ EXCEPT ![a] = longer]
    BY <1>1, <1>4, DescriptorLeft DEF sysWait
  <2>2. Len(longer) = Len(q) + 1
    BY <1>1 DEF insertProcQ
  <2> HIDE DEF q, longer
  <2>3. BalancedBy(sem[a] - 1, longer)
    BY <1>1, <1>2, <1>4, <2>2 DEF BalancedBy
  <2> QED BY <1>3, <2>1, <2>3, BalanceOne
<1>5. CASE ~(sem[a] - 1 < 0)
  <2>1. s_procQ' = s_procQ
    BY <1>5 DEF sysWait
  <2>2. s_procQ' = [s_procQ EXCEPT ![a] = q]
    BY <1>1, <2>1
  <2> HIDE DEF q
  <2>3. BalancedBy(sem[a] - 1, q)
    BY <1>1, <1>2, <1>5 DEF BalancedBy
  <2> QED BY <1>3, <2>2, <2>3, BalanceOne
<1> QED BY <1>4, <1>5

LEMMA InitBalance == Init => UserSemBalance
<1> SUFFICES ASSUME Init, NEW a \in UserSems
             PROVE  Len(s_procQ[a]) = (IF sem[a] < 0 THEN -sem[a] ELSE 0)
  BY DEF UserSemBalance
<1>1. a \in SemAdds
  BY SemAddsFacts
<1>2. s_procQ[a] = <<>> /\ sem[a] \in {0, 1}
  BY <1>1 DEF Init
<1> QED BY <1>2

LEMMA CallBalance ==
  ASSUME TOTALSEM \notin UserSems, Inv, UserSemBalance, sysCallHandler
  PROVE  UserSemBalance'
<1>1. currentProcess \in Pcb
  BY DEF sysCallHandler, executing, Inv, TypeOK
<1>2. CASE sysCreate
  BY <1>2, BalanceUnchanged DEF sysCreate, vars, blocking
<1>3. CASE sysSendToNorthKorea
  BY <1>1, <1>3, BalanceKills
<1>4. ASSUME NEW a \in UserSems, sysSignal(a) PROVE UserSemBalance'
  BY <1>4, BalanceSignals
<1>5. ASSUME NEW a \in UserSems, sysWait(a) PROVE UserSemBalance'
  BY <1>1, <1>5, BalanceWaits
<1>6. ASSUME NEW type \in Handled, sysBYOL(type) PROVE UserSemBalance'
  BY <1>1, <1>6, BalanceKills, BalanceUnchanged DEF sysBYOL, blocking
<1>7. CASE sysWaitForClock
  <2> DEFINE longer == insertProcQ(s_procQ[ClockSem], currentProcess)
  <2>1. /\ sem' = [sem EXCEPT ![ClockSem] = sem[ClockSem] - 1]
        /\ s_procQ' \in {s_procQ, [s_procQ EXCEPT ![ClockSem] = longer]}
    BY <1>7 DEF sysWaitForClock, insertBlocked
  <2> HIDE DEF longer
  <2> QED BY <2>1, OtherSemaphores, BalanceOther
<1> QED BY <1>2, <1>3, <1>4, <1>5, <1>6, <1>7 DEF sysCallHandler

LEMMA WaitForIOBalance ==
  ASSUME Inv, UserSemBalance, waitForIO
  PROVE  UserSemBalance'
<1>1. PICK d \in Devices : sysGoPowerRangers(d)
  BY DEF waitForIO
<1> DEFINE a == semIndex(d)
           longer == insertProcQ(s_procQ[a], currentProcess)
<1>2. a \in SemAdds /\ a \notin UserSems
  BY DeviceSemIndex, OtherSemaphores
<1>3. /\ sem' = [sem EXCEPT ![a] = sem[a] - 1]
      /\ s_procQ' \in {s_procQ, [s_procQ EXCEPT ![a] = longer]}
  BY <1>1 DEF sysGoPowerRangers, insertBlocked
<1> HIDE DEF a, longer
<1> QED BY <1>2, <1>3, BalanceOther

LEMMA InterruptBalance ==
  ASSUME Inv, UserSemBalance, QuantumExpired \/ IntervalTimer \/ DeviceInterrupt
  PROVE  UserSemBalance'
<1>1. CASE QuantumExpired
  BY <1>1, BalanceUnchanged DEF QuantumExpired, blocking
<1>2. CASE IntervalTimer
  <2>1. sem \in [SemAdds -> Int]
    BY DEF Inv, TypeOK
  <2>2. /\ sem' \in {[sem EXCEPT ![ClockSem] = 0], sem}
        /\ s_procQ' \in {s_procQ, [s_procQ EXCEPT ![ClockSem] = <<>>]}
    BY <1>2 DEF IntervalTimer
  <2>3. PICK value : sem' = [sem EXCEPT ![ClockSem] = value]
    <3>1. sem = [sem EXCEPT ![ClockSem] = sem[ClockSem]]
      BY <2>1
    <3> QED BY <2>2, <3>1
  <2> QED BY <2>2, <2>3, OtherSemaphores, BalanceOther
<1>3. CASE DeviceInterrupt
  <2> DEFINE a == semIndex(servedDevice)
             shorter == Tail(s_procQ[a])
  <2>1. a \in SemAdds /\ a \notin UserSems
    BY <1>3, ServedSemIndex, OtherSemaphores DEF DeviceInterrupt, Inv, TypeOK
  <2>2. /\ sem' = [sem EXCEPT ![a] = sem[a] + 1]
        /\ s_procQ' \in {s_procQ, [s_procQ EXCEPT ![a] = shorter]}
    BY <1>3 DEF DeviceInterrupt, removeBlocked
  <2> HIDE DEF a, shorter
  <2> QED BY <2>1, <2>2, BalanceOther
<1> QED BY <1>1, <1>2, <1>3

LEMMA StepBalance ==
  ASSUME TOTALSEM \notin UserSems
  PROVE  Inv /\ UserSemBalance /\ [Next]_vars => UserSemBalance'
<1> SUFFICES ASSUME Inv, UserSemBalance, [Next]_vars PROVE UserSemBalance'
  OBVIOUS
<1>1. CASE Trap
  BY <1>1, BalanceUnchanged DEF Trap, pullUpAndDie, vars, blocking
<1>2. ASSUME NEW d \in Devices, StartIO(d) \/ DeviceDone(d) PROVE UserSemBalance'
  BY <1>2, BalanceUnchanged DEF StartIO, DeviceDone, blocking
<1>3. CASE UNCHANGED vars
  BY <1>3, BalanceUnchanged DEF vars, blocking
<1>4. CASE QuantumEndsMasked
  BY <1>4, BalanceUnchanged DEF QuantumEndsMasked, blocking
<1> QED BY <1>1, <1>2, <1>3, <1>4, CallBalance, WaitForIOBalance, InterruptBalance
        DEF Next, Stopped

(***************************************************************************)
(* A user semaphore is negative by exactly the number of processes blocked *)
(* on it, also after some were killed there: every V wakes one of them or  *)
(* is remembered.  It needs that no semaphore lies right behind sem[].     *)
(***************************************************************************)
THEOREM SemBalanceCorrect ==
  ASSUME TOTALSEM \notin UserSems
  PROVE  Spec => []UserSemBalance
BY InitBalance, StepBalance, Invariance, PTL DEF Spec
-----------------------------------------------------------------------------
(***************************************************************************)
(* What the interrupt handler can cope with: it finds device 0 of a line   *)
(* only, and the interrupting half of a terminal only if the other half is *)
(* READY.                                                                  *)
(***************************************************************************)
Manageable == (\A d \in Devices : d.num = 0) /\ ~FullDuplex

(***************************************************************************)
(* The value of a device's semaphore, its status, who is blocked there and *)
(* who has given it a command and not waited yet.  A device that is READY  *)
(* has nobody waiting; whoever has yet to wait finds a value that lets him *)
(* pass if the device is READY; and with the window closed the value tells *)
(* whether a wait is outstanding.                                          *)
(***************************************************************************)
Consistent(d, value, status, semAdd, position) ==
  /\ value >= -1
  /\ status = "READY" => value >= 0
  /\ \A p \in Pcb : position[p] = d => value >= 0 /\ (status = "READY" => value >= 1)
  /\ \A p \in Pcb : semAdd[p] = semIndex(d) => value = -1
  /\ \A p, q \in Pcb : semAdd[p] = semIndex(d) /\ semAdd[q] = semIndex(d) => p = q
  /\ \A p, q \in Pcb : position[p] = d /\ position[q] = d => p = q
  /\ d \in IoMasked =>
       value = IF status # "READY" /\ \A p \in Pcb : position[p] # d THEN -1 ELSE 0

(***************************************************************************)
(* With interrupts off between the command and the SYS8, nobody else runs. *)
(***************************************************************************)
MaskedRuns == \A p \in Pcb : io[p] \in IoMasked => p = currentProcess /\ mode = "run"

(***************************************************************************)
(* One half of a terminal is used at a time.                               *)
(***************************************************************************)
OneHalf ==
  \A d \in Devices :
    OtherHalf(d) \in Devices => devStatus[d] = "READY" \/ devStatus[OtherHalf(d)] = "READY"

(***************************************************************************)
(* A process is blocked only on semaphores of devices there are.           *)
(***************************************************************************)
Installed ==
  \A p \in Pcb : pcb_semAdd[p] \in DeviceSems =>
                   \E d \in Devices : pcb_semAdd[p] = semIndex(d)

DeviceInv ==
  /\ \A d \in Devices : Consistent(d, sem[semIndex(d)], devStatus[d], pcb_semAdd, io)
  /\ MaskedRuns
  /\ OneHalf
  /\ Installed

-----------------------------------------------------------------------------
(***************************************************************************)
(* The devices the handler can tell apart, and the one it takes to be      *)
(* interrupting.                                                           *)
(***************************************************************************)
LEMMA HalfFacts ==
  ASSUME NEW d \in Device
  PROVE  /\ OtherHalf(d) \in Device /\ OtherHalf(d).line = d.line
         /\ OtherHalf(d).num = d.num /\ OtherHalf(d).recv = ~d.recv
         /\ OtherHalf(OtherHalf(d)) = d
BY DEF OtherHalf, Device

LEMMA LineFacts ==
  ASSUME Manageable, NEW d \in Devices
  PROVE  /\ d.line \in 3 .. 7 /\ d.num = 0 /\ d.recv \in BOOLEAN
         /\ d.recv => d.line = 7
         /\ d = [line |-> d.line, num |-> 0, recv |-> d.recv]
BY DeviceAssumption DEF Manageable, Device, DEVNOSEM, TERMINT

LEMMA SemIndexInjective ==
  ASSUME Manageable, NEW d \in Devices, NEW e \in Devices, semIndex(d) = semIndex(e)
  PROVE  d = e
<1> DEFINE k(x) == x.line - 3 + (IF x.recv THEN 1 ELSE 0)
<1>1. DEVPERINT \in Nat /\ DEVPERINT > 0
  BY DevPerIntAssumption
<1>2. \A x \in {d, e} : k(x) \in 0 .. 5 /\ semIndex(x) = k(x) * DEVPERINT
                        /\ (k(x) = 5 <=> x.recv) /\ (~x.recv => x.line = k(x) + 3)
  <2> SUFFICES ASSUME NEW x \in Devices
               PROVE  k(x) \in 0 .. 5 /\ semIndex(x) = k(x) * DEVPERINT
                      /\ (k(x) = 5 <=> x.recv) /\ (~x.recv => x.line = k(x) + 3)
    OBVIOUS
  <2>1. /\ x.line \in 3 .. 7 /\ x.num = 0 /\ x.recv \in BOOLEAN
        /\ x.recv => x.line = 7
    BY LineFacts
  <2>2. k(x) \in 0 .. 5 /\ (k(x) = 5 <=> x.recv) /\ (~x.recv => x.line = k(x) + 3)
    BY <2>1
  <2>3. semIndex(x) = k(x) * DEVPERINT + 0
    BY <2>1 DEF semIndex, DEVNOSEM
  <2> HIDE DEF k
  <2>4. k(x) * DEVPERINT \in Int
    BY <1>1, <2>2
  <2> QED BY <2>2, <2>3, <2>4
<1>3. \A i, j \in 0 .. 5 : i * DEVPERINT = j * DEVPERINT => i = j
  <2>1. \A i \in 0 .. 5 : \A j \in 0 .. 5 : i < j => i * DEVPERINT < j * DEVPERINT
    <3> SUFFICES ASSUME NEW i \in 0 .. 5, NEW j \in 0 .. 5, i < j
                 PROVE  i * DEVPERINT < j * DEVPERINT
      OBVIOUS
    <3>1. i = 0 \/ i = 1 \/ i = 2 \/ i = 3 \/ i = 4
      OBVIOUS
    <3>2. j = 1 \/ j = 2 \/ j = 3 \/ j = 4 \/ j = 5
      OBVIOUS
    <3>3. 0 * DEVPERINT = 0 /\ 1 * DEVPERINT = DEVPERINT
      BY <1>1
    <3> QED BY <1>1, <3>1, <3>2, <3>3
  <2> QED BY <1>1, <2>1
<1> HIDE DEF k
<1>4. k(d) = k(e)
  BY <1>2, <1>3
<1>5. d.line = e.line /\ d.recv = e.recv
  BY <1>2, <1>4, LineFacts
<1> QED BY <1>5, LineFacts

LEMMA ServedIsPending ==
  ASSUME Manageable, OneHalf, pending # {}
  PROVE  /\ servedDevice \in Devices /\ devStatus[servedDevice] = "DONE"
         /\ acknowledged(servedDevice) = servedDevice
<1> DEFINE lines == {d.line : d \in pending}
           l == CHOOSE x \in lines : \A d \in pending : x <= d.line
           sender == [line |-> l, num |-> 0, recv |-> FALSE]
<1>1. lines # {} /\ lines \subseteq DEVNOSEM .. TERMINT
      /\ \A d \in pending : d.line \in lines
  BY DeviceAssumption DEF pending, Device
<1>2. \E x \in lines : \A y \in lines : x <= y
  BY <1>1, LeastLine
<1>3. l \in lines
  BY <1>1, <1>2
<1>4. PICK d \in Devices : d.line = l /\ devStatus[d] = "DONE"
  BY <1>3 DEF pending
<1>5. /\ d.num = 0 /\ d.recv \in BOOLEAN /\ (d.recv => l = TERMINT)
      /\ d = [line |-> l, num |-> 0, recv |-> d.recv]
  BY <1>4, LineFacts DEF TERMINT
<1>6. getDeviceNumber(l) = 0
  BY <1>4, <1>5 DEF getDeviceNumber, pending
<1>7. servedDevice = IF l = TERMINT /\ devStatus[sender] = "READY"
                     THEN OtherHalf(sender) ELSE sender
  <2> DEFINE n == getDeviceNumber(l)
             found == [line |-> l, num |-> n, recv |-> FALSE]
  <2>1. servedDevice = IF l = TERMINT /\ devStatus[found] = "READY"
                       THEN OtherHalf(found) ELSE found
    BY DEF servedDevice
  <2>2. n = 0
    BY <1>6
  <2> HIDE DEF l, n
  <2> QED BY <2>1, <2>2
<1> HIDE DEF l
<1>8. servedDevice = d
  <2>1. CASE ~d.recv
    <3>1. d = sender
      BY <1>5, <2>1
    <3> HIDE DEF sender
    <3> QED BY <1>4, <1>7, <3>1
  <2>2. CASE d.recv
    <3> HIDE DEF l
    <3>1. d = OtherHalf(sender) /\ sender = OtherHalf(d) /\ l = TERMINT
      <4>1. d = [line |-> l, num |-> 0, recv |-> TRUE] /\ l = TERMINT /\ d \in Device
        BY <1>5, <2>2, DeviceAssumption
      <4>2. /\ OtherHalf(d) \in Device /\ OtherHalf(d).line = l
            /\ OtherHalf(d).num = 0 /\ OtherHalf(d).recv = FALSE
        BY <4>1, HalfFacts, <2>2
      <4>3. OtherHalf(d) = sender
        BY <4>2 DEF Device
      <4> QED BY <4>1, <4>3, HalfFacts
    <3>2. sender \in Devices
      BY <1>4, <3>1, DeviceAssumption
    <3> HIDE DEF sender
    <3>3. devStatus[sender] = "READY"
      BY <1>4, <3>1, <3>2 DEF OneHalf
    <3> QED BY <1>7, <3>1, <3>3
  <2> QED BY <1>5, <2>1, <2>2
<1>9. acknowledged(d) = d
  BY <1>5, DevPerIntAssumption DEF acknowledged
<1> QED BY <1>4, <1>8, <1>9

-----------------------------------------------------------------------------
(***************************************************************************)
(* The life of one device, one lemma for each thing that happens to it.    *)
(* Processes leave its queue (killed), or are killed between command and   *)
(* SYS8, which the mask excludes:                                          *)
(***************************************************************************)
LEMMA FewerUsers ==
  ASSUME NEW d, NEW value, NEW status, NEW semAdd, NEW position,
         NEW semAdd2, NEW position2,
         Consistent(d, value, status, semAdd, position),
         \A p \in Pcb : semAdd2[p] = semIndex(d) => semAdd[p] = semIndex(d),
         \A p \in Pcb : position2[p] = d => position[p] = d,
         \A p \in Pcb : d \in IoMasked /\ position[p] = d => position2[p] = d
  PROVE  Consistent(d, value, status, semAdd2, position2)
BY DEF Consistent

(***************************************************************************)
(* A process gives a READY device a command.                               *)
(***************************************************************************)
LEMMA CommandGiven ==
  ASSUME NEW d \in Devices, NEW value \in Int, NEW semAdd,
         NEW position \in [Pcb -> Devices \cup {NULL}], NEW p \in Pcb,
         Consistent(d, value, "READY", semAdd, position),
         \A q \in Pcb : position[q] # d
  PROVE  Consistent(d, value, "BUSY", semAdd, [position EXCEPT ![p] = d])
<1> DEFINE position2 == [position EXCEPT ![p] = d]
<1>1. position2[p] = d /\ \A q \in Pcb : position2[q] = d => q = p
  OBVIOUS
<1> HIDE DEF position2
<1>2. Consistent(d, value, "BUSY", semAdd, position2)
  BY <1>1 DEF Consistent
<1> QED BY <1>2 DEF position2

(***************************************************************************)
(* It finishes.                                                            *)
(***************************************************************************)
LEMMA Finishes ==
  ASSUME NEW d, NEW value, NEW semAdd, NEW position,
         Consistent(d, value, "BUSY", semAdd, position)
  PROVE  Consistent(d, value, "DONE", semAdd, position)
BY DEF Consistent

(***************************************************************************)
(* Its interrupt is served while no masked process is between its command  *)
(* and its SYS8: whoever was blocked no longer is.                         *)
(***************************************************************************)
LEMMA Served ==
  ASSUME NEW d, NEW value \in Int, NEW semAdd, NEW position, NEW semAdd2,
         Consistent(d, value, "DONE", semAdd, position),
         d \in IoMasked => \A p \in Pcb : position[p] # d,
         \A p \in Pcb : semAdd2[p] # semIndex(d)
  PROVE  Consistent(d, value + 1, "READY", semAdd2, position)
BY DEF Consistent

(***************************************************************************)
(* A process executes SYS8: it blocks if the value was 0, and then the     *)
(* device is not READY.                                                    *)
(***************************************************************************)
LEMMA Waits ==
  ASSUME NEW d \in Devices, NEW value \in Int, NEW status, NEW semAdd,
         NEW position \in [Pcb -> Devices \cup {NULL}], NEW p \in Pcb,
         NEW semAdd2,
         Consistent(d, value, status, semAdd, position), position[p] = d,
         \A q \in Pcb \ {p} : semAdd2[q] = semAdd[q],
         semAdd2[p] = semIndex(d) => value = 0 \/ semAdd[p] = semIndex(d)
  PROVE  Consistent(d, value - 1, status, semAdd2, [position EXCEPT ![p] = NULL])
<1> DEFINE position2 == [position EXCEPT ![p] = NULL]
<1>1. d # NULL
  BY DeviceAssumption
<1>2. \A q \in Pcb : position2[q] # d
  BY <1>1 DEF Consistent
<1> HIDE DEF position2
<1>3. value >= 0 /\ (status = "READY" => value >= 1)
      /\ \A q \in Pcb : semAdd[q] # semIndex(d)
  BY DEF Consistent
<1>4. d \in IoMasked => value = 0 /\ status # "READY"
  BY <1>3 DEF Consistent
<1>5. \A q, r \in Pcb : semAdd2[q] = semIndex(d) /\ semAdd2[r] = semIndex(d) => q = r
  BY <1>3
<1>6. \A q \in Pcb : semAdd2[q] = semIndex(d) => value - 1 = -1
  BY <1>3
<1>7. value - 1 >= -1 /\ (status = "READY" => value - 1 >= 0)
  BY <1>3
<1>8. d \in IoMasked =>
        value - 1 = IF status # "READY" /\ \A q \in Pcb : position2[q] # d THEN -1 ELSE 0
  BY <1>2, <1>4
<1>9. Consistent(d, value - 1, status, semAdd2, position2)
  BY <1>2, <1>5, <1>6, <1>7, <1>8 DEF Consistent
<1> QED BY <1>9 DEF position2

-----------------------------------------------------------------------------
(***************************************************************************)
(* DeviceInv is inductive.  While a process may be interrupted, or makes   *)
(* another call than the SYS8 it owes, nobody has the mask.                *)
(***************************************************************************)
LEMMA NobodyMasked ==
  ASSUME MaskedRuns,
         interruptible \/ io[currentProcess] = NULL
  PROVE  \A p \in Pcb : io[p] \notin IoMasked
<1>1. NULL \notin IoMasked
  BY DeviceAssumption, ModeAssumption
<1> QED BY <1>1 DEF MaskedRuns, interruptible

(***************************************************************************)
(* A step that leaves the devices and their semaphores alone: processes    *)
(* may leave them only by dying, and none that dies is masked.             *)
(***************************************************************************)
Untouched ==
  /\ \A a \in DeviceSems : sem'[a] = sem[a]
  /\ devStatus' = devStatus
  /\ \A p \in Pcb :
       \/ pcb_semAdd'[p] = pcb_semAdd[p]
       \/ /\ pcb_semAdd'[p] \notin DeviceSems
          /\ pcb_semAdd[p] \notin DeviceSems \/ p \in pcbFree'
  /\ \A p \in Pcb : io'[p] = io[p] \/ (p \in pcbFree' /\ io'[p] = NULL)
  /\ (\A p \in Pcb : io[p] \notin IoMasked) \/ UNCHANGED <<io, mode, currentProcess>>

LEMMA UntouchedDevices ==
  ASSUME DeviceInv, Untouched
  PROVE  DeviceInv'
<1>1. NULL \notin Devices /\ NULL \notin IoMasked
  BY DeviceAssumption, ModeAssumption
<1>2. ASSUME NEW d \in Devices
      PROVE  Consistent(d, sem'[semIndex(d)], devStatus'[d], pcb_semAdd', io')
  <2>1. semIndex(d) \in DeviceSems
    BY DeviceSemIndex
  <2>2. Consistent(d, sem[semIndex(d)], devStatus[d], pcb_semAdd, io)
    BY DEF DeviceInv
  <2>3. \A p \in Pcb : pcb_semAdd'[p] = semIndex(d) => pcb_semAdd[p] = semIndex(d)
    BY <2>1 DEF Untouched
  <2>4. \A p \in Pcb : io'[p] = d => io[p] = d
    BY <1>1 DEF Untouched
  <2>5. \A p \in Pcb : d \in IoMasked /\ io[p] = d => io'[p] = d
    BY DEF Untouched
  <2>6. Consistent(d, sem[semIndex(d)], devStatus[d], pcb_semAdd', io')
    BY <2>2, <2>3, <2>4, <2>5, FewerUsers
  <2> QED BY <2>1, <2>6 DEF Untouched
<1>3. MaskedRuns'
  BY <1>1 DEF DeviceInv, MaskedRuns, Untouched
<1>4. OneHalf'
  BY DEF DeviceInv, OneHalf, Untouched
<1>5. Installed'
  BY DEF DeviceInv, Installed, Untouched
<1> QED BY <1>2, <1>3, <1>4, <1>5 DEF DeviceInv

LEMMA InitDevices == Init => DeviceInv
<1> SUFFICES ASSUME Init PROVE DeviceInv
  OBVIOUS
<1>1. ASSUME NEW d \in Devices
      PROVE  Consistent(d, sem[semIndex(d)], devStatus[d], pcb_semAdd, io)
  <2>1. semIndex(d) \in SemAdds /\ semIndex(d) \notin UserSems /\ semIndex(d) # NULL
        /\ d # NULL
    BY DeviceSemIndex, SemAddsFacts, SoftAddresses, DeviceAssumption, SemAssumption
  <2>2. sem[semIndex(d)] = 0
    BY <2>1 DEF Init
  <2> QED BY <2>1, <2>2 DEF Init, Consistent
<1>2. NULL \notin IoMasked /\ NULL \notin DeviceSems
  BY DeviceAssumption, ModeAssumption, SemAddsFacts, SemAssumption
<1> QED BY <1>1, <1>2 DEF Init, DeviceInv, MaskedRuns, OneHalf, Installed

LEMMA StartDevices ==
  ASSUME Manageable, Inv, DeviceInv, NEW d \in Devices, StartIO(d)
  PROVE  DeviceInv'
<1>1. /\ currentProcess \in Pcb /\ mode = "run" /\ io[currentProcess] = NULL
      /\ devStatus[d] = "READY" /\ \A p \in Pcb : io[p] # d
  BY DEF StartIO, executing, Inv, TypeOK
<1>2. /\ io \in [Pcb -> Devices \cup {NULL}] /\ sem \in [SemAdds -> Int]
      /\ devStatus \in [Devices -> {"READY", "BUSY", "DONE"}]
  BY DEF Inv, TypeOK
<1>3. /\ devStatus' = [devStatus EXCEPT ![d] = "BUSY"]
      /\ io' = [io EXCEPT ![currentProcess] = d]
      /\ UNCHANGED <<mode, currentProcess, sem, pcb_semAdd>>
  BY DEF StartIO, resume, blocking
<1>4. d # NULL
  BY DeviceAssumption
<1>5. ASSUME NEW e \in Devices
      PROVE  Consistent(e, sem'[semIndex(e)], devStatus'[e], pcb_semAdd', io')
  <2>1. Consistent(e, sem[semIndex(e)], devStatus[e], pcb_semAdd, io)
    BY DEF DeviceInv
  <2>2. CASE e = d
    <3>1. sem[semIndex(d)] \in Int
      BY <1>2, DeviceSemIndex, SemAddsFacts
    <3>2. Consistent(d, sem[semIndex(d)], "BUSY", pcb_semAdd,
                     [io EXCEPT ![currentProcess] = d])
      BY <1>1, <1>2, <2>1, <2>2, <3>1, CommandGiven
    <3> QED BY <1>2, <1>3, <2>2, <3>2
  <2>3. CASE e # d
    <3>1. \A p \in Pcb : io'[p] = e <=> io[p] = e
      <4>1. \A p \in Pcb : io'[p] = IF p = currentProcess THEN d ELSE io[p]
        BY <1>2, <1>3
      <4>2. io[currentProcess] # e
        BY <1>1, DeviceAssumption
      <4> QED BY <2>3, <4>1, <4>2
    <3>2. Consistent(e, sem[semIndex(e)], devStatus[e], pcb_semAdd, io')
      BY <2>1, <3>1, FewerUsers
    <3>3. devStatus'[e] = devStatus[e]
      BY <1>2, <1>3, <2>3
    <3> QED BY <1>3, <3>2, <3>3
  <2> QED BY <2>2, <2>3
<1>6. MaskedRuns'
  BY <1>1, <1>2, <1>3 DEF DeviceInv, MaskedRuns
<1>7. OneHalf'
  <2> SUFFICES ASSUME NEW e \in Devices, OtherHalf(e) \in Devices
               PROVE  devStatus'[e] = "READY" \/ devStatus'[OtherHalf(e)] = "READY"
    BY DEF OneHalf
  <2>1. \A x \in Devices : x # d => devStatus'[x] = devStatus[x]
    BY <1>2, <1>3
  <2>2. /\ OtherHalf(OtherHalf(e)) = e /\ OtherHalf(e) # e
    BY HalfFacts, DeviceAssumption
  <2>3. OtherHalf(d) \in Devices => devStatus[OtherHalf(d)] = "READY"
    BY DEF StartIO, Manageable
  <2>4. devStatus[e] = "READY" \/ devStatus[OtherHalf(e)] = "READY"
    BY DEF DeviceInv, OneHalf
  <2>5. CASE e = d
    BY <2>1, <2>2, <2>3, <2>5
  <2>6. CASE OtherHalf(e) = d
    BY <2>1, <2>2, <2>3, <2>6
  <2> QED BY <2>1, <2>4, <2>5, <2>6
<1>8. Installed'
  BY <1>3 DEF DeviceInv, Installed
<1> QED BY <1>5, <1>6, <1>7, <1>8 DEF DeviceInv

LEMMA DoneDevices ==
  ASSUME Inv, DeviceInv, NEW d \in Devices, DeviceDone(d)
  PROVE  DeviceInv'
<1>1. devStatus \in [Devices -> {"READY", "BUSY", "DONE"}]
  BY DEF Inv, TypeOK
<1>2. /\ devStatus[d] = "BUSY" /\ devStatus' = [devStatus EXCEPT ![d] = "DONE"]
      /\ UNCHANGED <<mode, currentProcess, sem, pcb_semAdd, io>>
  BY DEF DeviceDone, resume, blocking
<1>3. ASSUME NEW e \in Devices
      PROVE  Consistent(e, sem'[semIndex(e)], devStatus'[e], pcb_semAdd', io')
  <2>1. Consistent(e, sem[semIndex(e)], devStatus[e], pcb_semAdd, io)
    BY DEF DeviceInv
  <2>2. CASE e = d
    <3>1. Consistent(d, sem[semIndex(d)], "DONE", pcb_semAdd, io)
      BY <1>2, <2>1, <2>2, Finishes
    <3> QED BY <1>1, <1>2, <2>2, <3>1
  <2>3. CASE e # d
    <3>1. devStatus'[e] = devStatus[e]
      BY <1>1, <1>2, <2>3
    <3> QED BY <1>2, <2>1, <3>1
  <2> QED BY <2>2, <2>3
<1>4. MaskedRuns' /\ Installed'
  BY <1>2 DEF DeviceInv, MaskedRuns, Installed
<1>5. OneHalf'
  <2>1. \A x \in Devices : devStatus[x] = "READY" => devStatus'[x] = "READY"
    BY <1>1, <1>2
  <2> QED BY <2>1 DEF DeviceInv, OneHalf
<1> QED BY <1>3, <1>4, <1>5 DEF DeviceInv

LEMMA WaitDevices ==
  ASSUME Manageable, Inv, DeviceInv, NEW d \in Devices,
         executing, io[currentProcess] = d, sysGoPowerRangers(d)
  PROVE  DeviceInv'
<1> DEFINE a == semIndex(d)
<1>0. PICK p \in Pcb : p = currentProcess
  BY DEF executing, Inv, TypeOK
<1>1. /\ mode = "run" /\ io[p] = d
      /\ io \in [Pcb -> Devices \cup {NULL}] /\ sem \in [SemAdds -> Int]
      /\ pcb_semAdd \in [Pcb -> SemAdds \cup {NULL}] /\ pcb_semAdd[p] = NULL
  BY <1>0 DEF executing, Inv, TypeOK, ProcessPartition
<1>2. a \in SemAdds /\ a \in DeviceSems /\ sem[a] \in Int /\ a # NULL
  BY <1>1, DeviceSemIndex, SemAddsFacts, SemAssumption
<1>3. /\ sem' = [sem EXCEPT ![a] = @ - 1] /\ io' = [io EXCEPT ![p] = NULL]
      /\ devStatus' = devStatus
  BY <1>0 DEF sysGoPowerRangers
<1>4. \/ pcb_semAdd' = pcb_semAdd
      \/ sem[a] - 1 < 0 /\ pcb_semAdd' = [pcb_semAdd EXCEPT ![p] = a]
  BY <1>0, <1>1, <1>2, DescriptorLeft DEF sysGoPowerRangers
<1>5. /\ \A q \in Pcb \ {p} : pcb_semAdd'[q] = pcb_semAdd[q]
      /\ pcb_semAdd'[p] = pcb_semAdd[p] \/ (sem[a] - 1 < 0 /\ pcb_semAdd'[p] = a)
  BY <1>1, <1>4
<1>6. Consistent(d, sem[a], devStatus[d], pcb_semAdd, io)
  BY DEF DeviceInv
<1> HIDE DEF a
<1>7. ASSUME NEW e \in Devices
      PROVE  Consistent(e, sem'[semIndex(e)], devStatus'[e], pcb_semAdd', io')
  <2>1. Consistent(e, sem[semIndex(e)], devStatus[e], pcb_semAdd, io)
    BY DEF DeviceInv
  <2>2. CASE e = d
    <3>1. sem[a] >= 0
      BY <1>1, <1>6 DEF Consistent
    <3>2. pcb_semAdd'[p] = semIndex(d) => sem[a] = 0 \/ pcb_semAdd[p] = semIndex(d)
      BY <1>2, <1>5, <3>1
    <3>3. Consistent(d, sem[a] - 1, devStatus[d], pcb_semAdd', [io EXCEPT ![p] = NULL])
      BY <1>1, <1>2, <1>5, <1>6, <3>2, Waits, ZenonT(60)
    <3>4. sem'[semIndex(d)] = sem[a] - 1
      BY <1>1, <1>2, <1>3 DEF a
    <3> QED BY <1>3, <2>2, <3>3, <3>4
  <2>3. CASE e # d
    <3>1. semIndex(e) # a /\ semIndex(e) \in SemAdds /\ semIndex(e) # NULL
      BY <2>3, SemIndexInjective, DeviceSemIndex, SemAddsFacts, SemAssumption DEF a
    <3>2. \A q \in Pcb : pcb_semAdd'[q] = semIndex(e) => pcb_semAdd[q] = semIndex(e)
      BY <1>5, <3>1
    <3>3. \A q \in Pcb : io'[q] = e <=> io[q] = e
      <4>1. \A q \in Pcb : io'[q] = IF q = p THEN NULL ELSE io[q]
        BY <1>1, <1>3
      <4> QED BY <1>1, <2>3, <4>1, DeviceAssumption
    <3>4. Consistent(e, sem[semIndex(e)], devStatus[e], pcb_semAdd', io')
      BY <2>1, <3>2, <3>3, FewerUsers
    <3>5. sem'[semIndex(e)] = sem[semIndex(e)]
      BY <1>1, <1>3, <3>1
    <3> QED BY <1>3, <3>4, <3>5
  <2> QED BY <2>2, <2>3
<1>8. MaskedRuns'
  <2>1. \A q \in Pcb : io'[q] = IF q = p THEN NULL ELSE io[q]
    BY <1>1, <1>3
  <2>2. NULL \notin IoMasked
    BY DeviceAssumption, ModeAssumption
  <2>3. \A q \in Pcb : io'[q] \notin IoMasked
    BY <1>0, <2>1, <2>2 DEF DeviceInv, MaskedRuns
  <2> QED BY <2>3 DEF MaskedRuns
<1>9. OneHalf'
  BY <1>3 DEF DeviceInv, OneHalf
<1>10. Installed'
  <2>1. pcb_semAdd'[p] = pcb_semAdd[p] \/ pcb_semAdd'[p] = semIndex(d)
    BY <1>5 DEF a
  <2> QED BY <1>5, <2>1 DEF DeviceInv, Installed
<1> QED BY <1>7, <1>8, <1>9, <1>10 DEF DeviceInv

(***************************************************************************)
(* What an interrupt of a device does to who is blocked: nobody is left on *)
(* its semaphore, and nobody else is woken.                                *)
(***************************************************************************)
LEMMA InterruptWakes ==
  ASSUME Manageable, Inv, DeviceInv, DeviceInterrupt
  PROVE  /\ \A p \in Pcb : pcb_semAdd'[p] # semIndex(servedDevice)
         /\ \A p \in Pcb : pcb_semAdd'[p] = pcb_semAdd[p]
              \/ (pcb_semAdd[p] = semIndex(servedDevice) /\ pcb_semAdd'[p] = NULL)
<1> DEFINE d == servedDevice
           a == semIndex(d)
<1>1. d \in Devices
  BY ServedIsPending DEF DeviceInterrupt, DeviceInv
<1>2. Consistent(d, sem[a], devStatus[d], pcb_semAdd, io)
  BY <1>1 DEF DeviceInv
<1>3. a \in SemAdds /\ a # NULL
  BY <1>1, DeviceSemIndex, SemAddsFacts, SemAssumption
<1>4. /\ sem[a] \in Int /\ pcb_semAdd \in [Pcb -> SemAdds \cup {NULL}]
      /\ s_procQ[a] \in Seq(Pcb) /\ Range(s_procQ[a]) = {p \in Pcb : pcb_semAdd[p] = a}
  BY <1>3 DEF Inv, TypeOK, ProcessPartition, blockedOn
<1>5. \/ wakesOne(a) /\ removeBlocked(a)
      \/ ~wakesOne(a) /\ UNCHANGED pcb_semAdd
  BY DEF DeviceInterrupt
<1> HIDE DEF d, a
<1>6. CASE wakesOne(a) /\ removeBlocked(a)
  <2> DEFINE first == Head(s_procQ[a])
  <2>1. s_procQ[a] # <<>> /\ pcb_semAdd' = [pcb_semAdd EXCEPT ![first] = NULL]
    BY <1>6 DEF wakesOne, removeBlocked, ASL
  <2>2. first \in Range(s_procQ[a])
    BY <1>4, <2>1, RemoveProperties
  <2>3. first \in Pcb /\ pcb_semAdd[first] = a
    BY <1>4, <2>2
  <2> HIDE DEF first
  <2>4. \A p \in Pcb : pcb_semAdd[p] = a => p = first
    BY <1>2, <2>3 DEF Consistent, a
  <2>5. \A p \in Pcb : pcb_semAdd'[p] = IF p = first THEN NULL ELSE pcb_semAdd[p]
    BY <1>4, <2>1, <2>3
  <2>6. /\ \A p \in Pcb : pcb_semAdd'[p] # a
        /\ \A p \in Pcb : pcb_semAdd'[p] = pcb_semAdd[p]
             \/ (pcb_semAdd[p] = a /\ pcb_semAdd'[p] = NULL)
    BY <1>3, <2>3, <2>4, <2>5
  <2> QED BY <2>6 DEF a, d
<1>7. CASE ~wakesOne(a) /\ UNCHANGED pcb_semAdd
  <2>1. \A p \in Pcb : pcb_semAdd[p] # a
    <3> SUFFICES ASSUME NEW p \in Pcb, pcb_semAdd[p] = a PROVE FALSE
      OBVIOUS
    <3>1. sem[a] = -1
      BY <1>2 DEF Consistent, a
    <3>2. p \in Range(s_procQ[a])
      BY <1>4
    <3>3. s_procQ[a] # <<>>
      <4>1. Range(<<>>) = {}
        BY DEF Range
      <4> QED BY <3>2, <4>1
    <3> QED BY <1>3, <1>7, <3>1, <3>3 DEF wakesOne, ASL
  <2> QED BY <1>7, <2>1 DEF a, d
<1> QED BY <1>5, <1>6, <1>7

LEMMA InterruptDevices ==
  ASSUME Manageable, Inv, DeviceInv, DeviceInterrupt
  PROVE  DeviceInv'
<1>1. PICK d \in Devices : /\ d = servedDevice /\ devStatus[d] = "DONE"
                           /\ acknowledged(d) = d
  BY ServedIsPending DEF DeviceInterrupt, DeviceInv
<1>2. /\ devStatus \in [Devices -> {"READY", "BUSY", "DONE"}]
      /\ sem \in [SemAdds -> Int]
      /\ semIndex(d) \in SemAdds /\ sem[semIndex(d)] \in Int
  BY DeviceSemIndex, SemAddsFacts DEF Inv, TypeOK
<1>3. /\ sem' = [sem EXCEPT ![semIndex(d)] = @ + 1] /\ io' = io
      /\ interruptible
  BY <1>1 DEF DeviceInterrupt
<1>4. devStatus' = [devStatus EXCEPT ![d] = "READY"]
  <2>1. devStatus' = [e \in Devices |-> IF e = d /\ e \in pending THEN "READY"
                                        ELSE devStatus[e]]
    BY <1>1 DEF DeviceInterrupt
  <2>2. d \in pending
    BY <1>1 DEF pending
  <2> QED BY <1>2, <2>1, <2>2
<1>5. /\ \A p \in Pcb : pcb_semAdd'[p] # semIndex(d)
      /\ \A p \in Pcb : pcb_semAdd'[p] = pcb_semAdd[p] \/ pcb_semAdd'[p] = NULL
  BY <1>1, InterruptWakes
<1>6. \A p \in Pcb : io[p] \notin IoMasked
  BY <1>3, NobodyMasked DEF DeviceInv
<1>7. ASSUME NEW e \in Devices
      PROVE  Consistent(e, sem'[semIndex(e)], devStatus'[e], pcb_semAdd', io')
  <2>1. Consistent(e, sem[semIndex(e)], devStatus[e], pcb_semAdd, io)
    BY DEF DeviceInv
  <2>2. CASE e = d
    <3>1. d \in IoMasked => \A p \in Pcb : io[p] # d
      BY <1>6
    <3>2. Consistent(d, sem[semIndex(d)] + 1, "READY", pcb_semAdd', io)
      BY <1>1, <1>2, <1>5, <2>1, <2>2, <3>1, Served
    <3>3. sem'[semIndex(d)] = sem[semIndex(d)] + 1 /\ devStatus'[d] = "READY"
      BY <1>2, <1>3, <1>4
    <3> QED BY <1>3, <2>2, <3>2, <3>3
  <2>3. CASE e # d
    <3>1. semIndex(e) # semIndex(d) /\ semIndex(e) \in SemAdds /\ semIndex(e) # NULL
      BY <2>3, SemIndexInjective, DeviceSemIndex, SemAddsFacts, SemAssumption
    <3>2. \A p \in Pcb : pcb_semAdd'[p] = semIndex(e) => pcb_semAdd[p] = semIndex(e)
      BY <1>5, <3>1
    <3>3. Consistent(e, sem[semIndex(e)], devStatus[e], pcb_semAdd', io)
      BY <2>1, <3>2, FewerUsers
    <3>4. sem'[semIndex(e)] = sem[semIndex(e)] /\ devStatus'[e] = devStatus[e]
      BY <1>2, <1>3, <1>4, <2>3, <3>1
    <3> QED BY <1>3, <3>3, <3>4
  <2> QED BY <2>2, <2>3
<1>8. MaskedRuns'
  BY <1>3, <1>6 DEF MaskedRuns
<1>9. OneHalf'
  <2>1. \A x \in Devices : devStatus[x] = "READY" => devStatus'[x] = "READY"
    BY <1>2, <1>4
  <2> QED BY <2>1 DEF DeviceInv, OneHalf
<1>10. Installed'
  <2>1. NULL \notin DeviceSems
    BY SemAddsFacts, SemAssumption
  <2> QED BY <1>5, <2>1 DEF DeviceInv, Installed
<1> QED BY <1>7, <1>8, <1>9, <1>10 DEF DeviceInv

-----------------------------------------------------------------------------
(***************************************************************************)
(* Every other step leaves the devices alone.                              *)
(***************************************************************************)
LEMMA KillUntouched ==
  ASSUME Inv, DeviceInv, currentProcess \in Pcb, io[currentProcess] = NULL,
         sysSendToNorthKorea
  PROVE  Untouched
<1> DEFINE dead == Family(currentProcess)
<1>1. /\ pcbFree' = pcbFree \cup dead
      /\ pcb_semAdd' = [p \in Pcb |-> IF p \in dead THEN NULL ELSE pcb_semAdd[p]]
      /\ sem' = [a \in SemAdds |->
                   IF countedAsSoft(a) THEN sem[a]
                   ELSE sem[a] + Cardinality({p \in dead : pcb_semAdd[p] = a})]
      /\ io' = [p \in Pcb |-> IF p \in dead THEN NULL ELSE io[p]]
      /\ UNCHANGED devStatus
  BY DEF sysSendToNorthKorea, executeOrderSixtySix
<1> HIDE DEF dead
<1>2. \A a \in DeviceSems : a \in SemAdds /\ countedAsSoft(a)
  BY SemAddsFacts, SemAssumption, DevPerIntAssumption
     DEF countedAsSoft, DeviceSems, TOTALSEM
<1>3. NULL \notin DeviceSems
  BY SemAddsFacts, SemAssumption
<1>4. \A p \in Pcb : io[p] \notin IoMasked
  BY NobodyMasked DEF DeviceInv
<1> QED BY <1>1, <1>2, <1>3, <1>4 DEF Untouched

LEMMA CallUntouched ==
  ASSUME Inv, DeviceInv, sysCallHandler
  PROVE  Untouched
<1>1. /\ currentProcess \in Pcb /\ io[currentProcess] = NULL
      /\ pcb_semAdd \in [Pcb -> SemAdds \cup {NULL}] /\ sem \in [SemAdds -> Int]
      /\ pcb_semAdd[currentProcess] = NULL
  BY DEF sysCallHandler, executing, Inv, TypeOK, ProcessPartition
<1>2. NULL \notin DeviceSems /\ DeviceSems \subseteq SemAdds
      /\ ClockSem \notin DeviceSems /\ \A a \in UserSems : a \notin DeviceSems
  BY SemAddsFacts, SoftAddresses, SemAssumption
<1>3. \A p \in Pcb : io[p] \notin IoMasked
  BY <1>1, NobodyMasked DEF DeviceInv
<1>4. ASSUME NEW a \in SemAdds, a \notin DeviceSems,
             sem' = [sem EXCEPT ![a] = @ - 1],
             \/ insertBlocked(a, currentProcess)
             \/ UNCHANGED pcb_semAdd,
             UNCHANGED <<devStatus, io>>
      PROVE  Untouched
  <2>1. \/ pcb_semAdd' = pcb_semAdd
        \/ pcb_semAdd' = [pcb_semAdd EXCEPT ![currentProcess] = a]
    BY <1>4 DEF insertBlocked
  <2> QED BY <1>1, <1>2, <1>3, <1>4, <2>1 DEF Untouched
<1>5. CASE sysCreate
  <2>1. ASSUME NEW p \in pcbFree, allocPcb(p),
               UNCHANGED <<mode, currentProcess, expired, softBlockCount, sem, s_procQ,
                           hardware>>
        PROVE  Untouched
    <3>1. p \in Pcb /\ pcb_semAdd[p] = NULL
      BY DEF Inv, TypeOK, ProcessPartition
    <3> QED BY <1>1, <1>3, <2>1, <3>1 DEF Untouched, allocPcb, hardware
  <2> QED BY <1>3, <1>5, <2>1 DEF sysCreate, Untouched, vars, blocking, hardware
<1>6. CASE sysSendToNorthKorea
  BY <1>1, <1>6, KillUntouched
<1>7. ASSUME NEW a \in UserSems, sysSignal(a) PROVE Untouched
  <2>1. a \in SemAdds /\ a \notin DeviceSems
    BY <1>2, SemAddsFacts
  <2>2. sem' = [sem EXCEPT ![a] = @ + 1] /\ UNCHANGED hardware
    BY <1>7 DEF sysSignal
  <2>3. \A p \in Pcb : pcb_semAdd'[p] = pcb_semAdd[p]
                       \/ (pcb_semAdd'[p] = NULL /\ pcb_semAdd[p] = a)
    <3>1. CASE wakesOne(a)
      <4> DEFINE first == Head(s_procQ[a])
      <4>1. s_procQ[a] # <<>> /\ pcb_semAdd' = [pcb_semAdd EXCEPT ![first] = NULL]
        BY <1>7, <3>1 DEF sysSignal, wakesOne, removeBlocked, ASL
      <4>2. s_procQ[a] \in Seq(Pcb) /\ Range(s_procQ[a]) = {p \in Pcb : pcb_semAdd[p] = a}
        BY <2>1 DEF Inv, TypeOK, ProcessPartition, blockedOn
      <4>3. first \in Range(s_procQ[a])
        BY <4>1, <4>2, RemoveProperties
      <4>4. first \in Pcb /\ pcb_semAdd[first] = a
        BY <4>2, <4>3
      <4> HIDE DEF first
      <4> QED BY <1>1, <4>1, <4>4
    <3>2. CASE ~wakesOne(a)
      BY <1>7, <3>2 DEF sysSignal
    <3> QED BY <3>1, <3>2
  <2> QED BY <1>1, <1>2, <1>3, <2>1, <2>2, <2>3 DEF Untouched, hardware
<1>8. ASSUME NEW a \in UserSems, sysWait(a) PROVE Untouched
  <2>1. a \in SemAdds /\ a \notin DeviceSems
    BY <1>2, SemAddsFacts
  <2>2. /\ sem' = [sem EXCEPT ![a] = @ - 1] /\ UNCHANGED <<devStatus, io>>
        /\ insertBlocked(a, currentProcess) \/ UNCHANGED pcb_semAdd
    BY <1>8 DEF sysWait, hardware
  <2> QED BY <1>4, <2>1, <2>2
<1>9. ASSUME NEW type \in Handled, sysBYOL(type) PROVE Untouched
  <2>1. CASE sysSendToNorthKorea
    BY <1>1, <2>1, KillUntouched
  <2>2. CASE resume /\ UNCHANGED <<pcbFree, pcb_parent, blocking, hardware>>
    BY <1>3, <2>2 DEF Untouched, blocking, hardware
  <2> QED BY <1>9, <2>1, <2>2 DEF sysBYOL
<1>10. CASE sysWaitForClock
  <2>1. /\ sem' = [sem EXCEPT ![ClockSem] = @ - 1] /\ UNCHANGED <<devStatus, io>>
        /\ insertBlocked(ClockSem, currentProcess) \/ UNCHANGED pcb_semAdd
    BY <1>10 DEF sysWaitForClock, hardware
  <2> QED BY <1>2, <1>4, <2>1, SemAddsFacts
<1> QED BY <1>5, <1>6, <1>7, <1>8, <1>9, <1>10 DEF sysCallHandler

LEMMA IntervalUntouched ==
  ASSUME Inv, DeviceInv, IntervalTimer
  PROVE  Untouched
<1> DEFINE woken == IF headBlocked(s_procQ, ClockSem) = NULL THEN <<>>
                    ELSE s_procQ[ClockSem]
<1>1. /\ sem \in [SemAdds -> Int]
      /\ Range(s_procQ[ClockSem]) = {p \in Pcb : pcb_semAdd[p] = ClockSem}
  BY SemAddsFacts DEF Inv, TypeOK, ProcessPartition, blockedOn
<1>2. NULL \notin DeviceSems /\ DeviceSems \subseteq SemAdds /\ ClockSem \notin DeviceSems
  BY SemAddsFacts, SemAssumption
<1>3. /\ pcb_semAdd' = [p \in Pcb |-> IF p \in Range(woken) THEN NULL
                                      ELSE pcb_semAdd[p]]
      /\ UNCHANGED hardware /\ interruptible
      /\ sem' = [sem EXCEPT ![ClockSem] = 0] \/ UNCHANGED sem
  BY DEF IntervalTimer
<1>4. \A p \in Range(woken) : pcb_semAdd[p] = ClockSem
  <2>1. Range(<<>>) = {}
    BY DEF Range
  <2> QED BY <1>1, <2>1
<1> HIDE DEF woken
<1>5. \A p \in Pcb : io[p] \notin IoMasked
  BY <1>3, NobodyMasked DEF DeviceInv
<1> QED BY <1>1, <1>2, <1>3, <1>4, <1>5 DEF Untouched, hardware

(***************************************************************************)
(* What the steps are, as far as devices are concerned.                    *)
(***************************************************************************)
LEMMA DeviceSteps ==
  ASSUME Inv, DeviceInv, [Next]_vars
  PROVE  \/ Untouched
         \/ \E d \in Devices : StartIO(d)
         \/ \E d \in Devices : DeviceDone(d)
         \/ \E d \in Devices : executing /\ io[currentProcess] = d /\ sysGoPowerRangers(d)
         \/ DeviceInterrupt
<1>1. CASE QuantumExpired
  <2>1. interruptible /\ UNCHANGED <<blocking, hardware>>
    BY <1>1 DEF QuantumExpired
  <2>2. \A p \in Pcb : io[p] \notin IoMasked
    BY <2>1, NobodyMasked DEF DeviceInv
  <2> QED BY <2>1, <2>2 DEF Untouched, blocking, hardware
<1>2. CASE Trap
  <2>1. /\ io[currentProcess] = NULL /\ UNCHANGED <<blocking, hardware>>
    BY <1>2 DEF Trap, pullUpAndDie, vars
  <2>2. \A p \in Pcb : io[p] \notin IoMasked
    BY <2>1, NobodyMasked DEF DeviceInv
  <2> QED BY <2>1, <2>2 DEF Untouched, blocking, hardware
<1>3. CASE QuantumEndsMasked
  BY <1>3 DEF QuantumEndsMasked, Untouched, blocking, hardware
<1>4. CASE UNCHANGED vars
  BY <1>4 DEF vars, Untouched, blocking, hardware
<1> QED BY <1>1, <1>2, <1>3, <1>4, CallUntouched, IntervalUntouched
        DEF Next, Stopped, waitForIO

LEMMA StepDevices ==
  ASSUME Manageable
  PROVE  Inv /\ DeviceInv /\ [Next]_vars => DeviceInv'
BY DeviceSteps, UntouchedDevices, StartDevices, DoneDevices, WaitDevices, InterruptDevices

-----------------------------------------------------------------------------
(***************************************************************************)
(* The scheduler's choice, as long as the processor stays stopped or waits.*)
(***************************************************************************)
Verdict ==
  mode \in {"halt", "panic", "wait", "return"} =>
    /\ currentProcess = NULL /\ readyQueue = <<>>
    /\ mode = "halt" => processCount = 0
    /\ mode = "panic" => processCount > 0 /\ softBlockCount = 0
    /\ mode = "wait" => processCount > 0 /\ softBlockCount > 0
    /\ mode = "return" => processCount < 0 \/ softBlockCount < 0

LEMMA SchedulerVerdict ==
  ASSUME NEW ready, NEW n \in Int, NEW s \in Int, scheduler(ready, n, s)
  PROVE  Verdict'
<1>1. CASE ready # <<>>
  BY <1>1 DEF scheduler, Verdict
<1>2. CASE ready = <<>>
  <2>1. /\ currentProcess' = NULL /\ readyQueue' = <<>>
        /\ processCount' = n /\ softBlockCount' = s
    BY <1>2 DEF scheduler
  <2>2. mode' = CASE n = 0 -> "halt"
                  [] n > 0 /\ s = 0 -> "panic"
                  [] n > 0 /\ s > 0 -> "wait"
                  [] OTHER -> "return"
    BY <1>2 DEF scheduler
  <2>3. CASE n = 0
    BY <2>1, <2>2, <2>3 DEF Verdict
  <2>4. CASE n > 0 /\ s = 0
    BY <2>1, <2>2, <2>4 DEF Verdict
  <2>5. CASE n > 0 /\ s > 0
    BY <2>1, <2>2, <2>5 DEF Verdict
  <2>6. CASE n < 0 \/ (n > 0 /\ s < 0)
    <3>1. mode' = "return"
      BY <2>2, <2>6
    <3> QED BY <2>1, <2>6, <3>1 DEF Verdict
  <2> QED BY <2>3, <2>4, <2>5, <2>6
<1> QED BY <1>1, <1>2

LEMMA FinishVerdict ==
  ASSUME NEW ready, NEW s \in Int, processCount \in Int, finish(ready, s)
  PROVE  Verdict'
BY SchedulerVerdict DEF finish

LEMMA KillVerdict ==
  ASSUME Inv, currentProcess \in Pcb, sysSendToNorthKorea
  PROVE  Verdict'
<1> DEFINE dead == Family(currentProcess)
           soft == {p \in dead : countedAsSoft(pcb_semAdd[p])}
           n == processCount - Cardinality(dead)
           s == softBlockCount - Cardinality(soft)
<1>1. scheduler(outProcQ(readyQueue, dead), n, s)
  BY DEF sysSendToNorthKorea
<1>2. dead \in SUBSET Pcb /\ soft \in SUBSET Pcb
  BY FamilyFacts
<1>3. processCount \in Int /\ softBlockCount \in Int
  BY DEF Inv, TypeOK
<1> HIDE DEF dead, soft
<1>4. n \in Int /\ s \in Int
  BY <1>2, <1>3, CardinalityOfPcbs
<1> HIDE DEF n, s
<1> QED BY <1>1, <1>4, SchedulerVerdict

LEMMA InitVerdict == Init => Verdict
BY DEF Init, Verdict

LEMMA StepVerdict == Inv /\ Verdict /\ [Next]_vars => Verdict'
<1> SUFFICES ASSUME Inv, Verdict, [Next]_vars PROVE Verdict'
  OBVIOUS
<1>1. /\ processCount \in Int /\ softBlockCount \in Int
      /\ softBlockCount + 1 \in Int /\ softBlockCount - 1 \in Int
      /\ executing => mode = "run" /\ currentProcess \in Pcb
  BY DEF Inv, TypeOK, executing
<1>2. ASSUME resume PROVE Verdict'
  BY <1>2 DEF resume, counts, Verdict
<1>3. ASSUME mode' \in {"run", "hang"} PROVE Verdict'
  BY <1>3 DEF Verdict
<1>4. CASE sysCallHandler
  <2>1. mode = "run" /\ currentProcess \in Pcb
    BY <1>1, <1>4 DEF sysCallHandler
  <2>2. CASE sysCreate
    BY <1>3, <2>1, <2>2 DEF sysCreate, vars
  <2>3. CASE sysSendToNorthKorea
    BY <2>1, <2>3, KillVerdict
  <2>4. ASSUME NEW a \in UserSems, sysSignal(a) PROVE Verdict'
    BY <1>3, <2>1, <2>4 DEF sysSignal
  <2>5. ASSUME NEW a \in UserSems, sysWait(a) PROVE Verdict'
    BY <1>1, <1>2, <2>5, SchedulerVerdict DEF sysWait
  <2>6. ASSUME NEW type \in Handled, sysBYOL(type) PROVE Verdict'
    BY <1>2, <2>1, <2>6, KillVerdict DEF sysBYOL
  <2>7. CASE sysWaitForClock
    BY <1>1, <2>7, SchedulerVerdict DEF sysWaitForClock
  <2> QED BY <1>4, <2>2, <2>3, <2>4, <2>5, <2>6, <2>7 DEF sysCallHandler
<1>5. CASE waitForIO
  BY <1>1, <1>2, <1>5, SchedulerVerdict DEF waitForIO, sysGoPowerRangers
<1>6. CASE Trap
  <2>1. mode' \in {mode, "hang"} /\ mode = "run"
    BY <1>1, <1>6 DEF Trap, pullUpAndDie, vars
  <2> QED BY <1>3, <2>1
<1>7. CASE QuantumExpired
  BY <1>1, <1>7, FinishVerdict DEF QuantumExpired
<1>8. CASE QuantumEndsMasked
  BY <1>3, <1>8 DEF QuantumEndsMasked
<1>9. CASE IntervalTimer
  <2> DEFINE woken == IF headBlocked(s_procQ, ClockSem) = NULL THEN <<>>
                      ELSE s_procQ[ClockSem]
             s == softBlockCount - Len(woken)
  <2>1. finish(readyQueue \o woken, s) \/ mode' = "hang"
    BY <1>9 DEF IntervalTimer
  <2>2. s \in Int
    <3>1. s_procQ[ClockSem] \in Seq(Pcb)
      BY SemAddsFacts DEF Inv, TypeOK
    <3>2. woken \in Seq(Pcb)
      BY <3>1
    <3> HIDE DEF woken
    <3> QED BY <1>1, <3>2
  <2> HIDE DEF woken, s
  <2> QED BY <1>1, <1>3, <2>1, <2>2, FinishVerdict
<1>10. CASE DeviceInterrupt
  <2>1. \E ready : \E s \in Int : finish(ready, s)
    BY <1>1, <1>10 DEF DeviceInterrupt
  <2> QED BY <1>1, <2>1, FinishVerdict
<1>11. ASSUME NEW d \in Devices, StartIO(d) \/ DeviceDone(d) PROVE Verdict'
  BY <1>2, <1>11 DEF StartIO, DeviceDone
<1>12. CASE UNCHANGED vars
  BY <1>2, <1>12 DEF vars, resume
<1> QED BY <1>4, <1>5, <1>6, <1>7, <1>8, <1>9, <1>10, <1>11, <1>12 DEF Next, Stopped

(***************************************************************************)
(* The counts being exact, the scheduler's choice is right.                *)
(***************************************************************************)
LEMMA VerdictJustified ==
  ASSUME Inv, Genealogy, SoftBlockExact, DeviceInv, Verdict
  PROVE  StopIsJustified
<1>1. /\ processCount = Cardinality(Live) /\ softBlockCount = Cardinality(softBlocked)
      /\ Live \in SUBSET Pcb /\ softBlocked \in SUBSET Pcb
  BY DEF Genealogy, ProcessCountExact, SoftBlockExact, Live, softBlocked
<1>2. /\ processCount \in Nat /\ softBlockCount \in Nat
      /\ processCount = 0 <=> Live = {}
      /\ softBlockCount = 0 <=> softBlocked = {}
  BY <1>1, Constants, FS_Subset, FS_CardinalityType, FS_EmptySet
<1>3. mode # "return"
  BY <1>2 DEF Verdict
<1>4. mode = "halt" => Live = {}
  BY <1>2 DEF Verdict
<1>5. mode = "panic" => Live # {} /\ \A p \in Live : pcb_semAdd[p] \in UserSems
  <2> SUFFICES ASSUME mode = "panic"
               PROVE  Live # {} /\ \A p \in Live : pcb_semAdd[p] \in UserSems
    OBVIOUS
  <2>1. /\ currentProcess = NULL /\ readyQueue = <<>> /\ Live # {} /\ softBlocked = {}
    BY <1>2 DEF Verdict
  <2>2. ASSUME NEW p \in Live PROVE pcb_semAdd[p] \in UserSems
    <3>1. p \in Pcb /\ p \notin pcbFree /\ p # currentProcess
      BY <2>1, Constants DEF Live
    <3>2. p \notin Range(readyQueue)
      BY <2>1 DEF Range
    <3>3. pcb_semAdd[p] \in SemAdds
      BY <3>1, <3>2 DEF Inv, TypeOK, ProcessPartition
    <3>4. pcb_semAdd[p] \notin DeviceOrClockSems
      BY <2>1, <3>1 DEF softBlocked
    <3> QED BY <3>3, <3>4 DEF SemAdds, DeviceOrClockSems
  <2> QED BY <2>1, <2>2
<1>6. ASSUME mode = "wait"
      PROVE  \/ blockedOn(ClockSem) # {}
             \/ \E d \in Devices : blockedOn(semIndex(d)) # {} /\ devStatus[d] # "READY"
  <2>1. PICK p \in Pcb : pcb_semAdd[p] \in DeviceOrClockSems
    BY <1>2, <1>6 DEF Verdict, softBlocked
  <2>2. pcb_semAdd[p] = ClockSem \/ pcb_semAdd[p] \in DeviceSems
    BY <2>1, DevPerIntAssumption DEF DeviceOrClockSems, ClockSem, DeviceSems, TOTALSEM
  <2>3. CASE pcb_semAdd[p] = ClockSem
    BY <2>3 DEF blockedOn
  <2>4. CASE pcb_semAdd[p] \in DeviceSems
    <3>1. PICK d \in Devices : pcb_semAdd[p] = semIndex(d)
      BY <2>4 DEF DeviceInv, Installed
    <3>2. devStatus[d] # "READY"
      BY <3>1 DEF DeviceInv, Consistent
    <3> QED BY <3>1, <3>2 DEF blockedOn
  <2> QED BY <2>2, <2>3, <2>4
<1> QED BY <1>3, <1>4, <1>5, <1>6 DEF StopIsJustified

-----------------------------------------------------------------------------
(***************************************************************************)
(* The theorems.  What the semaphore of a device says of the device holds  *)
(* in every reachable state.                                               *)
(***************************************************************************)
THEOREM DeviceInvariance ==
  ASSUME Manageable
  PROVE  Spec => []DeviceInv
BY InitDevices, StepDevices, Invariance, PTL DEF Spec

(***************************************************************************)
(* No completion is lost: whoever is blocked on a device has its operation *)
(* under way or its interrupt still to come.                               *)
(***************************************************************************)
THEOREM DeviceWaitHasIOCorrect ==
  ASSUME Manageable
  PROVE  Spec => []DeviceWaitHasIO
<1>1. ASSUME DeviceInv PROVE DeviceWaitHasIO
  BY <1>1 DEF DeviceInv, Consistent, DeviceWaitHasIO, blockedOn
<1> QED BY <1>1, DeviceInvariance, PTL

(***************************************************************************)
(* With interrupts off from command to SYS8, a device semaphore is -1      *)
(* exactly while an operation somebody waits for is unfinished, and 0      *)
(* otherwise, whoever was killed meanwhile.                                *)
(***************************************************************************)
THEOREM DeviceSemMatchesIOCorrect ==
  ASSUME Manageable
  PROVE  Spec => []DeviceSemMatchesIO
<1>1. ASSUME DeviceInv PROVE DeviceSemMatchesIO
  BY <1>1, ModeAssumption DEF DeviceInv, Consistent, DeviceSemMatchesIO
<1> QED BY <1>1, DeviceInvariance, PTL

(***************************************************************************)
(* An interrupt performs its V on the semaphore of the device that was     *)
(* interrupting, and acknowledges that device.                             *)
(***************************************************************************)
THEOREM InterruptServesCorrect ==
  ASSUME Manageable
  PROVE  Spec => InterruptServesInterruptingDevice
<1> DEFINE Right == \A a \in DeviceSems : sem'[a] > sem[a] =>
             \E d \in Devices : /\ semIndex(d) = a
                                /\ devStatus[d] = "DONE" /\ devStatus'[d] = "READY"
<1>1. Inv /\ DeviceInv /\ [Next]_vars => [Right]_vars
  <2> SUFFICES ASSUME Inv, DeviceInv, [Next]_vars PROVE Right
    OBVIOUS
  <2>1. sem \in [SemAdds -> Int] /\ DeviceSems \subseteq SemAdds
    BY SemAddsFacts DEF Inv, TypeOK
  <2>2. CASE Untouched
    BY <2>1, <2>2 DEF Untouched
  <2>3. ASSUME NEW d \in Devices, StartIO(d) \/ DeviceDone(d) PROVE Right
    BY <2>1, <2>3 DEF StartIO, DeviceDone, blocking
  <2>4. ASSUME NEW d \in Devices, sysGoPowerRangers(d) PROVE Right
    <3>1. semIndex(d) \in SemAdds /\ sem' = [sem EXCEPT ![semIndex(d)] = @ - 1]
      BY <2>4, DeviceSemIndex, SemAddsFacts DEF sysGoPowerRangers
    <3>2. \A a \in DeviceSems : sem'[a] = sem[a] \/ sem'[a] = sem[a] - 1
      BY <2>1, <3>1
    <3> QED BY <2>1, <3>2
  <2>5. CASE DeviceInterrupt
    <3>1. PICK d \in Devices : /\ d = servedDevice /\ devStatus[d] = "DONE"
                               /\ acknowledged(d) = d
      BY <2>5, ServedIsPending DEF DeviceInterrupt, DeviceInv
    <3>2. /\ sem' = [sem EXCEPT ![semIndex(d)] = @ + 1]
          /\ devStatus' = [e \in Devices |-> IF e = d /\ e \in pending THEN "READY"
                                             ELSE devStatus[e]]
      BY <2>5, <3>1 DEF DeviceInterrupt
    <3>3. devStatus'[d] = "READY"
      BY <3>1, <3>2 DEF pending
    <3>4. \A a \in DeviceSems : a # semIndex(d) => sem'[a] = sem[a]
      BY <2>1, <3>2
    <3> QED BY <2>1, <3>1, <3>3, <3>4
  <2> QED BY <2>2, <2>3, <2>4, <2>5, DeviceSteps
<1> QED BY <1>1, Invariance, DeviceInvariance, PTL
        DEF Spec, InterruptServesInterruptingDevice

(***************************************************************************)
(* SYS8 returns only when the operation has completed: who was blocked is  *)
(* woken by the interrupt of that device, and with interrupts off since    *)
(* the command nobody passes while the device is busy.                     *)
(***************************************************************************)
THEOREM IoCompletesCorrect ==
  ASSUME Manageable
  PROVE  Spec => IoCompletesBeforeReturn
<1> DEFINE Completed(p, d) ==
             /\ pcb_semAdd[p] = semIndex(d) /\ pcb_semAdd'[p] = NULL =>
                  devStatus[d] = "DONE" /\ devStatus'[d] = "READY"
             /\ io[p] = d /\ io'[p] = NULL /\ d \in IoMasked =>
                  pcb_semAdd'[p] = semIndex(d) \/ devStatus[d] # "BUSY"
           Right == \A p \in Pcb, d \in Devices : p \notin pcbFree' => Completed(p, d)
<1>1. Inv /\ DeviceInv /\ [Next]_vars => [Right]_vars
  <2> SUFFICES ASSUME Inv, DeviceInv, [Next]_vars,
                      NEW p \in Pcb, NEW d \in Devices, p \notin pcbFree'
               PROVE  Completed(p, d)
    OBVIOUS
  <2>1. semIndex(d) \in DeviceSems /\ semIndex(d) # NULL /\ d # NULL
        /\ semIndex(d) \in SemAdds
    BY DeviceSemIndex, SemAddsFacts, SemAssumption, DeviceAssumption
  <2>2. /\ pcb_semAdd \in [Pcb -> SemAdds \cup {NULL}] /\ sem \in [SemAdds -> Int]
        /\ io \in [Pcb -> Devices \cup {NULL}]
    BY DEF Inv, TypeOK
  <2>3. CASE Untouched
    <3>1. pcb_semAdd'[p] = pcb_semAdd[p] \/ pcb_semAdd[p] \notin DeviceSems
      BY <2>3 DEF Untouched
    <3>2. io'[p] = io[p]
      BY <2>3 DEF Untouched
    <3> QED BY <2>1, <3>1, <3>2
  <2>4. ASSUME NEW e \in Devices, StartIO(e) \/ DeviceDone(e) PROVE Completed(p, d)
    <3>1. /\ pcb_semAdd' = pcb_semAdd
          /\ io' = io \/ io' = [io EXCEPT ![currentProcess] = e]
      BY <2>4 DEF StartIO, DeviceDone, blocking
    <3>2. io'[p] = io[p] \/ io'[p] = e
      BY <2>2, <3>1
    <3> QED BY <2>1, <3>1, <3>2, DeviceAssumption
  <2>5. ASSUME NEW e \in Devices, executing, io[currentProcess] = e, sysGoPowerRangers(e)
        PROVE  Completed(p, d)
    <3>1. /\ currentProcess \in Pcb /\ semIndex(e) \in SemAdds
          /\ io' = [io EXCEPT ![currentProcess] = NULL]
      BY <2>5, DeviceSemIndex, SemAddsFacts DEF executing, Inv, TypeOK, sysGoPowerRangers
    <3>2. \/ pcb_semAdd' = pcb_semAdd
          \/ pcb_semAdd' = [pcb_semAdd EXCEPT ![currentProcess] = semIndex(e)]
      BY <2>5 DEF sysGoPowerRangers, insertBlocked
    <3>3. pcb_semAdd'[p] = pcb_semAdd[p] \/ pcb_semAdd'[p] # NULL
      BY <2>2, <3>1, <3>2, Constants
    <3>4. ASSUME io[p] = d, io'[p] = NULL, d \in IoMasked
          PROVE  pcb_semAdd'[p] = semIndex(d)
      <4>1. p = currentProcess /\ e = d
        BY <2>1, <2>2, <2>5, <3>1, <3>4
      <4>2. sem[semIndex(d)] = 0
        BY <3>4 DEF DeviceInv, Consistent
      <4>3. sem[semIndex(e)] - 1 < 0
        BY <4>1, <4>2
      <4>4. pcb_semAdd' = [pcb_semAdd EXCEPT ![currentProcess] = semIndex(e)]
        BY <2>5, <3>1, <4>3, DescriptorLeft DEF sysGoPowerRangers
      <4> QED BY <2>2, <4>1, <4>4
    <3> QED BY <2>1, <3>3, <3>4
  <2>6. CASE DeviceInterrupt
    <3>1. PICK e \in Devices : /\ e = servedDevice /\ devStatus[e] = "DONE"
                               /\ acknowledged(e) = e
      BY <2>6, ServedIsPending DEF DeviceInterrupt, DeviceInv
    <3>2. /\ devStatus' = [x \in Devices |-> IF x = e /\ x \in pending THEN "READY"
                                             ELSE devStatus[x]]
          /\ io' = io
      BY <2>6, <3>1 DEF DeviceInterrupt
    <3>3. devStatus'[e] = "READY"
      BY <3>1, <3>2 DEF pending
    <3>4. pcb_semAdd'[p] = pcb_semAdd[p] \/ pcb_semAdd[p] = semIndex(e)
      BY <2>6, <3>1, InterruptWakes
    <3>5. pcb_semAdd[p] = semIndex(d) /\ pcb_semAdd[p] = semIndex(e) => d = e
      BY SemIndexInjective
    <3> QED BY <2>1, <3>1, <3>2, <3>3, <3>4, <3>5
  <2> HIDE DEF Completed
  <2> QED BY <2>3, <2>4, <2>5, <2>6, DeviceSteps
<1> QED BY <1>1, Invariance, DeviceInvariance, PTL DEF Spec, IoCompletesBeforeReturn

LEMMA VerdictInvariance == Spec => []Verdict
BY InitVerdict, StepVerdict, Invariance, PTL DEF Spec

(***************************************************************************)
(* HALT comes when nobody is left, PANIC when all that are left wait for   *)
(* each other, WAIT when an interrupt is to come for somebody; and the     *)
(* scheduler does not return.  It takes the exactness of both counts.      *)
(***************************************************************************)
THEOREM StopIsJustifiedCorrect ==
  ASSUME Manageable, TOTALSEM \notin UserSems
  PROVE  Spec => []StopIsJustified
BY VerdictJustified, VerdictInvariance, DeviceInvariance, SoftBlockCorrect,
   GenealogyInvariance, Invariance, PTL
=============================================================================
