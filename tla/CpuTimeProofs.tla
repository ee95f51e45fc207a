--------------------------- MODULE CpuTimeProofs ---------------------------
(***************************************************************************)
(* The accounting of the time processes run is exact, for a clock of any   *)
(* width that counts microseconds.                                         *)
(***************************************************************************)
EXTENDS CpuTime, NucleusProofs

\* A clock whose readings are not divided.  That a power of two is positive is
\* arithmetic, but an induction, which the provers cannot do.
UnitClock == TIMESCALE = 1 /\ 2^WIDTH \in Nat \ {0}

Reading == 0 .. 2^WIDTH - 1

(***************************************************************************)
(* Arithmetic modulo the range of the clock.                               *)
(***************************************************************************)
LEMMA RemainderIs ==
  ASSUME NEW m \in Int, m > 0, NEW x \in Int
  PROVE  x % m = x - m * (x \div m) /\ x \div m \in Int /\ x % m \in 0 .. m - 1
<1>1. x % m = x - m * (x \div m)
  OBVIOUS
<1>2. x \div m \in Int /\ x % m \in 0 .. m - 1
  OBVIOUS
<1> QED BY <1>1, <1>2

LEMMA RemainderUnique ==
  ASSUME NEW m \in Int, m > 0, NEW a \in 0 .. m - 1, NEW b \in 0 .. m - 1,
         NEW k \in Int, a = b + k * m
  PROVE  a = b
<1>1. CASE k = 0
  BY <1>1
<1>2. CASE k >= 1
  <2>1. k * m >= m
    BY <1>2
  <2> QED BY <2>1
<1>3. CASE k <= -1
  <2>1. k * m <= -m
    BY <1>3
  <2> QED BY <2>1
<1> QED BY <1>1, <1>2, <1>3

LEMMA WrapRange ==
  ASSUME UnitClock
  PROVE  /\ \A x \in Int : Wrap(x) \in Reading
         /\ \A x \in Reading : Wrap(x) = x /\ x \in Int
<1>1. 2^WIDTH \in Int /\ 2^WIDTH > 0
  BY DEF UnitClock
<1> DEFINE m == 2^WIDTH
<1> HIDE DEF m
<1>2. \A x \in Int : x % m \in 0 .. m - 1
  BY <1>1, RemainderIs DEF m
<1>3. \A x \in 0 .. m - 1 : x % m = x /\ x \in Int
  BY <1>1 DEF m
<1> QED BY <1>2, <1>3 DEF Wrap, Reading, m

LEMMA Multiples ==
  ASSUME NEW m \in Int, NEW i \in Int, NEW j \in Int, NEW k \in Int,
         NEW x \in Int, NEW y \in Int, NEW a \in Int, NEW b \in Int,
         x = y + k * m, a = x - m * i, b = y - m * j
  PROVE  a = b + ((k + j) - i) * m
<1> DEFINE n == k + j
<1>1. n \in Int /\ (n - i) * m = n * m - i * m /\ n * m = k * m + j * m
  OBVIOUS
<1>2. k * m \in Int /\ m * i = i * m /\ m * j = j * m /\ i * m \in Int /\ j * m \in Int
  OBVIOUS
<1> QED BY <1>1, <1>2

\* Numbers that differ by a multiple of the range are the same reading.
LEMMA SameReading ==
  ASSUME UnitClock, NEW x \in Int, NEW y \in Int, NEW k \in Int, x = y + k * 2^WIDTH
  PROVE  Wrap(x) = Wrap(y)
<1>1. 2^WIDTH \in Int /\ 2^WIDTH > 0
  BY DEF UnitClock
<1> DEFINE m == 2^WIDTH
           i == x \div m
           j == y \div m
           a == x % m
           b == y % m
<1> HIDE DEF m
<1>2. /\ a = x - m * i /\ i \in Int /\ a \in 0 .. m - 1
      /\ b = y - m * j /\ j \in Int /\ b \in 0 .. m - 1
  BY <1>1, RemainderIs DEF m
<1>3. x = y + k * m /\ m \in Int /\ m > 0
  BY <1>1 DEF m
<1> HIDE DEF i, j, a, b
<1>4. a = b + ((k + j) - i) * m
  <2>1. a \in Int /\ b \in Int
    BY <1>2, <1>3
  <2> QED BY <1>2, <1>3, <2>1, Multiples
<1>5. a = b
  <2> DEFINE n == (k + j) - i
  <2>1. n \in Int
    BY <1>2
  <2>2. a = b + n * m
    BY <1>4
  <2> HIDE DEF n
  <2> QED BY <1>2, <1>3, <2>1, <2>2, RemainderUnique
<1> QED BY <1>5 DEF Wrap, m, a, b

LEMMA WrapDiffers ==
  ASSUME UnitClock, NEW x \in Int
  PROVE  \E k \in Int : Wrap(x) = x + k * 2^WIDTH
<1>1. 2^WIDTH \in Int /\ 2^WIDTH > 0
  BY DEF UnitClock
<1> DEFINE m == 2^WIDTH
           i == x \div m
<1> HIDE DEF m
<1>2. x % m = x - m * i /\ i \in Int /\ m \in Int
  BY <1>1, RemainderIs DEF m
<1> HIDE DEF i
<1>3. x % m = x + (-i) * m /\ -i \in Int
  BY <1>2
<1> QED BY <1>3 DEF Wrap, m

\* A reading may be replaced by what it is the reading of, within another.
LEMMA WrapOfSum ==
  ASSUME UnitClock, NEW x \in Int, NEW y \in Int
  PROVE  /\ Wrap(Wrap(x) + y) = Wrap(x + y)
         /\ Wrap(y - Wrap(x)) = Wrap(y - x)
<1>1. PICK k \in Int : Wrap(x) = x + k * 2^WIDTH
  BY WrapDiffers
<1>2. 2^WIDTH \in Int
  BY DEF UnitClock
<1> DEFINE m == 2^WIDTH
           w == Wrap(x)
<1>3. m \in Int /\ w = x + k * m
  BY <1>1, <1>2
<1> HIDE DEF m, w
<1>4. /\ w + y = (x + y) + k * m /\ w + y \in Int /\ x + y \in Int
      /\ y - w = (y - x) + (-k) * m /\ y - w \in Int /\ y - x \in Int
  BY <1>3
<1>5. Wrap(w + y) = Wrap(x + y)
  BY <1>4, SameReading DEF m
<1>6. Wrap(y - w) = Wrap(y - x)
  BY <1>4, SameReading DEF m
<1> QED BY <1>5, <1>6 DEF w

LEMMA STCKReads == ASSUME UnitClock, NEW t \in Reading PROVE STCK(t) = t
<1>1. 2^WIDTH \in Int
  BY DEF UnitClock
<1> DEFINE m == 2^WIDTH
<1>2. t \in Int /\ t \div 1 = t /\ (m - t) \div 1 = m - t /\ Wrap(t) = t
  BY <1>1, WrapRange DEF Reading
<1>3. Wrap(-(m - t)) = t
  <2> HIDE DEF m
  <2>1. -(m - t) \in Int /\ -(m - t) = t + (-1) * m
    BY <1>1, <1>2 DEF m
  <2> QED BY <1>2, <2>1, SameReading DEF m
<1> QED BY <1>2, <1>3 DEF STCK, UnitClock

-----------------------------------------------------------------------------
(***************************************************************************)
(* The inductive invariant: the clock and the bills are readings, and the  *)
(* bills are exact.                                                        *)
(***************************************************************************)
TimeTypes ==
  /\ tod \in Reading /\ TODStarted \in Reading
  /\ pcb_time \in [Pcb -> Reading]
  /\ due \in [Pcb -> Reading]

TimeInv == TimeTypes /\ RunTimeBilled

\* What p has been billed and will be for what it has run since.
Owed(p) == pcb_time[p] + IF p = currentProcess THEN tod - TODStarted ELSE 0

LEMMA ExactNow ==
  ASSUME UnitClock, TimeTypes
  PROVE  RunTimeBilled <=> \A p \in Live : due[p] = Wrap(Owed(p))
<1>1. STCK(tod) = tod
  BY STCKReads DEF TimeTypes
<1> QED BY <1>1 DEF RunTimeBilled, Owed

LEMMA ExactNext ==
  ASSUME UnitClock, TimeTypes'
  PROVE  RunTimeBilled' <=> \A p \in Live' : due'[p] = Wrap(Owed(p)')
<1>1. STCK(tod') = tod'
  BY STCKReads DEF TimeTypes
<1> QED BY <1>1 DEF RunTimeBilled, Owed

LEMMA ReadingsNow ==
  ASSUME UnitClock, TimeTypes
  PROVE  /\ tod \in Int /\ TODStarted \in Int
         /\ \A p \in Pcb : pcb_time[p] \in Int /\ due[p] \in Int /\ Owed(p) \in Int
<1>1. Reading \subseteq Int
  BY WrapRange
<1>2. tod \in Int /\ TODStarted \in Int
  BY <1>1 DEF TimeTypes
<1>3. \A p \in Pcb : pcb_time[p] \in Int /\ due[p] \in Int
  BY <1>1 DEF TimeTypes
<1> QED BY <1>2, <1>3 DEF Owed

(***************************************************************************)
(* The bills stay exact over a step if what a process owes grows by what   *)
(* it ran, and one whose account starts anew owes what its block holds.    *)
(***************************************************************************)
LEMMA AccrueKeeps ==
  ASSUME UnitClock, TimeInv, NEW d \in Int, NEW anew, Accrue(d, anew),
         tod' \in Reading, TODStarted' \in Reading, pcb_time' \in [Pcb -> Reading],
         \A p \in (Live \cap Live') \ anew :
           Owed(p)' \in Int /\ Wrap(Owed(p)') = Wrap(Owed(p) + ToCurrent(d)[p]),
         \A p \in Live' : p \notin Live \/ p \in anew => Owed(p)' = pcb_time'[p]
  PROVE  TimeInv'
<1>1. /\ \A p \in Pcb : Owed(p) \in Int /\ due[p] \in Int /\ ToCurrent(d)[p] \in Int
      /\ \A p \in Live : due[p] = Wrap(Owed(p))
  BY ReadingsNow, ExactNow DEF TimeInv, ToCurrent
<1>2. \A p \in Pcb : due'[p] = IF p \in pcbFree' THEN 0
                               ELSE IF p \in pcbFree \cup anew THEN pcb_time'[p]
                               ELSE Wrap(due[p] + ToCurrent(d)[p])
  BY DEF Accrue
<1>3. due' \in [Pcb -> Reading]
  <2>1. 0 \in Reading
    BY DEF Reading, UnitClock
  <2>2. \A p \in Pcb : due[p] + ToCurrent(d)[p] \in Int
    BY <1>1
  <2>3. \A p \in Pcb : Wrap(due[p] + ToCurrent(d)[p]) \in Reading
    BY <2>2, WrapRange
  <2> QED BY <2>1, <2>3 DEF Accrue
<1>4. TimeTypes'
  BY <1>3 DEF TimeTypes
<1>5. ASSUME NEW p \in Live'
      PROVE  due'[p] = Wrap(Owed(p)')
  <2>1. p \in Pcb /\ p \notin pcbFree'
    BY <1>5 DEF Live
  <2>2. CASE p \in Live \ anew
    <3>1. due'[p] = Wrap(Wrap(Owed(p)) + ToCurrent(d)[p])
      BY <1>1, <1>2, <2>1, <2>2 DEF Live
    <3>2. Wrap(Wrap(Owed(p)) + ToCurrent(d)[p]) = Wrap(Owed(p) + ToCurrent(d)[p])
      BY <1>1, <2>1, WrapOfSum
    <3> QED BY <1>5, <2>2, <3>1, <3>2
  <2>3. CASE p \notin Live \/ p \in anew
    <3>1. due'[p] = pcb_time'[p]
      BY <1>2, <2>1, <2>3 DEF Live
    <3>2. pcb_time'[p] \in Reading
      BY <2>1
    <3> QED BY <1>5, <2>3, <3>1, <3>2, WrapRange
  <2> QED BY <2>2, <2>3
<1>6. RunTimeBilled'
  BY <1>4, <1>5, ExactNext
<1> QED BY <1>4, <1>6 DEF TimeInv

LEMMA AfterReads ==
  ASSUME UnitClock, TimeTypes, NEW d \in Int
  PROVE  After(d) \in Reading /\ After(d) \in Int /\ STCK(After(d)) = After(d)
<1>1. tod + d \in Int
  BY ReadingsNow
<1>2. After(d) \in Reading
  BY <1>1, WrapRange DEF After
<1> QED BY <1>2, WrapRange, STCKReads

LEMMA AfterIn ==
  ASSUME UnitClock, TimeTypes, NEW d \in Int, NEW y \in Int
  PROVE  /\ Wrap(After(d) + y) = Wrap((tod + d) + y)
         /\ Wrap(y - After(d)) = Wrap(y - (tod + d))
<1>1. tod + d \in Int
  BY ReadingsNow
<1> QED BY <1>1, WrapOfSum DEF After

(***************************************************************************)
(* A process that runs on: nothing is billed, and it owes the time.        *)
(***************************************************************************)
LEMMA RunsOn ==
  ASSUME UnitClock, Inv, TimeInv, NEW d \in Int, currentProcess' = currentProcess,
         tod' = After(d), UNCHANGED <<pcb_time, TODStarted>>, Accrue(d, {})
  PROVE  TimeInv'
<1>1. /\ tod \in Int /\ TODStarted \in Int
      /\ \A p \in Pcb : pcb_time[p] \in Int /\ Owed(p) \in Int
  BY ReadingsNow DEF TimeInv
<1>2. After(d) \in Reading /\ After(d) \in Int
  BY AfterReads DEF TimeInv
<1>3. tod' \in Reading /\ TODStarted' \in Reading /\ pcb_time' \in [Pcb -> Reading]
  BY <1>2 DEF TimeInv, TimeTypes
<1>4. ASSUME NEW p \in Live \cap Live'
      PROVE  Owed(p)' \in Int /\ Wrap(Owed(p)') = Wrap(Owed(p) + ToCurrent(d)[p])
  <2>1. p \in Pcb /\ pcb_time[p] \in Int
    BY <1>1 DEF Live
  <2>2. CASE p = currentProcess
    <3>1. Owed(p)' = After(d) + (pcb_time[p] - TODStarted)
      BY <1>1, <1>2, <2>1, <2>2 DEF Owed
    <3>2. Wrap(After(d) + (pcb_time[p] - TODStarted))
            = Wrap((tod + d) + (pcb_time[p] - TODStarted))
      <4>1. pcb_time[p] - TODStarted \in Int
        BY <1>1, <2>1
      <4> QED BY <4>1, AfterIn DEF TimeInv
    <3>3. (tod + d) + (pcb_time[p] - TODStarted) = Owed(p) + ToCurrent(d)[p]
      BY <1>1, <2>1, <2>2 DEF Owed, ToCurrent
    <3> QED BY <1>1, <1>2, <2>1, <3>1, <3>2, <3>3
  <2>3. CASE p # currentProcess
    BY <1>1, <2>1, <2>3 DEF Owed, ToCurrent
  <2> QED BY <2>2, <2>3
<1>5. \A p \in Live' \ Live : Owed(p)' = pcb_time'[p]
  <2>1. \A p \in Live' \ Live : p \in Pcb /\ p # currentProcess
    BY InvFacts DEF Live, Placed
  <2> QED BY <1>1, <2>1 DEF Owed
<1> QED BY <1>3, <1>4, <1>5, AccrueKeeps

LEMMA WorkExact == ASSUME UnitClock, Inv, TimeInv, Work PROVE TimeInv'
BY RunsOn DEF Work, vars

-----------------------------------------------------------------------------
(***************************************************************************)
(* scheduler() leaves a process running, or none.                          *)
(***************************************************************************)
LEMMA SchedulerStarts ==
  ASSUME NEW ready, NEW n, NEW s, scheduler(ready, n, s)
  PROVE  currentProcess' = NULL \/ mode' = "run"
BY DEF scheduler

LEMMA CallsStart ==
  ASSUME sysCallHandler \/ waitForIO \/ Trap \/ \E d \in Devices : StartIO(d),
         currentProcess' # currentProcess
  PROVE  currentProcess' = NULL \/ mode' = "run"
<1>1. CASE sysCallHandler
  <2>1. CASE sysCreate
    BY <2>1 DEF sysCreate, vars
  <2>2. CASE sysSendToNorthKorea
    BY <2>2, SchedulerStarts DEF sysSendToNorthKorea
  <2>3. CASE \E a \in UserSems : sysSignal(a)
    BY <2>3 DEF sysSignal
  <2>4. CASE \E a \in UserSems : sysWait(a)
    BY <2>4, SchedulerStarts DEF sysWait, resume
  <2>5. CASE \E type \in Handled : sysBYOL(type)
    BY <2>5, SchedulerStarts DEF sysBYOL, sysSendToNorthKorea, resume
  <2>6. CASE sysWaitForClock
    BY <2>6, SchedulerStarts DEF sysWaitForClock
  <2> QED BY <1>1, <2>1, <2>2, <2>3, <2>4, <2>5, <2>6 DEF sysCallHandler
<1>2. CASE waitForIO
  BY <1>2, SchedulerStarts DEF waitForIO, sysGoPowerRangers, resume
<1>3. CASE Trap
  BY <1>3 DEF Trap, pullUpAndDie, vars
<1>4. CASE \E d \in Devices : StartIO(d)
  BY <1>4 DEF StartIO, resume
<1> QED BY <1>1, <1>2, <1>3, <1>4

LEMMA CallersRun ==
  ASSUME Inv, executing PROVE currentProcess \in Pcb
BY InvFacts DEF executing, OtherTypes, Placed

LEMMA CallExact == ASSUME UnitClock, Inv, TimeInv, Call PROVE TimeInv'
<1>1. PICK d \in Durations :
        /\ tod' = After(d)
        /\ IF currentProcess' = currentProcess
           THEN UNCHANGED <<pcb_time, TODStarted>>
           ELSE schedulerBills(pcb_time, TODStarted, STCK(After(d)))
        /\ Accrue(d, {})
  BY DEF Call
<1>2. d \in Int
  BY TimeAssumption
<1>3. CASE currentProcess' = currentProcess
  BY <1>1, <1>2, <1>3, RunsOn
<1>4. CASE currentProcess' # currentProcess
  <2>1. currentProcess \in Pcb
    BY CallersRun DEF Call, sysCallHandler, waitForIO, Trap, StartIO
  <2>2. currentProcess' = NULL \/ mode' = "run"
    BY <1>4, CallsStart DEF Call
  <2>3. /\ tod \in Int /\ TODStarted \in Int
        /\ \A p \in Pcb : pcb_time[p] \in Int /\ Owed(p) \in Int
    BY ReadingsNow DEF TimeInv
  <2>4. /\ After(d) \in Reading /\ After(d) \in Int /\ STCK(After(d)) = After(d)
    BY <1>2, AfterReads DEF TimeInv
  <2>5. currentProcess # NULL
    BY <2>1, Constants
  <2>6. /\ pcb_time' = [pcb_time EXCEPT ![currentProcess] =
                          Wrap(@ + After(d) - TODStarted)]
        /\ TODStarted' = IF mode' = "run" THEN After(d) ELSE TODStarted
    BY <1>1, <1>4, <2>4, <2>5 DEF schedulerBills
  <2>7. pcb_time[currentProcess] + After(d) - TODStarted \in Int
    BY <2>1, <2>3, <2>4
  <2>8. pcb_time' \in [Pcb -> Reading]
    BY <2>1, <2>6, <2>7, WrapRange DEF TimeInv, TimeTypes
  <2>9. tod' \in Reading /\ TODStarted' \in Reading
    BY <1>1, <2>4, <2>6 DEF TimeInv, TimeTypes
  <2>10. \A p \in Pcb : Owed(p)' = pcb_time'[p] /\ pcb_time'[p] \in Int
    <3>1. \A p \in Pcb : pcb_time'[p] \in Int
      BY <2>8, WrapRange
    <3>2. \A p \in Pcb : p = currentProcess' => tod' - TODStarted' = 0
      BY <1>1, <2>2, <2>4, <2>6, Constants
    <3> QED BY <3>1, <3>2 DEF Owed
  <2>11. ASSUME NEW p \in Pcb
         PROVE  Wrap(pcb_time'[p]) = Wrap(Owed(p) + ToCurrent(d)[p])
    <3>1. CASE p = currentProcess
      <4>1. pcb_time'[p] = Wrap(After(d) + (pcb_time[p] - TODStarted))
        BY <2>3, <2>4, <2>6, <3>1 DEF TimeInv, TimeTypes
      <4>2. Wrap(After(d) + (pcb_time[p] - TODStarted))
              = Wrap((tod + d) + (pcb_time[p] - TODStarted))
        <5>1. pcb_time[p] - TODStarted \in Int
          BY <2>3
        <5> QED BY <1>2, <5>1, AfterIn DEF TimeInv
      <4>3. (tod + d) + (pcb_time[p] - TODStarted) = Owed(p) + ToCurrent(d)[p]
        BY <1>2, <2>3, <3>1 DEF Owed, ToCurrent
      <4>4. pcb_time'[p] \in Reading
        BY <2>8
      <4> QED BY <4>1, <4>2, <4>3, <4>4, WrapRange
    <3>2. CASE p # currentProcess
      <4>1. pcb_time'[p] = pcb_time[p]
        BY <2>6, <3>2 DEF TimeInv, TimeTypes
      <4> QED BY <2>3, <3>2, <4>1 DEF Owed, ToCurrent
    <3> QED BY <3>1, <3>2
  <2>12. \A p \in Live \cap Live' :
           Owed(p)' \in Int /\ Wrap(Owed(p)') = Wrap(Owed(p) + ToCurrent(d)[p])
    BY <2>10, <2>11 DEF Live
  <2>13. \A p \in Live' \ Live : Owed(p)' = pcb_time'[p]
    BY <2>10 DEF Live
  <2> QED BY <1>1, <1>2, <2>8, <2>9, <2>12, <2>13, AccrueKeeps
<1> QED BY <1>3, <1>4

(***************************************************************************)
(* SYS6 bills up to its first reading and starts at its second.            *)
(***************************************************************************)
LEMMA GetExact == ASSUME UnitClock, Inv, TimeInv, sysGetCPUTime PROVE TimeInv'
<1>1. PICK d \in Durations, e \in Durations :
        /\ pcb_time' = [pcb_time EXCEPT
                          ![currentProcess] = Wrap(@ + STCK(After(d)) - TODStarted)]
        /\ tod' = After(d + e)
        /\ TODStarted' = STCK(After(d + e))
        /\ Accrue(d, {})
  BY DEF sysGetCPUTime
<1>2. d \in Int /\ d + e \in Int
  BY TimeAssumption
<1>3. UNCHANGED <<currentProcess, pcbFree>> /\ currentProcess \in Pcb
  BY CallersRun DEF sysGetCPUTime, vars, pcbs
<1>4. /\ tod \in Int /\ TODStarted \in Int
      /\ \A p \in Pcb : pcb_time[p] \in Int /\ Owed(p) \in Int
  BY ReadingsNow DEF TimeInv
<1>5. /\ After(d) \in Reading /\ After(d) \in Int /\ STCK(After(d)) = After(d)
      /\ After(d + e) \in Reading /\ After(d + e) \in Int
      /\ STCK(After(d + e)) = After(d + e)
  BY <1>2, AfterReads DEF TimeInv
<1>6. /\ pcb_time' = [pcb_time EXCEPT
                        ![currentProcess] = Wrap(@ + After(d) - TODStarted)]
      /\ tod' = After(d + e) /\ TODStarted' = After(d + e)
  BY <1>1, <1>5
<1>7. pcb_time[currentProcess] + After(d) - TODStarted \in Int
  BY <1>3, <1>4, <1>5
<1>8. pcb_time' \in [Pcb -> Reading]
  BY <1>3, <1>6, <1>7, WrapRange DEF TimeInv, TimeTypes
<1>9. \A p \in Pcb : Owed(p)' = pcb_time'[p] /\ pcb_time'[p] \in Int
  <2>1. \A p \in Pcb : pcb_time'[p] \in Int
    BY <1>8, WrapRange
  <2> QED BY <1>5, <1>6, <2>1 DEF Owed
<1>10. ASSUME NEW p \in Pcb
       PROVE  Wrap(pcb_time'[p]) = Wrap(Owed(p) + ToCurrent(d)[p])
  <2>1. CASE p = currentProcess
    <3>1. pcb_time'[p] = Wrap(After(d) + (pcb_time[p] - TODStarted))
      BY <1>4, <1>5, <1>6, <2>1 DEF TimeInv, TimeTypes
    <3>2. Wrap(After(d) + (pcb_time[p] - TODStarted))
            = Wrap((tod + d) + (pcb_time[p] - TODStarted))
      <4>1. pcb_time[p] - TODStarted \in Int
        BY <1>4
      <4> QED BY <1>2, <4>1, AfterIn DEF TimeInv
    <3>3. (tod + d) + (pcb_time[p] - TODStarted) = Owed(p) + ToCurrent(d)[p]
      BY <1>2, <1>4, <2>1 DEF Owed, ToCurrent
    <3>4. pcb_time'[p] \in Reading
      BY <1>8
    <3> QED BY <3>1, <3>2, <3>3, <3>4, WrapRange
  <2>2. CASE p # currentProcess
    <3>1. pcb_time'[p] = pcb_time[p]
      BY <1>6, <2>2 DEF TimeInv, TimeTypes
    <3> QED BY <1>4, <2>2, <3>1 DEF Owed, ToCurrent
  <2> QED BY <2>1, <2>2
<1>11. \A p \in Live \cap Live' :
         Owed(p)' \in Int /\ Wrap(Owed(p)') = Wrap(Owed(p) + ToCurrent(d)[p])
  BY <1>9, <1>10 DEF Live
<1>12. \A p \in Live' \ Live : Owed(p)' = pcb_time'[p]
  BY <1>9 DEF Live
<1> QED BY <1>1, <1>2, <1>5, <1>6, <1>8, <1>11, <1>12, AccrueKeeps

-----------------------------------------------------------------------------
(***************************************************************************)
(* The interrupts: the interrupted process does not pay for the handler.   *)
(***************************************************************************)
LEMMA InterruptsStart ==
  ASSUME Inv, QuantumExpired \/ IntervalTimer \/ DeviceInterrupt
  PROVE  currentProcess' = NULL \/ mode' = "run"
<1>1. CASE QuantumExpired \/ DeviceInterrupt
  BY <1>1, SchedulerStarts DEF QuantumExpired, DeviceInterrupt, finish
<1>2. CASE IntervalTimer
  <2> DEFINE woken == takenByTick
             queues == IF woken = <<>> THEN s_procQ
                       ELSE [s_procQ EXCEPT ![ClockSem] = <<>>]
  <2>1. \A a \in UserSems : a < ClockSem
    BY TimeAssumption, SemAssumption, DevPerIntAssumption DEF ClockSem, TOTALSEM
  <2>2. headBlocked(queues, ClockSem) = NULL
    BY <2>1, ClockEmptied
  <2>3. finish(readyQueue \o woken, softBlockCount - Len(woken))
    BY <1>2, <2>2 DEF IntervalTimer, takenByTick
  <2> QED BY <2>3, SchedulerStarts DEF finish
<1> QED BY <1>1, <1>2

LEMMA InterruptExact == ASSUME UnitClock, Inv, TimeInv, Interrupt PROVE TimeInv'
<1>1. PICK d \in Durations : \E share \in [wokenByTick -> 0 .. d] :
        LET time == [p \in Pcb |-> IF p \in wokenByTick THEN share[p] ELSE 0]
        IN  /\ tod' = After(d)
            /\ schedulerBills([p \in Pcb |-> Wrap(pcb_time[p] + Elapsed(time[p]))],
                              startedAfter(d), STCK(After(d)))
            /\ Accrue(0, wokenByTick)
  BY DEF Interrupt
<1>2. PICK share \in [wokenByTick -> 0 .. d] :
        LET time == [p \in Pcb |-> IF p \in wokenByTick THEN share[p] ELSE 0]
        IN  /\ tod' = After(d)
            /\ schedulerBills([p \in Pcb |-> Wrap(pcb_time[p] + Elapsed(time[p]))],
                              startedAfter(d), STCK(After(d)))
            /\ Accrue(0, wokenByTick)
  BY <1>1
<1> DEFINE time == [p \in Pcb |-> IF p \in wokenByTick THEN share[p] ELSE 0]
           times == [p \in Pcb |-> Wrap(pcb_time[p] + Elapsed(time[p]))]
           start == startedAfter(d)
<1>3. /\ tod' = After(d) /\ schedulerBills(times, start, STCK(After(d)))
      /\ Accrue(0, wokenByTick)
  BY <1>2
<1>4. d \in Int /\ time \in [Pcb -> Int]
  <2>1. d \in Nat
    BY TimeAssumption
  <2>2. \A p \in wokenByTick : share[p] \in Int
    BY <2>1
  <2> QED BY <2>1, <2>2
<1>5. \A p \in Pcb : p = currentProcess \/ p \notin wokenByTick => time[p] = 0
  BY InvFacts, Constants, SemAddsFacts DEF wokenByTick, Placed
<1> HIDE DEF time
<1>6. /\ tod \in Int /\ TODStarted \in Int
      /\ \A p \in Pcb : pcb_time[p] \in Int /\ Owed(p) \in Int
  BY ReadingsNow DEF TimeInv
<1>7. /\ After(d) \in Reading /\ After(d) \in Int /\ STCK(After(d)) = After(d)
  BY <1>4, AfterReads DEF TimeInv
<1>8. ASSUME NEW e \in Int
      PROVE  Elapsed(e) = After(e) - tod /\ Elapsed(e) \in Int
  <2>1. STCK(After(e)) = After(e) /\ STCK(tod) = tod /\ After(e) \in Int
    BY AfterReads, STCKReads DEF TimeInv, TimeTypes
  <2> QED BY <1>6, <2>1 DEF Elapsed
<1>9. /\ times \in [Pcb -> Reading]
      /\ \A p \in Pcb : times[p] = Wrap(pcb_time[p] + time[p])
  <2> SUFFICES ASSUME NEW p \in Pcb
               PROVE  /\ Wrap(pcb_time[p] + Elapsed(time[p])) \in Reading
                      /\ Wrap(pcb_time[p] + Elapsed(time[p])) = Wrap(pcb_time[p] + time[p])
    OBVIOUS
  <2>1. time[p] \in Int /\ pcb_time[p] \in Int
    BY <1>4, <1>6
  <2>2. Elapsed(time[p]) = After(time[p]) - tod /\ Elapsed(time[p]) \in Int
    BY <1>8, <2>1
  <2>3. Wrap(After(time[p]) + (pcb_time[p] - tod))
          = Wrap((tod + time[p]) + (pcb_time[p] - tod))
    <3>1. pcb_time[p] - tod \in Int
      BY <1>6, <2>1
    <3> QED BY <2>1, <3>1, AfterIn DEF TimeInv
  <2>4. After(time[p]) \in Int
    BY <2>1, AfterReads DEF TimeInv
  <2>5. /\ pcb_time[p] + Elapsed(time[p]) = After(time[p]) + (pcb_time[p] - tod)
        /\ (tod + time[p]) + (pcb_time[p] - tod) = pcb_time[p] + time[p]
        /\ pcb_time[p] + Elapsed(time[p]) \in Int
    BY <1>6, <2>1, <2>2, <2>4
  <2> QED BY <2>3, <2>5, WrapRange
<1> HIDE DEF times
<1>10. /\ start \in Reading
       /\ currentProcess # NULL => start = Wrap(TODStarted + (After(d) - tod))
  <2>1. Elapsed(d) = After(d) - tod /\ Elapsed(d) \in Int
    BY <1>4, <1>8
  <2>2. TODStarted + Elapsed(d) \in Int
    BY <1>6, <2>1
  <2> QED BY <2>1, <2>2, WrapRange DEF startedAfter, TimeInv, TimeTypes
<1> HIDE DEF start
<1>11. /\ pcb_time' = IF currentProcess = NULL THEN times
                      ELSE [times EXCEPT ![currentProcess] = Wrap(@ + After(d) - start)]
       /\ TODStarted' = IF mode' = "run" THEN After(d) ELSE start
  BY <1>3, <1>7 DEF schedulerBills
<1>12. start \in Int /\ \A p \in Pcb : times[p] \in Int
  BY <1>9, <1>10, WrapRange
<1>13. pcb_time' \in [Pcb -> Reading]
  <2>1. \A p \in Pcb : times[p] + After(d) - start \in Int
    BY <1>7, <1>12
  <2> QED BY <1>9, <1>11, <2>1, WrapRange
<1>14. tod' \in Reading /\ TODStarted' \in Reading
  BY <1>3, <1>7, <1>10, <1>11
<1>15. \A p \in Pcb : Owed(p)' = pcb_time'[p] /\ pcb_time'[p] \in Int
  <2>1. \A p \in Pcb : pcb_time'[p] \in Int
    BY <1>13, WrapRange
  <2>2. \A p \in Pcb : p = currentProcess' => tod' - TODStarted' = 0
    BY <1>3, <1>7, <1>11, InterruptsStart, Constants DEF Interrupt
  <2> QED BY <2>1, <2>2 DEF Owed
<1>16. ASSUME NEW p \in Pcb
       PROVE  Wrap(pcb_time'[p]) = Wrap(Owed(p) + time[p])
  <2>1. CASE p = currentProcess
    <3>1. time[p] = 0 /\ times[p] = pcb_time[p]
      <4>1. pcb_time[p] \in Reading /\ time[p] = 0
        BY <1>5, <2>1 DEF TimeInv, TimeTypes
      <4>2. pcb_time[p] + time[p] = pcb_time[p]
        BY <1>6, <4>1
      <4>3. times[p] = Wrap(pcb_time[p])
        BY <1>9, <4>2
      <4> QED BY <4>1, <4>3, WrapRange
    <3>2. pcb_time'[p] = Wrap((pcb_time[p] + After(d)) - start)
      <4>1. currentProcess # NULL
        BY <2>1, Constants
      <4>2. pcb_time' = [times EXCEPT ![currentProcess] = Wrap(@ + After(d) - start)]
        BY <1>11, <4>1
      <4>3. pcb_time'[p] = Wrap(times[p] + After(d) - start)
        BY <1>9, <2>1, <4>2
      <4>4. times[p] + After(d) - start = (pcb_time[p] + After(d)) - start
        BY <1>6, <1>7, <1>12, <3>1
      <4> QED BY <4>3, <4>4
    <3> DEFINE begun == TODStarted + (After(d) - tod)
    <3>3. begun \in Int /\ pcb_time[p] + After(d) \in Int
      BY <1>6, <1>7
    <3>4. start = Wrap(begun)
      BY <1>10, <2>1, Constants
    <3> HIDE DEF begun
    <3>5. Wrap((pcb_time[p] + After(d)) - start) = Wrap((pcb_time[p] + After(d)) - begun)
      BY <3>3, <3>4, WrapOfSum
    <3>6. (pcb_time[p] + After(d)) - begun = Owed(p) + time[p]
      BY <1>6, <1>7, <2>1, <3>1 DEF Owed, begun
    <3>7. pcb_time'[p] \in Reading
      BY <1>13
    <3> QED BY <3>2, <3>5, <3>6, <3>7, WrapRange
  <2>2. CASE p # currentProcess
    <3>1. pcb_time'[p] = Wrap(pcb_time[p] + time[p])
      BY <1>9, <1>11, <2>2
    <3>2. Owed(p) = pcb_time[p]
      BY <1>6, <2>2 DEF Owed
    <3>3. pcb_time'[p] \in Reading
      BY <1>13
    <3> QED BY <3>1, <3>2, <3>3, WrapRange
  <2> QED BY <2>1, <2>2
<1>17. ASSUME NEW p \in (Live \cap Live') \ wokenByTick
       PROVE  Owed(p)' \in Int /\ Wrap(Owed(p)') = Wrap(Owed(p) + ToCurrent(0)[p])
  <2>1. p \in Pcb /\ time[p] = 0 /\ ToCurrent(0)[p] = 0
    BY <1>5 DEF Live, ToCurrent
  <2> QED BY <1>15, <1>16, <2>1
<1>18. \A p \in Live' : Owed(p)' = pcb_time'[p]
  BY <1>15 DEF Live
<1> QED BY <1>3, <1>13, <1>14, <1>17, <1>18, AccrueKeeps

LEMMA InstantExact == ASSUME UnitClock, Inv, TimeInv, Instant PROVE TimeInv'
<1>1. UNCHANGED <<currentProcess, pcbFree, tod, TODStarted, pcb_time, due>>
  BY DEF Instant, timeVars, QuantumEndsMasked, DeviceDone, Stopped, vars, pcbs, resume
<1>2. Live' = Live
  BY <1>1 DEF Live
<1> QED BY <1>1, <1>2 DEF TimeInv, TimeTypes, RunTimeBilled

-----------------------------------------------------------------------------
(***************************************************************************)
(* The timed system takes only steps of the nucleus.                       *)
(***************************************************************************)
LEMMA TimedSteps == [TimedNext]_<<vars, timeVars>> => [Next]_vars
<1> SUFFICES ASSUME TimedNext PROVE [Next]_vars
  OBVIOUS
<1>1. CASE Work \/ sysGetCPUTime
  BY <1>1 DEF Work, sysGetCPUTime
<1>2. CASE Call
  BY <1>2 DEF Call, Next
<1>3. CASE Interrupt
  BY <1>3 DEF Interrupt, Next
<1>4. CASE Instant
  BY <1>4 DEF Instant, Next
<1> QED BY <1>1, <1>2, <1>3, <1>4 DEF TimedNext

LEMMA InitTime == UnitClock /\ TimedInit => TimeInv
<1> SUFFICES ASSUME UnitClock, TimedInit PROVE TimeInv
  OBVIOUS
<1>1. 0 \in Reading /\ Wrap(0) = 0
  <2>1. 0 \in Reading
    BY DEF Reading, UnitClock
  <2> QED BY <2>1, WrapRange
<1>2. TimeTypes
  BY <1>1 DEF TimedInit, TimeTypes
<1>3. \A p \in Pcb : Owed(p) = 0 /\ due[p] = 0
  BY DEF TimedInit, Owed
<1>4. RunTimeBilled
  BY <1>1, <1>2, <1>3, ExactNow DEF Live
<1> QED BY <1>2, <1>4 DEF TimeInv

LEMMA StepTime ==
  ASSUME UnitClock
  PROVE  Inv /\ TimeInv /\ [TimedNext]_<<vars, timeVars>> => TimeInv'
<1> SUFFICES ASSUME Inv, TimeInv, [TimedNext]_<<vars, timeVars>> PROVE TimeInv'
  OBVIOUS
<1>1. CASE TimedNext
  BY <1>1, WorkExact, CallExact, GetExact, InterruptExact, InstantExact DEF TimedNext
<1>2. CASE UNCHANGED <<vars, timeVars>>
  BY <1>2 DEF vars, timeVars, pcbs, TimeInv, TimeTypes, RunTimeBilled, Live
<1> QED BY <1>1, <1>2

(***************************************************************************)
(* scheduler.c, finish() and SYS6: over any sequence of dispatches,        *)
(* interrupts and readings, and across the wrap of a clock of any width,   *)
(* what a process has been billed since its creation, or since a tick last *)
(* woke it, is the time it ran.  Nothing is said of the time a block holds *)
(* at its allocation, nor of what interrupts.c:88 bills on a tick.         *)
(***************************************************************************)
THEOREM BillingCorrect ==
  ASSUME UnitClock
  PROVE  TimedSpec => []RunTimeBilled
<1>1. TimedSpec => Spec
  <2>1. TimedInit => Init
    BY DEF TimedInit
  <2> QED BY <2>1, TimedSteps, PTL DEF TimedSpec, Spec
<1>2. TimedInit => TimeInv
  BY InitTime
<1>3. Inv /\ TimeInv /\ [TimedNext]_<<vars, timeVars>> => TimeInv'
  BY StepTime
<1>4. TimeInv => RunTimeBilled
  BY DEF TimeInv
<1> QED BY <1>1, <1>2, <1>3, <1>4, Invariance, PTL DEF TimedSpec
=============================================================================
