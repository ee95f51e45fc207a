------------------------------ MODULE CpuTime ------------------------------
(***************************************************************************)
(* The accounting of processor time, laid over the nucleus: pcb_time and   *)
(* TODStarted, as scheduler.c, interrupts.c and SYS6 read the clock and    *)
(* bill.  Every step of Nucleus is taken with the readings it contains.    *)
(* Handlers take time too, what lies between two readings a handler makes  *)
(* one after the other left out.                                           *)
(***************************************************************************)
EXTENDS Nucleus

CONSTANTS WIDTH,      \* bits of the clock and of a cpu_t
          TIMESCALE,  \* the clock's ticks in a microsecond
          Durations   \* bound: the time a handler takes

\* No semaphore above sem[]: every tick comes to an end (see TickCompletes).
ASSUME TimeAssumption ==
  /\ WIDTH \in Nat \ {0} /\ TIMESCALE \in Nat \ {0} /\ Durations \subseteq Nat
  /\ \A a \in UserSems : a < 0

VARIABLES tod,         \* the clock, TODLO
          TODStarted,  \* scheduler.c's global: since when currentProcess runs
          pcb_time,    \* the processor time in each block
          due          \* what is due for the time a process ran, on top of what its
                       \* block held at its creation or when a tick last woke it

timeVars == <<tod, TODStarted, pcb_time, due>>

Wrap(t) == t % 2^WIDTH

\* The clock d later.
After(d) == Wrap(tod + d)

\* STCK: the clock taken for a signed number and divided, rounding to zero.
\* cpu_t's are kept here as the numbers from 0 on they are modulo 2^WIDTH.
STCK(time) ==
  IF time < 2^(WIDTH - 1) THEN time \div TIMESCALE
  ELSE Wrap(-((2^WIDTH - time) \div TIMESCALE))

\* The difference of the readings d apart.
Elapsed(d) == STCK(After(d)) - STCK(tod)

\* d to the running process.
ToCurrent(d) == [p \in Pcb |-> IF p = currentProcess THEN d ELSE 0]

\* d is due from the running process, whoever the code bills.  For a new process
\* and for those of anew the account starts anew from what their blocks hold.
Accrue(d, anew) ==
  due' = [p \in Pcb |-> IF p \in pcbFree' THEN 0
                        ELSE IF p \in pcbFree \cup anew THEN pcb_time'[p]
                        ELSE Wrap(due[p] + ToCurrent(d)[p])]

\* scheduler(): currentProcess, dead or alive, is billed from start on, and a
\* process that is dispatched starts now (one reading for the two).
schedulerBills(times, start, now) ==
  /\ pcb_time' = IF currentProcess = NULL THEN times
                 ELSE [times EXCEPT ![currentProcess] = Wrap(@ + now - start)]
  /\ TODStarted' = IF mode' = "run" THEN now ELSE start

-----------------------------------------------------------------------------
\* The processor executes a process, or waits.
Work == /\ executing \/ mode = "wait"
        /\ UNCHANGED <<vars, TODStarted, pcb_time>>
        /\ tod' = After(1)
        /\ Accrue(1, {})

\* A system call, or a command to a device, and the time it takes.  Calls that
\* end in the scheduler are those whose caller, blocked or dead, gives way.
Call == /\ sysCallHandler \/ waitForIO \/ Trap \/ \E d \in Devices : StartIO(d)
        /\ \E d \in Durations :
             /\ tod' = After(d)
             /\ IF currentProcess' = currentProcess
                THEN UNCHANGED <<pcb_time, TODStarted>>
                ELSE schedulerBills(pcb_time, TODStarted, STCK(After(d)))
             /\ Accrue(d, {})

\* SYS6, the result being pcb_time.  What passes between its two readings of
\* the clock, e, is nobody's.
sysGetCPUTime ==
  /\ executing /\ io[currentProcess] = NULL
  /\ UNCHANGED vars
  /\ \E d, e \in Durations :
       /\ pcb_time' = [pcb_time EXCEPT
                         ![currentProcess] = Wrap(@ + STCK(After(d)) - TODStarted)]
       /\ tod' = After(d + e)
       /\ TODStarted' = STCK(After(d + e))
       /\ Accrue(d, {})

\* The code bills those a tick wakes for the handler up to then, each from its
\* beginning, so that two of them pay for the same time.
wokenByTick == {p \in Pcb : pcb_semAdd[p] = ClockSem /\ pcb_semAdd'[p] = NULL}

SlipStartedAfter(d) == TODStarted

\* finish(): the interrupted process does not pay for the handler.
startedAfter(d) == IF currentProcess = NULL THEN TODStarted ELSE Wrap(TODStarted + Elapsed(d))

Interrupt ==
  /\ QuantumExpired \/ IntervalTimer \/ DeviceInterrupt
  /\ \E d \in Durations : \E share \in [wokenByTick -> 0 .. d] :
       LET time == [p \in Pcb |-> IF p \in wokenByTick THEN share[p] ELSE 0]
       IN  /\ tod' = After(d)
           /\ schedulerBills([p \in Pcb |-> Wrap(pcb_time[p] + Elapsed(time[p]))],
                             startedAfter(d), STCK(After(d)))
           /\ Accrue(0, wokenByTick)

\* What takes the processor no time.
Instant == /\ QuantumEndsMasked \/ (\E d \in Devices : DeviceDone(d)) \/ Stopped
           /\ UNCHANGED timeVars

TimedInit == /\ Init
             /\ tod = 0 /\ TODStarted = 0
             /\ pcb_time = [p \in Pcb |-> 0]
             /\ due = [p \in Pcb |-> 0]

TimedNext == Work \/ Call \/ sysGetCPUTime \/ Interrupt \/ Instant

TimedSpec == TimedInit /\ [][TimedNext]_<<vars, timeVars>>

-----------------------------------------------------------------------------
\* Since its creation, or since a tick last woke it, a process has been billed for
\* the time it ran and for no other's: not for an interrupt's handler that ran in
\* between, nor twice for what SYS6 or a preemption has billed already, and
\* across the wrap of the clock.  What its block held at that moment is not judged:
\* the time of the block's former owner, which allocPcb leaves in it, and what a
\* tick bills those it wakes.
\* (Of a clock with a TIMESCALE of 1: divided readings do not wrap where the
\* differences do.)
RunTimeBilled ==
  \A p \in Live :
    due[p] = Wrap(pcb_time[p] + IF p = currentProcess THEN STCK(tod) - TODStarted ELSE 0)
=============================================================================
