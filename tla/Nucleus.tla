------------------------------ MODULE Nucleus ------------------------------
(***************************************************************************)
(* The nucleus of Kaya (phase2, over the queues of phase1): processes, the *)
(* ready queue, the semaphores and the processes blocked on them, the      *)
(* system calls, the interrupt handler and the scheduler.                  *)
(*                                                                         *)
(* Every handler runs with interrupts off (initial.c sets the four new     *)
(* areas to ALLOFF), so one handler, up to the LDST, WAIT or HALT that     *)
(* ends it, is one action.  Between two actions the running process, the   *)
(* timers and the devices interleave freely.                               *)
(***************************************************************************)
EXTENDS ProcQueue

CONSTANTS
  Pcb,          \* the MAXPROC process blocks of pcb.c's static array
  NULL,         \* the NULL of const.h
  DEVPERINT,    \* devices on one interrupt line
  UserSems,     \* addresses of the semaphores processes P and V, on the scale
                \* where &sem[i] is i: a negative one lies before sem[], one
                \* from TOTALSEM on lies behind it
  Devices,      \* the installed devices, a terminal being two of them
  Raised,       \* the exceptions processes raise (syscalls above 8 included)
  Handled,      \* the exceptions processes install a handler for (SYS5)
  IoMasked,     \* the devices whose users write a command and wait for it with
                \* interrupts off (phase 3); p2test leaves the window open
  FullDuplex,   \* processes use both halves of a terminal at a time
  MaxVal,       \* bound: no V takes a semaphore above this
  MaxTickWaits  \* bound: no more processes than this wait for one clock tick,
                \* those killed before it comes included

TLBTRAP == 0
PROGTRAP == 1
SYSTRAP == 2
TrapTypes == {TLBTRAP, PROGTRAP, SYSTRAP}

TERMINT == 7
DEVNOSEM == 3
TOTALSEM == 6 * DEVPERINT + 1
ClockSem == TOTALSEM - 1
MAXPROC == Cardinality(Pcb)

Device == [line : DEVNOSEM .. TERMINT, num : 0 .. DEVPERINT - 1, recv : BOOLEAN]

\* The second half of the terminal that d is one half of.
OtherHalf(d) == [d EXCEPT !.recv = ~d.recv]

SlipSemIndexNoRead(d) == (d.line - DEVNOSEM) * DEVPERINT + d.num

\* sysGoPowerRangers' index of a device's semaphore; recv is its isWrite.
semIndex(d) ==
  (d.line - DEVNOSEM + (IF d.recv THEN 1 ELSE 0)) * DEVPERINT + d.num

SemAdds == (0 .. TOTALSEM - 1) \cup UserSems
DeviceSems == 0 .. TOTALSEM - 2
DeviceOrClockSems == 0 .. TOTALSEM - 1

ASSUME PcbAssumption == IsFiniteSet(Pcb) /\ Pcb # {} /\ NULL \notin Pcb
ASSUME DevPerIntAssumption == DEVPERINT \in Nat \ {0}
ASSUME SemAssumption ==
  /\ UserSems \in SUBSET (Int \ DeviceOrClockSems)
  /\ NULL \notin SemAdds
  /\ MaxVal \in Nat /\ MaxTickWaits \in Nat
\* Only a terminal has two halves, and only terminal 0 is installed, as in the
\* tests of the repository (p2test.c drives terminal 0).
ASSUME DeviceAssumption ==
  /\ Devices \in SUBSET Device
  /\ NULL \notin Devices
  /\ \A d \in Devices :
       IF d.line = TERMINT THEN d.num = 0 /\ OtherHalf(d) \in Devices ELSE ~d.recv
ASSUME TrapAssumption == Raised \in SUBSET TrapTypes /\ Handled \in SUBSET TrapTypes
ASSUME ModeAssumption == IoMasked \in SUBSET Devices /\ FullDuplex \in BOOLEAN

VARIABLES
  mode,            \* what the processor does: see Modes
  currentProcess,  \* initial.c's globals
  readyQueue,
  processCount,
  softBlockCount,
  sem,             \* the values of sem[] and of the user semaphores
  pcbFree,         \* the blocks on pcb.c's free list
  pcb_parent,      \* fields of the process blocks
  pcb_semAdd,
  pcb_states,      \* the exceptions whose handler the process has set
  s_procQ,         \* asl.c: the processes blocked on each semaphore
  devStatus,       \* the device registers
  expired,         \* the local timer's interrupt is pending
  io               \* the device whose command a process wrote and has not
                   \* waited for yet: its position in its own program

counts == <<processCount, softBlockCount>>
pcbs == <<pcbFree, pcb_parent, pcb_states>>
blocking == <<sem, pcb_semAdd, s_procQ>>
hardware == <<devStatus, io>>
vars == <<mode, currentProcess, readyQueue, expired, counts, pcbs, blocking, hardware>>

\* "run": currentProcess executes; "wait": WAIT with interrupts on; "halt" and
\* "panic": stopped by the scheduler; "hang": looping inside a handler for
\* ever; "return": scheduler returned to the handler that called it.
Modes == {"run", "wait", "halt", "panic", "hang", "return"}

TypeOK ==
  /\ mode \in Modes
  /\ currentProcess \in Pcb \cup {NULL}
  /\ readyQueue \in Seq(Pcb)
  /\ processCount \in Int
  /\ softBlockCount \in Int
  /\ sem \in [SemAdds -> Int]
  /\ pcbFree \in SUBSET Pcb
  /\ pcb_parent \in [Pcb -> Pcb \cup {NULL}]
  /\ pcb_semAdd \in [Pcb -> SemAdds \cup {NULL}]
  /\ pcb_states \in [Pcb -> SUBSET TrapTypes]
  /\ s_procQ \in [SemAdds -> Seq(Pcb)]
  /\ devStatus \in [Devices -> {"READY", "BUSY", "DONE"}]
  /\ expired \in BOOLEAN
  /\ io \in [Pcb -> Devices \cup {NULL}]

-----------------------------------------------------------------------------
(* The scheduler and the lists of phase 1 *)

\* The queue, the counts and the processor as scheduler() leaves them, from
\* the ready queue and the counts its caller hands it.  setTIMER takes back an
\* interrupt of the local timer; before WAIT the timer is not set.
scheduler(ready, processes, softCount) ==
  /\ processCount' = processes
  /\ softBlockCount' = softCount
  /\ IF ready # <<>>
     THEN /\ currentProcess' = Head(ready)
          /\ readyQueue' = Tail(ready)
          /\ mode' = "run"
          /\ expired' = FALSE
     ELSE /\ currentProcess' = NULL
          /\ readyQueue' = <<>>
          /\ UNCHANGED expired
          /\ mode' = CASE processes = 0 -> "halt"
                       [] processes > 0 /\ softCount = 0 -> "panic"
                       [] processes > 0 /\ softCount > 0 -> "wait"
                       [] OTHER -> "return"

\* The handler returns to the process it interrupted.
resume == UNCHANGED <<mode, currentProcess, readyQueue, expired, counts>>

SlipAllocKeepsFree(p) ==
  /\ UNCHANGED pcbFree
  /\ pcb_semAdd' = [pcb_semAdd EXCEPT ![p] = NULL]
  /\ pcb_states' = [pcb_states EXCEPT ![p] = {}]

allocPcb(p) ==
  /\ pcbFree' = pcbFree \ {p}
  /\ pcb_semAdd' = [pcb_semAdd EXCEPT ![p] = NULL]
  /\ pcb_states' = [pcb_states EXCEPT ![p] = {}]

\* The semaphores on the active list: those with a process blocked on them.
ASL == {a \in SemAdds : s_procQ[a] # <<>>}

\* Blocks p on a.  A semaphore that is not on the list needs a descriptor, and
\* there are MAXPROC of them: without one, TRUE is returned, which no caller
\* looks at, and p is on no queue.
insertBlocked(a, p) ==
  IF a \in ASL \/ Cardinality(ASL) < MAXPROC
  THEN /\ s_procQ' = [s_procQ EXCEPT ![a] = insertProcQ(@, p)]
       /\ pcb_semAdd' = [pcb_semAdd EXCEPT ![p] = a]
  ELSE UNCHANGED <<s_procQ, pcb_semAdd>>

\* Unblocks the first process of a; NULL, and no change, if there is none.
removeBlocked(a) ==
  IF a \in ASL
  THEN /\ s_procQ' = [s_procQ EXCEPT ![a] = Tail(@)]
       /\ pcb_semAdd' = [pcb_semAdd EXCEPT ![Head(s_procQ[a])] = NULL]
  ELSE UNCHANGED <<s_procQ, pcb_semAdd>>

SlipHeadBlockedAbove(queues, a) ==
  LET found == {b \in SemAdds : b > a /\ queues[b] # <<>>}
  IN  IF found = {} THEN NULL
      ELSE Head(queues[CHOOSE b \in found : \A c \in found : b <= c])

\* The queue headBlocked(a) looks at is the one of the first descriptor whose
\* address is at least a: it does not compare the address it found with a.
headBlocked(queues, a) ==
  LET found == {b \in SemAdds : b >= a /\ queues[b] # <<>>}
  IN  IF found = {} THEN NULL
      ELSE Head(queues[CHOOSE b \in found : \A c \in found : b <= c])

\* A V wakes a process: the incremented value is not positive and there is one.
SlipWakesOne(a) == sem[a] + 1 < 0 /\ a \in ASL
wakesOne(a) == sem[a] + 1 <= 0 /\ a \in ASL

SlipFamilyOneLevel(p) == {q \in Pcb : q = p \/ pcb_parent[q] = p}

\* The process and its progeny: what executeOrderSixtySix, calling itself for
\* every child until none is left, reaches from p.
Family(p) ==
  {q \in Pcb : \A S \in SUBSET Pcb :
     p \in S /\ (\A c \in Pcb : pcb_parent[c] \in S => c \in S) => q \in S}

SlipSoftNotClock(a) == a # NULL /\ a \in DeviceSems
SlipSoftNoLowerEnd(a) == a # NULL /\ a <= TOTALSEM

\* A process killed while blocked at one of these counts as soft blocked.  The
\* comparison with &sem[TOTALSEM] takes in the word behind the array.
countedAsSoft(a) == a # NULL /\ a \in 0 .. TOTALSEM

\* Frees the processes of dead: out of the tree, of every queue and onto the
\* free list; a V on what they were blocked on, unless it is a device.
executeOrderSixtySix(dead) ==
  /\ pcbFree' = pcbFree \cup dead
  /\ pcb_parent' = [p \in Pcb |-> IF p \in dead THEN NULL ELSE pcb_parent[p]]
  /\ pcb_semAdd' = [p \in Pcb |-> IF p \in dead THEN NULL ELSE pcb_semAdd[p]]
  /\ s_procQ' = [a \in SemAdds |-> outProcQ(s_procQ[a], dead)]
  /\ sem' = [a \in SemAdds |->
               IF countedAsSoft(a) THEN sem[a]
               ELSE sem[a] + Cardinality({p \in dead : pcb_semAdd[p] = a})]
  /\ io' = [p \in Pcb |-> IF p \in dead THEN NULL ELSE io[p]]
  /\ UNCHANGED <<pcb_states, devStatus>>

-----------------------------------------------------------------------------
(* Interrupts *)

\* The devices whose interrupt is pending.
pending == {d \in Devices : devStatus[d] = "DONE"}

\* Between StartIO and the wait for it the process may have interrupts off.
interruptible ==
  \/ mode = "wait"
  \/ mode = "run" /\ io[currentProcess] \notin IoMasked

\* A pending interrupt is taken before the next instruction of a process.
executing == mode = "run" /\ (interruptible => pending = {} /\ ~expired)

SlipFinishUnchecked(ready, softCount) ==
  scheduler(insertProcQ(ready, currentProcess), processCount, softCount)

SlipFinishStaysIdle(ready, softCount) ==
  IF currentProcess = NULL
  THEN /\ readyQueue' = ready /\ softBlockCount' = softCount
       /\ UNCHANGED <<mode, currentProcess, expired, processCount>>
  ELSE scheduler(insertProcQ(ready, currentProcess), processCount, softCount)

\* Back from an interrupt: the interrupted process goes to the end of the queue.
finish(ready, softCount) ==
  scheduler(IF currentProcess = NULL THEN ready
            ELSE insertProcQ(ready, currentProcess),
            processCount, softCount)

\* The local timer, set to QUANTUM at every dispatch, runs out while the process
\* has interrupts off: its interrupt is pending until the timer is set again.
QuantumEndsMasked ==
  /\ mode = "run" /\ ~interruptible
  /\ expired' = TRUE
  /\ UNCHANGED <<mode, currentProcess, readyQueue, counts, pcbs, blocking, hardware>>

\* LINEONE: the timer runs out, or did so before interrupts were on again.
QuantumExpired ==
  /\ interruptible /\ (mode = "run" \/ expired)
  /\ finish(readyQueue, softBlockCount)
  /\ UNCHANGED <<pcbs, blocking, hardware>>

\* LINETWO, unless LINEONE is pending too: the loop takes the processes blocked
\* on the clock off it and ends when headBlocked finds nothing, so not while it
\* finds another semaphore.
IntervalTimer ==
  LET woken == IF headBlocked(s_procQ, ClockSem) = NULL THEN <<>>
               ELSE s_procQ[ClockSem]
      queues == IF woken = <<>> THEN s_procQ
                ELSE [s_procQ EXCEPT ![ClockSem] = <<>>]
      softCount == softBlockCount - Len(woken)
  IN  /\ interruptible /\ ~expired
      /\ s_procQ' = queues
      /\ pcb_semAdd' = [p \in Pcb |-> IF p \in Range(woken) THEN NULL
                                      ELSE pcb_semAdd[p]]
      /\ IF headBlocked(queues, ClockSem) = NULL
         THEN /\ sem' = [sem EXCEPT ![ClockSem] = 0]
              /\ finish(readyQueue \o woken, softCount)
         ELSE /\ mode' = "hang"
              /\ readyQueue' = readyQueue \o woken
              /\ softBlockCount' = softCount
              /\ UNCHANGED <<sem, currentProcess, expired, processCount>>
      /\ UNCHANGED <<pcbs, hardware>>

\* The bit searched for is never shifted, so a device other than 0 is never
\* found and the loop runs out.
getDeviceNumber(line) ==
  IF \E d \in pending : d.line = line /\ d.num = 0 THEN 0 ELSE DEVPERINT

SlipServedSender ==
  [line |-> CHOOSE l \in {d.line : d \in pending} : \A d \in pending : l <= d.line,
   num |-> 0, recv |-> FALSE]

\* The device the handler takes to be interrupting, from the highest-priority
\* line that has one.  Past the end of a line lies device 0 of the next one; a
\* terminal is taken for its transmitter unless that is READY.
servedDevice ==
  LET line == CHOOSE l \in {d.line : d \in pending} :
                \A d \in pending : l <= d.line
      num == getDeviceNumber(line)
      sender == [line |-> line, num |-> num, recv |-> FALSE]
  IN  IF line = TERMINT /\ devStatus[sender] = "READY" THEN OtherHalf(sender)
      ELSE sender

\* The register the ACK is written to: the device's own, which for the
\* device 0 a too high number designates is the receiver if it is a terminal.
acknowledged(d) ==
  IF d.num < DEVPERINT THEN d
  ELSE [line |-> d.line + 1, num |-> 0, recv |-> d.line + 1 = TERMINT]

\* LINETHREE to LINESEVEN: the ACK, then a V on the device's semaphore.
DeviceInterrupt ==
  LET d == servedDevice
      a == semIndex(d)
      ack == acknowledged(d)
  IN  /\ interruptible /\ ~expired /\ pending # {}
      /\ devStatus' = [e \in Devices |-> IF e = ack /\ e \in pending THEN "READY"
                                         ELSE devStatus[e]]
      /\ sem' = [sem EXCEPT ![a] = @ + 1]
      /\ IF wakesOne(a)
         THEN /\ removeBlocked(a)
              /\ finish(insertProcQ(readyQueue, Head(s_procQ[a])), softBlockCount - 1)
         ELSE /\ UNCHANGED <<s_procQ, pcb_semAdd>>
              /\ finish(readyQueue, softBlockCount)
      /\ UNCHANGED <<pcbs, io>>

-----------------------------------------------------------------------------
(* System calls and exceptions of the running process *)

\* SYS1: the child goes to the end of the ready queue; without a free block
\* the caller gets FAILURE and nothing changes.
sysCreate ==
  IF pcbFree = {} THEN UNCHANGED vars
  ELSE \E p \in pcbFree :
         /\ allocPcb(p)
         /\ processCount' = processCount + 1
         /\ pcb_parent' = [pcb_parent EXCEPT ![p] = currentProcess]
         /\ readyQueue' = insertProcQ(readyQueue, p)
         /\ UNCHANGED <<mode, currentProcess, expired, softBlockCount, sem, s_procQ,
                        hardware>>

\* SYS2: the caller and its progeny.
sysSendToNorthKorea ==
  LET dead == Family(currentProcess)
  IN  /\ executeOrderSixtySix(dead)
      /\ scheduler(outProcQ(readyQueue, dead),
                   processCount - Cardinality(dead),
                   softBlockCount
                     - Cardinality({p \in dead : countedAsSoft(pcb_semAdd[p])}))

\* SYS3: V.
sysSignal(a) ==
  /\ sem' = [sem EXCEPT ![a] = @ + 1]
  /\ IF wakesOne(a)
     THEN /\ removeBlocked(a)
          /\ readyQueue' = insertProcQ(readyQueue, Head(s_procQ[a]))
     ELSE UNCHANGED <<s_procQ, pcb_semAdd, readyQueue>>
  /\ UNCHANGED <<mode, currentProcess, expired, counts, pcbs, hardware>>

\* SYS4: P.
sysWait(a) ==
  /\ sem' = [sem EXCEPT ![a] = @ - 1]
  /\ IF sem[a] - 1 < 0
     THEN /\ insertBlocked(a, currentProcess)
          /\ scheduler(readyQueue, processCount, softBlockCount)
     ELSE resume /\ UNCHANGED <<s_procQ, pcb_semAdd>>
  /\ UNCHANGED <<pcbs, hardware>>

\* SYS5: sets the handler of one exception, once: a second call is fatal.
sysBYOL(type) ==
  IF type \in pcb_states[currentProcess] THEN sysSendToNorthKorea
  ELSE /\ pcb_states' = [pcb_states EXCEPT ![currentProcess] = @ \cup {type}]
       /\ resume
       /\ UNCHANGED <<pcbFree, pcb_parent, blocking, hardware>>

\* SYS7: P on the clock; the scheduler is called whether it blocks or not.
sysWaitForClock ==
  /\ sem' = [sem EXCEPT ![ClockSem] = @ - 1]
  /\ IF sem[ClockSem] - 1 < 0
     THEN /\ insertBlocked(ClockSem, currentProcess)
          /\ scheduler(readyQueue, processCount, softBlockCount + 1)
     ELSE /\ UNCHANGED <<s_procQ, pcb_semAdd>>
          /\ scheduler(readyQueue, processCount, softBlockCount)
  /\ UNCHANGED <<pcbs, hardware>>

\* SYS8: P on the semaphore of the device the caller has started.
sysGoPowerRangers(d) ==
  LET a == semIndex(d)
  IN  /\ sem' = [sem EXCEPT ![a] = @ - 1]
      /\ IF sem[a] - 1 < 0
         THEN /\ insertBlocked(a, currentProcess)
              /\ scheduler(readyQueue, processCount, softBlockCount + 1)
         ELSE resume /\ UNCHANGED <<s_procQ, pcb_semAdd>>
      /\ io' = [io EXCEPT ![currentProcess] = NULL]
      /\ UNCHANGED <<pcbs, devStatus>>

\* An exception is passed up to the handler the process has set for it, which
\* the process then runs.  Without one the argument of debugC is read through
\* the NULL old area first, an address error: a program trap of the nucleus
\* itself, passed up to the program trap handler the process has set, or
\* raised again and again.  The branch that kills the process is not reached.
pullUpAndDie(type) ==
  IF {type, PROGTRAP} \cap pcb_states[currentProcess] # {}
  THEN UNCHANGED vars
  ELSE /\ mode' = "hang"
       /\ UNCHANGED <<currentProcess, readyQueue, expired, counts, pcbs, blocking,
                      hardware>>

\* The processes' programs: which calls they make is left open, but a process
\* that has started a device waits for it next.  SYS1 to SYS8 in user mode are
\* program traps, other numbers SYS traps.
sysCallHandler ==
  /\ executing /\ io[currentProcess] = NULL
  /\ \/ sysCreate
     \/ sysSendToNorthKorea
     \/ \E a \in UserSems : sem[a] < MaxVal /\ sysSignal(a)
     \/ \E a \in UserSems : sysWait(a)
     \/ \E type \in Handled : sysBYOL(type)
     \/ sem[ClockSem] > -MaxTickWaits /\ sysWaitForClock

waitForIO ==
  \E d \in Devices : executing /\ io[currentProcess] = d /\ sysGoPowerRangers(d)

Trap ==
  /\ executing /\ io[currentProcess] = NULL
  /\ \E type \in Raised : pullUpAndDie(type)

\* A process writes a command to an idle device nobody else is using (the
\* mutual exclusion is the processes' own; a command to a busy device is lost).
StartIO(d) ==
  /\ executing /\ io[currentProcess] = NULL
  /\ devStatus[d] = "READY" /\ \A p \in Pcb : io[p] # d
  /\ sem[semIndex(d)] < MaxVal
  /\ OtherHalf(d) \in Devices /\ ~FullDuplex =>
       devStatus[OtherHalf(d)] = "READY" /\ \A p \in Pcb : io[p] # OtherHalf(d)
  /\ devStatus' = [devStatus EXCEPT ![d] = "BUSY"]
  /\ io' = [io EXCEPT ![currentProcess] = d]
  /\ resume
  /\ UNCHANGED <<pcbs, blocking>>

\* The device finishes and raises its interrupt.
DeviceDone(d) ==
  /\ mode \in {"run", "wait"}
  /\ devStatus[d] = "BUSY"
  /\ devStatus' = [devStatus EXCEPT ![d] = "DONE"]
  /\ resume
  /\ UNCHANGED <<pcbs, blocking, io>>

\* The machine has stopped: HALT, PANIC, or a handler that never ends.
Stopped == mode \notin {"run", "wait"} /\ UNCHANGED vars

\* main(): one process, made ready and dispatched; every semaphore of sem[] 0.
\* The programs give their own semaphores 0 or 1 before they use them.
Init ==
  /\ mode = "run"
  /\ currentProcess \in Pcb
  /\ readyQueue = <<>>
  /\ processCount = 1
  /\ softBlockCount = 0
  /\ \E v \in [UserSems -> {0, 1}] :
       sem = [a \in SemAdds |-> IF a \in UserSems THEN v[a] ELSE 0]
  /\ pcbFree = Pcb \ {currentProcess}
  /\ pcb_parent = [p \in Pcb |-> NULL]
  /\ pcb_semAdd = [p \in Pcb |-> NULL]
  /\ pcb_states = [p \in Pcb |-> {}]
  /\ s_procQ = [a \in SemAdds |-> <<>>]
  /\ devStatus = [d \in Devices |-> "READY"]
  /\ io = [p \in Pcb |-> NULL]
  /\ expired = FALSE

Next ==
  \/ sysCallHandler
  \/ waitForIO
  \/ Trap
  \/ QuantumEndsMasked
  \/ QuantumExpired
  \/ IntervalTimer
  \/ DeviceInterrupt
  \/ \E d \in Devices : StartIO(d) \/ DeviceDone(d)
  \/ Stopped

Spec == Init /\ [][Next]_vars

\* The timers and the devices deliver, and a process whose next instruction is
\* the wait for its device executes it.  The interval timer's interrupt stays
\* pending while a process has interrupts off, hence strong fairness.
Fairness ==
  /\ WF_vars(QuantumExpired)
  /\ SF_vars(IntervalTimer)
  /\ WF_vars(DeviceInterrupt)
  /\ WF_vars(waitForIO)
  /\ \A d \in Devices : WF_vars(DeviceDone(d))

FairSpec == Spec /\ Fairness

-----------------------------------------------------------------------------
(* Safety *)

Live == Pcb \ pcbFree
blockedOn(a) == {p \in Pcb : pcb_semAdd[p] = a}
softBlocked == {p \in Pcb : pcb_semAdd[p] \in DeviceOrClockSems}

\* Every process block is in exactly one place: on the free list, running, on
\* the ready queue, or on the queue of the one semaphore its pcb_semAdd names;
\* and it is on that queue once.  A block in two places is a corrupted list
\* (both links go through the block), one in none is a lost process.
ProcessPartition ==
  /\ NoRepeats(readyQueue)
  /\ \A a \in SemAdds : NoRepeats(s_procQ[a]) /\ Range(s_procQ[a]) = blockedOn(a)
  /\ \A p \in Pcb :
       /\ p \in pcbFree \/ p = currentProcess \/ p \in Range(readyQueue)
            \/ pcb_semAdd[p] # NULL
       /\ p \in pcbFree =>
            p # currentProcess /\ p \notin Range(readyQueue) /\ pcb_semAdd[p] = NULL
       /\ p = currentProcess => p \notin Range(readyQueue) /\ pcb_semAdd[p] = NULL
       /\ p \in Range(readyQueue) => pcb_semAdd[p] = NULL

\* processCount, on which scheduler() bases HALT, counts the processes alive
\* over any sequence of creations and killed families.
ProcessCountExact == processCount = Cardinality(Live)

\* softBlockCount, which tells a deadlock from a wait for a device, counts the
\* processes blocked on the clock or a device, killed ones leaving the count.
SoftBlockExact == softBlockCount = Cardinality(softBlocked)

\* A user semaphore is negative by the number of processes blocked on it, also
\* after some of those were killed by an ancestor (the ++ in
\* executeOrderSixtySix), so every later V wakes somebody or is remembered.
UserSemBalance ==
  \A a \in UserSems :
    Len(s_procQ[a]) = (IF sem[a] < 0 THEN -sem[a] ELSE 0)

\* insertBlocked, whose result nobody looks at, always finds a descriptor.
SemdAvailable == mode = "run" => Cardinality(ASL) < MAXPROC

\* Nobody outlives an ancestor: the parent of a live process is alive, and
\* free blocks carry no parent that a later insertChild would leave stale.
NoOrphans ==
  \A p \in Pcb :
    /\ p \in pcbFree => pcb_parent[p] = NULL
    /\ pcb_parent[p] # NULL => pcb_parent[p] \in Live

\* The scheduler's verdict is right: HALT when every process is gone, PANIC
\* when all that are left wait for each other, WAIT only if an interrupt is to
\* come for somebody; and it never returns to the handler that called it.
StopIsJustified ==
  /\ mode = "halt" => Live = {}
  /\ mode = "panic" => Live # {} /\ \A p \in Live : pcb_semAdd[p] \in UserSems
  /\ mode = "wait" =>
       \/ blockedOn(ClockSem) # {}
       \/ \E d \in Devices : blockedOn(semIndex(d)) # {} /\ devStatus[d] # "READY"
  /\ mode # "return"

\* Every interrupt handler ends: the loop that unblocks the processes waiting
\* for the clock terminates, headBlocked being NULL once none is left.
TickCompletes == Raised = {} => mode # "hang"

\* No lost completion: whoever is blocked on a device has its operation under
\* way or its interrupt still to come.
DeviceWaitHasIO ==
  \A d \in Devices : blockedOn(semIndex(d)) # {} => devStatus[d] # "READY"

\* With interrupts off from StartIO to SYS8, a device semaphore is -1 exactly while an
\* operation somebody asked to wait for is unfinished, even if the waiter has
\* been killed meanwhile (executeOrderSixtySix does not undo its P: the
\* interrupt does), and 0 otherwise: no stale count meets the next user.
DeviceSemMatchesIO ==
  \A d \in IoMasked :
    sem[semIndex(d)] =
      (IF devStatus[d] # "READY" /\ \A p \in Pcb : io[p] # d THEN -1 ELSE 0)

\* Why ProcessPartition holds, besides itself: the processor runs somebody,
\* and P on the clock always blocks its caller (sysWaitForClock calls the
\* scheduler in any case, so a caller that did not block would be lost).
Inv ==
  /\ TypeOK
  /\ ProcessPartition
  /\ mode = "run" => currentProcess # NULL
  /\ sem[ClockSem] <= 0

-----------------------------------------------------------------------------
(* What a step may never do *)

\* SYS8 does not return before the operation has completed: a process is
\* unblocked from a device only by that device's interrupt, and passes SYS8
\* without blocking only if the device is no longer busy.  (The second half
\* needs the mask: a process killed between its command and its SYS8 leaves a
\* completion nobody asked for, which lets the next user through at once.)
IoCompletesBeforeReturn ==
  [][\A p \in Pcb, d \in Devices : p \notin pcbFree' =>
       /\ pcb_semAdd[p] = semIndex(d) /\ pcb_semAdd'[p] = NULL =>
            devStatus[d] = "DONE" /\ devStatus'[d] = "READY"
       /\ io[p] = d /\ io'[p] = NULL /\ d \in IoMasked =>
            pcb_semAdd'[p] = semIndex(d) \/ devStatus[d] # "BUSY"]_vars

\* The semaphore an interrupt performs its V on is that of a device that was
\* interrupting, and the same device's interrupt is the one acknowledged.
InterruptServesInterruptingDevice ==
  [][\A a \in DeviceSems : sem'[a] > sem[a] =>
       \E d \in Devices : /\ semIndex(d) = a
                          /\ devStatus[d] = "DONE" /\ devStatus'[d] = "READY"]_vars

\* The documented "pass up or die": a process that raises an exception it has
\* no handler for is killed.
UnhandledTrapKills ==
  [][\A p \in Pcb :
       p = currentProcess /\ Trap /\ Raised \cap pcb_states[p] = {} =>
         p \in pcbFree']_vars

-----------------------------------------------------------------------------
(* Liveness *)

\* Round robin starves nobody: a ready process leaves the ready queue, to run
\* or killed.
ReadyRuns ==
  \A p \in Pcb : p \in Range(readyQueue) ~> p \notin Range(readyQueue)

\* The tick reaches everybody: who waits for the clock is woken (or killed).
ClockWakes == \A p \in Pcb : pcb_semAdd[p] = ClockSem ~> pcb_semAdd[p] # ClockSem

\* Who waits for a device gets its completion (or is killed).
IoReturns ==
  \A p \in Pcb, d \in Devices :
    pcb_semAdd[p] = semIndex(d) ~> pcb_semAdd[p] # semIndex(d)
=============================================================================
