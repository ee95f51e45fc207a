# Kaya: a TLA+ verification of the nucleus

Kaya is a teaching operating system in C for the uMPS2 machine: phase 1 holds
its lists, phase 2 the nucleus (processes, semaphores, eight system calls,
interrupts, a round-robin scheduler), phase 3 the support level (virtual memory,
user processes, delays, virtual semaphores). This directory models all three in
full control detail, model-checks them, and proves what phase 1, the nucleus
and the pager rest on: the shapes of the linked lists and that they
are queues and families, where processes are, what is counted, what devices'
semaphores are worth, the scheduler's choices, the billing of time, the
refinement of an abstract nucleus, the pager's mutual exclusion and page tables.

Run a configuration with the module the table of runs names, as in
`tlc -config Nucleus_io.cfg MCNucleus.tla`; check the proofs with
`tlapm` on each of the modules whose names end in `Proofs`.

## Inventory

| Part | Source | State | Operations | What makes it correct |
|---|---|---|---|---|
| Process blocks | phase1/pcb.c | free list, block fields | initPcbs, allocPcb, freePcb | a block is free or in use, never both |
| Process queues | phase1/pcb.c | circular lists behind a tail pointer | insertProcQ, removeProcQ, headProcQ, outProcQ | FIFO; removal keeps the order of the rest |
| Process tree | phase1/pcb.c | child, parent and sibling links | insertChild, removeChild, outChild | a forest; parents outlive children |
| Active semaphore list | phase1/asl.c | sorted list of descriptors between two dummies, free list | insertBlocked, removeBlocked, outBlocked, headBlocked | a descriptor exactly for the semaphores somebody is blocked on; enough of them |
| Start | phase2/initial.c | globals, new areas, first process | main | a state the handlers expect |
| System calls | phase2/exceptions.c | semaphores, counts, handler table of a process | SYS1 to SYS8, pass up or die, executeOrderSixtySix | counts agree with queues; a P and a V pair up; the dead leave no trace |
| Interrupts | phase2/interrupts.c | semaphores, device registers | lines 1 to 7, finish, getDeviceNumber | the right semaphore gets the V, the right device the ACK |
| Scheduler | phase2/scheduler.c | currentProcess, ready queue, times | scheduler | nobody starves; HALT, PANIC and WAIT are justified |
| Delay list, daemon | phase3/adl.c | sorted delay nodes | insertDelay, removeDelay, delayDaemon | who delays is woken, in time |
| Virtual semaphores | phase3/avsl.c, vmIOsupport.c | list of (semaphore, asid) | VSEMVIRT, PSEMVIRT | no lost wake-up |
| Pager | phase3/vmIOsupport.c | swap pool, page tables, disk 0 | vmMemHandler, spinTheBottle, readWriteBacking, meIRL | one frame per page, entry valid only if the frame holds it |
| User calls, drivers | phase3/vmIOsupport.c | device mutexes | terminal, printer and disk calls | mutual exclusion, every mutex accounted for |
| User processes | phase3/initProc.c | page tables, master semaphore | test, uProcInit, copy | all started, all waited for |
| Test programs | phase1/p1test.c, phase2/p2test.c | - | - | they are the processes, not the system |

How the parts interact: every exception enters a handler with interrupts off;
handlers share the globals `currentProcess`, `readyQueue`, `processCount`,
`softBlockCount` and `sem[]`, call the lists of phase 1 and leave by `LDST` (back
to the process), by the scheduler's dispatch, or by `WAIT`, `HALT`, `PANIC`.
Processes and devices meet in the device semaphores: SYS8 performs a P, the
interrupt the V. Phase 3 runs as processes of the nucleus with interrupts on,
except around device commands, and synchronises by nucleus semaphores.

What is hard: a device completes at any moment, before or after the SYS8 that
waits for it; processes die while running, ready, blocked on a semaphore, a
device or the clock, with a whole family; counts, queues and semaphore values
are maintained separately and must agree after every sequence of these; the
scheduler's choice between HALT, PANIC and WAIT rests on them; one link field
serves the queues and the free stack; a page fault crosses two semaphores and
four disk commands while others run, and may happen inside a driver that holds a
third; the virtual semaphores are decremented, tested and listed in separate
steps. `PROJECT.json` lists each hazard at its line.

## Modules

Phase 1:

- `PcbLists`: pcb.c, pointer by pointer: the free stack, the circular queues
  behind a tail pointer, the sibling lists. `Asl` adds asl.c: the sorted list of
  descriptors between two dummies and the free descriptors.
- `Phase1`: all of it under a caller that makes the calls of p1test.c and of the
  nucleus in any order, one call one action.
- `Lists`: the abstract specification, with sets and sequences for what callers
  see. `Phase1Lists`: the refinement mapping, which reads the sequences off the
  pointers. `MCPhase1`: the trials of the run, which bound what `Phase1` leaves open:
  how many blocks, whether they come back, which of them become parents.
  `Phase1Proofs`: that the links keep their shapes, proved. `Phase1ListsProofs`:
  that they implement `Lists`, proved.

Phases 1 and 2 together:

- `ProcQueue`: the process queues as sequences, and removal of a set; `Lists` and
  `Nucleus` share it, so that what the run `lists` shows of the pointers is what
  the nucleus' model uses.
- `Nucleus`: one action per handler:
  `sysCallHandler` (one disjunct per system call), `waitForIO` (SYS8), `Trap`
  (pass up or die), `QuantumExpired`, `IntervalTimer`, `DeviceInterrupt`. The
  environment is `StartIO` (a process writes a command), `DeviceDone` (a device
  raises its interrupt), `QuantumEndsMasked` (the local timer runs out while a
  process has interrupts off) and the processes' freedom to make any call.
  `scheduler`, `executeOrderSixtySix`, `finish` and the list operations are operators
  the handlers use, under the names of the code.
- `Lifecycle`: the abstract specification. A process is free, ready, running or
  blocked on one semaphore; one runs whenever one could.
- `NucleusLifecycle`: the refinement mapping from `Nucleus` to `Lifecycle`.
- `CpuTime`: the accounting of processor time over `Nucleus`: each of its steps takes
  some time and makes the clock readings and additions its handler makes; SYS6 is
  an action here, being all about times. `MCCpuTime`: its instance.
- `MCNucleus`: devices, semaphores and traps for the runs.
- `ProcQueueProofs`: lemmas on queues. `NucleusProofs`: the theorems on where
  processes are, on what is counted, and on the devices and the scheduler's choice.
- `LifecycleProofs`: that `Nucleus` implements `Lifecycle`. `CpuTimeProofs`: that the
  time a process runs is billed to it.

Phase 3:

- `Pager`: `test`, `uProcInit` with the tape to disk copy, `vmMemHandler` with
  `readWriteBacking`, the drivers of `vmSysHandler`, `meIRL`. A process's `pc` is the
  call it makes next; its steps are what lies between two calls of the nucleus,
  or between Interrupts(FALSE) and Interrupts(TRUE). `MCPager`: the user programs
  of the run. `PagerProofs`: its safety properties, proved.
- `DelayList`, `VirtualList`: adl.c and avsl.c. `Services`: VSEMVIRT, PSEMVIRT,
  DELAY and the delay daemon over the two, interleaving at every step.
  `ServicesProofs`: that the delay list stays empty.

Phase 3's modules rely on the nucleus being what `Nucleus` promises where its
passing runs say it keeps the promise: a P blocks, a V wakes the first, SYS8
returns when the device is done. Where the nucleus does not keep it, a wait
begun with interrupts off that never ends (violation 4), `Pager` assumes nothing:
no device has to finish there.

Definitions named `Slip...` are the definition they precede with a plausible
mistake in it. No specification uses them; replacing the right definition by one
shows which property notices the mistake.

### How state corresponds

| Variable | Code |
|---|---|
| `mode` | what the processor does: executing a process, `WAIT`, `HALT`, `PANIC`, looping in a handler, or returning from a scheduler that was not to return |
| `currentProcess`, `readyQueue`, `processCount`, `softBlockCount` | the globals of initial.c; the queue as a sequence, head first |
| `sem` | `sem[]` and the semaphores of the processes, by address: `&sem[i]` is `i`, other addresses are below 0 or from `TOTALSEM` on |
| `pcbFree` | the free list as a set: which free block `allocPcb` hands out does not matter to any property |
| `pcb_parent`, `pcb_semAdd`, `pcb_states` | fields of the process blocks; the handler table by which exceptions have a handler |
| `s_procQ` | the active semaphore list: `s_procQ[a]` is the queue of the descriptor for `a`, empty when there is none |
| `expired` | the local timer ran out and has not been set since: its line 1 interrupt is pending |
| `devStatus` | a device is READY, BUSY, or DONE with its interrupt pending |
| `io` | where a process is between its device command and its SYS8 |

In `CpuTime`, `tod` is the clock's register, `TODStarted` and `pcb_time` are the code's,
and `due` is an auxiliary variable no action reads: what a process should
have been billed for the time it ran.

In `PcbLists` and `Asl` every field and every static pointer is a variable of its
name; a block or a descriptor is its index in its array; NULL (0xFFFFFFFF) and
the zero that static storage starts with are different values, as in the code.
`where` is what the caller knows of a block. In `Pager`:

| Variable | Code |
|---|---|
| `pc`, `resume`, `job` | where a process is; where its last exception was raised, to which a page fault returns (the old area); what it uses disk 0 for |
| `semVal`, `semQ` | `swap`, `masterSem`, and `mutexArray`: disk 0's element and those of each process's tape, printer and terminal |
| `swapPool` | `sw_asid` and `sw_pte` of each frame (`sw_segNum`, `sw_pgNum` follow from the entry) |
| `pte` | the valid entries and their frames: `kuSeg3` and each `uProc_pte` |
| `next`, `frame`, `missing` | spinTheBottle's static, vmMemHandler's locals |
| `seeker` | the disk: whose seek came last |
| `reaped`, `panic` | test's loop counter; a driver called PANIC |

In `Services`, `value` are the words in the users' memory, `uProc_semAdd` the private
semaphores (entry 0 being the word before `uProcs`), `active`/`delaydFree` and
`vSem`/`vSemFree` the two lists and their free nodes.

The places where the code departs from what one would write are kept as they
are: `headBlocked` returns the head of the next descriptor at or above the
address; `getDeviceNumber` finds device 0 or runs off the line; a terminal is
taken for its transmitter unless that is READY; `countedAsSoft` takes in one word
too many; `pullUpAndDie` reads the old area before it tests for a handler;
`sysWaitForClock` calls the scheduler in any case; `insertBlocked` may fail with
nobody looking.

### Abstractions

- One handler is one step: the new areas are set to `ALLOFF`, so no handler is
  interrupted. A pending interrupt is taken before the next instruction of a
  process that has interrupts on.
- Register contents and processor states are not carried, and so neither is the
  device status that SYS8 should return. Times are left to `CpuTime`: no other
  state depends on them.
- In `CpuTime` time passes while a process executes, while the processor waits and
  inside handlers; between two readings of the clock that follow each other
  (the two of scheduler) none does, except between the two of SYS6.
  Who is woken by a tick is billed some part of the handler's time, the code's
  order among them left open: each from the handler's beginning, so two of them
  pay for the same time (interrupts.c:88). `due` starts anew with what the block
  holds then, and with what it holds at its allocation, which is the time of its
  former owner (allocPcb does not reset it). Both contradict what types.h:128 calls
  the field, 'time the process has spent on the CPU in microseconds'; neither is
  judged by `RunTimeBilled`, which says of the rest that it is right. The wrap to signed numbers at each addition is the
  one of the machine.
- The interval timer fires at any moment interrupts are on. The quantum runs out
  while a process runs; with interrupts off its interrupt stays pending until the
  next dispatch sets the timer.
- A process uses a device as the programs in the repository do: it owns the
  device (their mutexes), writes one command to an idle device and waits for it
  with SYS8. `IoMasked` is the set of devices whose users turn interrupts off
  between the two, as phase 3 does; p2test leaves the window open.
- Pages have no contents, and a disk transfer no status but "READY or not", both
  possible after every command: the nucleus drops the status SYS8 should return,
  so what a frame contains cannot be told. nVALID is 0 (const.h): and-ing it makes
  an entry not valid (and clears the rest, which the next load writes again),
  or-ing it, as meIRL does, leaves it valid; the model has both.
- A program trap of a user process, or of a driver at the address the user gave it
  (vmIOsupport.c:331, 379, 412), sends it to `vmPrgmHandler` with the number
  PROGTRAP as its stack pointer (initProc.c:169): its first push traps again. The
  model leaves it there, in "trapped", neither dead nor alive. If a driver's access
  did it, or ended the process in `meIRL`, the mutex of that device stays taken.
- diskIO's test for its command is always true, so a disk call ends in meIRL or in
  PANIC; what follows in it is not reached and not modelled. diskTest.c expects its
  status and its data instead (its lines 26, 36, 43); a single call shows the
  difference, so there is no run for it.
- Each step of a call in `Services` is atomic though nothing in the code makes it
  so: two calls of avsl.c may overlap and lose a node or an entry, which is left out.
  Finer steps would only add behaviours to those the two violations need, and no
  theorem relies on the coarse ones. `Init` is the state after `initADL` and
  `initAVSL`, which test calls when the user processes exist already
  (initProc.c:107-108); a call of theirs before that would find empty lists.
- Only terminal 0 is installed, both of its halves, and they are used one at a
  time unless `FullDuplex`.

## Runs

Bounds: `MaxVal = 1` caps a semaphore's value (a V above it is not made; the
interesting values are 1, 0 and below), `MaxTickWaits` the number of processes
that wait for one tick, of which two make a queue that has to be emptied.
`DEVPERINT` is 1 or 2 instead of 8: the layout of `sem[]` is the same function
of it. Three or four process blocks give every shape that matters: a parent, a
child, a grandchild, and one outside the family; three processes on one queue
have a head, a middle and a tail.

| Run | Module | Instance | Checks |
|---|---|---|---|
| processes | MCNucleus | 4 blocks, 2 semaphores, clock, SYS handlers and exceptions; no devices | type correctness; `ProcessPartition`; `ProcessCountExact`; `SoftBlockExact`; `UserSemBalance`; `NoOrphans`; `Inv`, the inductive invariant of the proofs; the refinement `ImplementsLifecycle` |
| io | MCNucleus | 4 blocks, 1 semaphore, a disk and a receiver used with interrupts off and a transmitter with the window open | `StopIsJustified`, `DeviceWaitHasIO`, `DeviceSemMatchesIO`, `SoftBlockExact`, `SemdAvailable`, `IoCompletesBeforeReturn`, `InterruptServesInterruptingDevice` |
| live | MCNucleus | 3 blocks, 1 semaphore, a disk used with the window open, `FairSpec` | `ReadyRuns`, `ClockWakes`, `IoReturns` |
| lists | MCPhase1 | 3 blocks on the queues of 3 semaphores and the ready queue; 2 there and back to the pool; 3 in any tree and back to the pool; 4 in two families | `FreeStackExact`, `QueuesAreRings`, `AslSorted`, `DescriptorsExact`, `SiblingsLinked`, `HeadBlockedFinds`, the refinement `ListsImplemented`, `FirstIsFirst` |
| pager | MCPager | 2 user processes, 2 frames, 2 pages a segment; both touch a private page and a shared one; one prints, the other reads lines | `OneAtATime`, `DevicesAccounted`, `PageInOneFrame`, `ValidMeansResident`, `NoAccessDuringTransfer`, `TransferWhereSought`, `DeadHoldNoFrame`, `FamilyEndsLast`, `FaultServed`, `SystemEnds` |
| time | MCCpuTime | 3 blocks, a disk, the clock, an exception; a clock of 2 bits, handlers that take 0 or 1 | `RunTimeBilled` |
| disk1 | MCNucleus | a disk numbered 1 | `InterruptServesInterruptingDevice` fails |
| clock_layout | MCNucleus | a semaphore above `sem[]` | `TickCompletes` fails |
| unhandled | MCNucleus | an exception without handler | `UnhandledTrapKills` fails |
| late_quantum | MCNucleus | as live, the disk used with interrupts off | `IoReturns` fails |
| delay | Services | 1 process that delays, also by a negative time | `DelayEnds` fails |
| vsem | Services | 2 processes, 1 virtual semaphore | `SleepersCounted` fails |

The bounds of the newer runs: with four children a child has siblings on both
sides, and one that is neither the first nor next to it; three semaphores give a
descriptor between two others. Two parents are enough for a child that changes
its family and for a parent that is a child itself; deeper trees, and blocks
that come back from the pool with the links of their last family, are the trial
with three. Where blocks come back from the queues there are two of them, one
that stays and one that is given back in between. The array has more blocks than
these trials use, so the free stack is never empty there; the trial with four
empties it. Three pages over two frames force the replacement, of the own page,
of the other process's and of the shared one; the stack's number (KUSEGSIZE)
exercises the cap.
const.h builds the system with one user process (MAXUSERPROC 1); the code, and
the testers pvTestA and pvTestB, are written for more, and two is where the
interleavings begin. `MaxTime` bounds `Services`' clock, which stands still there.
A clock of two bits passes through its wrap between any two events, and three
processes are one that is billed, one that a tick wakes and one that is killed
meanwhile; the property compares sums modulo the clock, so its width does not
matter to it.

In `Nucleus` the machine really stops (HALT, PANIC); `Stopped` stutters in these
states, so its runs also show that no other state is stuck. `Pager` ends when
`test` has, and stands still after a PANIC; there deadlock is not checked, and
`FaultServed` and `SystemEnds` say what must not get stuck.

The six violations are disagreements between the code and its own comments and
tests:

1. **disk1**, interrupts.c:245. `checkingDevice << 1;` has no effect. Only device
   0 of a line is recognised; any other one's interrupt is credited to device 0
   of the next line, is not acknowledged, and its waiter stays blocked.
2. **clock_layout**, asl.c:237. `headBlocked` does not compare the address it
   found; with a process blocked on a semaphore above `&sem[48]` the interval
   timer's handler never ends. Whether the build has such a semaphore depends on
   how the linker lays out the tests' variables; the other runs place them below.
3. **unhandled**, exceptions.c:491. The argument of a debug call is read through
   the old area before the test for a handler: a process without a handler is
   not killed, the nucleus traps on itself.
4. **late_quantum**, scheduler.c:69. The local timer is set at a dispatch only. If
   it runs out between a driver's Interrupts(FALSE) and its SYS8, and the SYS8
   leaves nobody ready, the WAIT that follows is interrupted by it at once, and
   again each time: nothing acknowledges it and it has priority over the device.
   With the window open the interrupt is taken before the SYS8, which is why the
   run live holds.
5. **delay**, adl.c:58. A node given to an empty free list is lost, so the list
   never has one: DELAY blocks its caller for ever.
6. **vsem**, vmIOsupport.c:175. The P on a virtual semaphore is not atomic; a V
   between its decrement and its entry in the list wakes nobody, and since 0 is
   compared with -1, increments the word before `uProcs`.

The runs that pass keep away from the nucleus' slips by their constants: devices
numbered 0, one half of a terminal at a time, semaphores below `sem[]`, exceptions
the process has a handler for or the machine stops. Three further slips have no run. Two are layouts or uses the repository does
not have: exceptions.c:461 compares with `&sem[TOTALSEM]`, so a semaphore right behind
the array would count as a device's when a process blocked on it is killed; and
interrupts.c:149 takes a transmitter that is merely busy for the interrupting
half of its terminal, so with `FullDuplex = TRUE` and both halves in use
`InterruptServesInterruptingDevice` fails in the run io (no program of the repository
uses both at once). The third is the clock's wrap: STCK divides its reading by the
time scale (const.h:140), so with a `TIMESCALE` above 1 `RunTimeBilled` fails where
the clock passes from its positive to its negative half; with 1 it holds.

What `Pager` says is said of private pages. For those of the shared segment the
code does less, and the model shows it: two processes that fault on one shared
page each load it, into two frames, the second not looking again after its P; a
terminated process's shared pages stay valid while their frames are given away;
and a shared page is written back to, and read from, the place of whoever
faulted on it. No comment of the repository promises more, so there is no run.

### Fairness

`FairSpec` assumes what the machine does, not what a process does: the local
timer expires (weak fairness of `QuantumExpired`), the interval timer keeps
firing and its interrupt stays pending while a process has interrupts off
(strong fairness of `IntervalTimer`, which is disabled in between), a pending
device interrupt is taken, a busy device finishes, and a process between its
command and its SYS8 executes the latter. Nothing is assumed of which calls
processes make, or that they ever give up the processor by themselves.

In `Pager` every process that is neither blocked nor waiting for a device takes its
next step (the scheduler's turns reach it: `ReadyRuns`), and so does `test`; what a
user program chooses to do (`Choose`) is assumed nothing of, and neither is it
assumed that a device finishes. The drivers and the pager wait with interrupts
off, and of such a wait the nucleus does not guarantee the end (violation 4; for a
device numbered 1, violation 1). `FaultServed` therefore has `DiskAnswers` for a
hypothesis, that no process is for ever in a wait for disk 0: what it says is
that nothing else is in a fault's way - the P's on `swap` and on disk 0's mutex, by
faults, tapes and deaths - however long a terminal, a printer or a tape takes. The semaphores are
not assumed fair: their queues are modelled. In `Services` the clock ticks, the
daemon and the calls under way go on.

## Theorems

Those about the nucleus are proved for every finite set of process blocks, every
number of devices on a line, every set of semaphore addresses outside `sem[]`,
every set of devices, exceptions and handlers, and both I/O disciplines, those
about the pager for every number of user processes, frames and pages and every
set of user programs, the one about the services for every number of processes and
nodes; the assumptions are the named ones of the modules. What a
theorem needs besides stands in its ASSUME and is given here; each such
hypothesis is what one of the slips above makes necessary.

Where processes are (`NucleusProofs`), with the slips 1 to 4 in the code and
whatever the layout:

- `Invariance`: `Spec => []Inv`, with `Inv` the conjunction of `TypeOK`,
  `ProcessPartition`, "a running processor runs somebody" and "the clock
  semaphore is not positive". The last one is why the partition is inductive:
  SYS7 calls the scheduler even if its P does not block, and the caller would
  then be on no queue; the clock's semaphore only goes down by P and back to 0
  by a tick. A device interrupt does not touch it as long as its index stays
  below the clock's, which is where the assumption on terminals is used.
- `TypeCorrect`, `PartitionCorrect`: its first two conjuncts.
- `DescriptorsSuffice`: `Spec => []SemdAvailable`. Each active descriptor holds
  a different process, the running one is on none, so fewer than MAXPROC are
  in use when a call needs one. The invariance proof itself needs this: it is why
  `insertBlocked` never takes its failing branch.

What is counted (also `NucleusProofs`):

- `ProcessCountCorrect`, `NobodyOrphaned`: `processCount` is exact and no process
  outlives its parent. They are inductive together with `Inv`: a family is the
  least set with its root that is closed under children; the live processes are
  such a set (free blocks have no parent), so the dead were all alive and the
  count drops by as many; and the family being closed, no child is left behind.
- `SoftBlockCorrect`: `softBlockCount` is exact. `SemBalanceCorrect`: a user
  semaphore is negative by the number of processes blocked on it. Both assume
  `TOTALSEM \notin UserSems`, that no semaphore lies right behind `sem[]`: this is
  the off-by-one of exceptions.c:461, and without the assumption they are false.

Devices and the scheduler's choice (also `NucleusProofs`), assuming `Manageable`:
every device is numbered 0, which slip 1 requires, and one half of a terminal is
used at a time, which interrupts.c:149 requires; any of them may be used with
interrupts off or with the window open.

- `DeviceInvariance`: `Spec => []DeviceInv`. Its parts: `Consistent`, for each device,
  ties the value of its semaphore to its status, to who has a command under way
  and to who is blocked (a DONE device may have its waiter at -1 or its user not
  yet at SYS8, a killed waiter leaves its -1 behind until the interrupt);
  `MaskedRuns`, a process between a masked command and its SYS8 is the running
  one, without which its wait would find a count that another's interrupt has
  changed; `OneHalf`, by which `servedDevice` picks the half that interrupts;
  `Installed`, nobody waits for a device there is not.
- `DeviceWaitHasIOCorrect`, `DeviceSemMatchesIOCorrect`: two readings of it.
  `InterruptServesCorrect`, `IoCompletesCorrect`: action properties that follow from
  it, the first with `ServedIsPending`: the device that the search through the
  lines ends at has its interrupt pending.
- `StopIsJustifiedCorrect`: HALT, PANIC and WAIT are right. `scheduler` decides by two
  counts; these being exact (hence `TOTALSEM \notin UserSems` again), no process
  is left when it halts, and when it panics nobody is blocked on a device or the
  clock, so that by the partition all are blocked on user semaphores. When
  it waits somebody is blocked on the clock or a device, and by `DeviceInv` that
  device is not READY: an interrupt will come. `Verdict` is the same said of the
  mode in terms of the counts, and inductive.

The refinement (`LifecycleProofs`):

- `LifecycleImplemented`: `Spec => ImplementsLifecycle`. Each action of `Nucleus`,
  with the scheduler and the lists it calls, maps to one action of `Lifecycle` or
  to a stutter: an interrupt that wakes processes to `Interrupt`, any other to `Preempt`, SYS2 and a
  second SYS5 to `Terminate`, the P's to `Block`. The partition makes the mapping
  well defined (`StateTells`): a handler may then be followed list by list. The
  hypothesis is that the programs' semaphores lie below `sem[]`: with slip 2 the
  processor hangs with processes made ready and nobody running.

The billing of time (`CpuTimeProofs`):

- `BillingCorrect`: `TimedSpec => []RunTimeBilled`, for a clock of any width with a
  `TIMESCALE` of 1 (see the third slip without a run). Its hypothesis `UnitClock` says
  besides that the power 2^WIDTH is positive: true, but an induction the provers
  cannot make. What a process has been billed and what it has run since
  (`Owed`) grows, modulo the clock, by what it runs in each step, and a dispatch
  starts from the reading the bill ended with; `Inv` gives that who is woken is not who
  is interrupted, and that a new process is not the running one. What it leaves
  aside, the inherited time and a tick's overlapping bills, is under Abstractions.

The pager (`PagerProofs`):

- `Invariance`: `Spec => []Inv`; `TypeCorrect` and one theorem for each safety
  property of the run, `FamilyEndsLast` included. `Control`, inductive by itself, is
  about semaphores: `swap` and disk 0's mutex are 1 less the number of processes
  whose `pc` lies between P and V, all but one of whom wait, and do so where the
  fault or the transfer begins (`Guarded`, which is inductive for any P and V that
  keep to it); `masterSem` is the number of processes that have ended less the
  number `test` has seen; `DevicesAccounted` says who holds the other mutexes: a
  driver that runs, or one that an access of its own left for good. With `swap`
  exclusive, the rest of `Inv` is what its holder relies on from step to step: the
  page it is loading is in no frame, the frame it has chosen is named by no valid
  entry once it is emptied, and every private page in the pool is mapped there or in
  the hands of the holder of `swap`. `OneAtATime`, `PageInOneFrame`, `ValidMeansResident`,
  `NoAccessDuringTransfer` (of private entries) and `DeadHoldNoFrame` are read off; `TransferWhereSought`
  needs disk 0's mutex from the seek on, `FamilyEndsLast` the count of `masterSem`.

Phase 1, pointer by pointer (`Phase1Proofs`), for every number of blocks, every set
of semaphores and every trial:

- `QueueInvariance`: `Spec => []QueueInv`. Its parts need each other: that `allocPcb` takes
  a block of the pool is what `FreeStackExact` says, that taking it disturbs no queue
  is that the caller's knowledge (`where`) puts a block in one place, that
  `removeBlocked` finds the queue of its semaphore needs `AslSorted` and
  `DescriptorsExact`, and these that the queue of a descriptor is exactly who waits
  (`QueuesAreRings`). `FreeStackExactCorrect`, `QueuesAreRingsCorrect`, `AslSortedCorrect` and
  `DescriptorsExactCorrect` are its parts.
- The lemmas are about shapes: `RingInsert`, `RingOut`, `RingFound` (the search of
  `outProcQ` meets exactly the blocks of the ring), `ChainPush`, `ChainPop`, `ChainRemove`,
  `ListInsert`, `ListDelete`. The shapes say "no part is closed in itself" by a
  quantifier over sets, so no induction along a list is needed. `SearchStops`, that the loop
  of `searchASL` ends and where, is a pigeonhole argument: if it never stopped, next
  would be an injection of the descriptors passed into themselves that misses the
  first one.
- `DescriptorLeftCorrect`: `insertBlocked` never returns TRUE while its caller holds
  the block, for as many semaphores as there may be.
- `SiblingsLinkedCorrect`, from `TreeInvariance`. Its strengthening `OutsideFamilies` is about
  what phase 1 leaves in its blocks: `allocPcb` does not reset `pcb_parent`, so a block
  may be held with the zero of its storage for a parent; `outChild` takes it for no
  child because its sibling links are NULL, and a block in the pool is nobody's
  parent.
- `Phase1TypeCorrect`: `TypeOK`, from both.

Phase 1 against its specification (`Phase1ListsProofs`), with the same generality:

- `ListsImplementedCorrect`: `Spec => ListsImplemented`. Every call of pcb.c and asl.c is
  one step of `Lists` or changes nothing there (a queue found empty). The mapping reads
  a sequence off the pointers with `Along`, a recursive function, and what such a
  function computes is as a rule an induction over data. Here it is not:
  `PathIsAlong` compares it with a path, a sequence without repetitions that follows
  the links and ends at NULL, at the first place where the two would differ, and that
  there is none is a pigeonhole argument (`NumbersStop`: a set of numbers up to n that
  contains 1 and with each number the next contains n). That there is a path is
  `LongestExists`: of the sequences that follow the links without repetition, which
  are no longer than there are blocks, take a longest; it ends at NULL, and the
  shape's quantifier over sets (`QueuesAreRings`, `SiblingsLinked`, `FreeStackExact`) says
  it misses no member. What a call does to a line is then what it does to a path:
  `PathPush`, `PathOut`, `Bypass`, `OutOfOne`.
- `FirstIsFirstCorrect`: the action property, from the same lemmas: what is removed is
  the first element of the line, and an empty line is left as it is.
  `HeadBlockedFindsCorrect`: `headBlocked` gives that element.

The services of phase 3 (`ServicesProofs`):

- `DelayListStaysEmpty`: `initADL` leaves no free node however many there are
  (`NoNodeAtFirst`, on the recursive function that stands for its loop, again with a
  pigeonhole), so nobody is ever in the delay list: the cause of violation 5, for
  every size. Without a free node `insertDelay` ends at its first test, so it does not matter
  that the model makes one step of it. That DELAY's caller then sleeps for ever is
  liveness, and left to the run. Of the virtual list nothing is proved: its calls
  may overlap in the code and not in the model.

How the proofs are laid out: the proof that an invariant is inductive has one
lemma per action, and follows a handler through the operators it is built from.
`ProcQueueProofs` has the facts on sequences: what appending, taking the head,
concatenating and removing a set do to the range and to the absence of
repetitions. `RankBijection` shows that the elements kept by `outProcQ` are
enumerated in order without gaps. `Placed` states the partition of five values
that need not yet be those of the variables, since a handler builds them in
several moves (`WakePlaced`, `KillPlaced`, `SchedulerPlaced` and so on); each
inductive invariant was checked with TLC before it was proved.

Only model-checked: the five liveness properties, `ReadyRuns`, `ClockWakes`, `IoReturns`,
`FaultServed` and `SystemEnds`, since liveness under fairness and ENABLED are out of the
prover's reach. Every other property of a passing run is a theorem.

## Plan

The order followed: the nucleus first, then phase 1 pointer by pointer and its
refinement, the pager, the accounting of time, the services; for each the runs
before the theorems. What could still be added: the calls of avsl.c and adl.c in
finer steps, which nothing in the code makes atomic, and the insertion of adl.c's
`searchDelayd` on a list that, were `freeDelayd` repaired, would have entries.

## Not modelled

GET_TOD, which only reads the clock; register and
memory contents, and with them the device status; debugging stubs and build files.
The programs of p2test.c and of phase 3's testers appear as the freedom of the
processes. uMPS2 itself is external: its timers, devices and interrupt priorities
are modelled as far as the handlers depend on them.
