------------------------------- MODULE Pager -------------------------------
(***************************************************************************)
(* Phase 3 above the nucleus: test, which starts the user processes and    *)
(* waits for their end; uProcInit, which copies a process's tape to its    *)
(* part of disk 0; the demand pager of vmIOsupport.c, with its round-robin *)
(* replacement; the character drivers and the end of a process, meIRL.     *)
(*                                                                         *)
(* The handlers run with interrupts on and the processes interleave at     *)
(* every label; what stands between Interrupts(FALSE) and Interrupts(TRUE) *)
(* is one action, up to the SYS8 it may contain.  P and V are what the     *)
(* nucleus makes them: a value, and the blocked processes in order.        *)
(***************************************************************************)
EXTENDS ProcQueue

CONSTANTS MAXUSERPROC,  \* user processes, which are named by their ASID
          SWAPSIZE,     \* frames of the swap pool
          KUSEGSIZE,    \* pages of a user segment
          Drivers,      \* which user program calls which driver
          Touched,      \* program |-> the pages it touches: segment and number
          NONE          \* no frame, no page

ASSUME PagerAssumption ==
  /\ MAXUSERPROC \in Nat \ {0} /\ SWAPSIZE \in Nat \ {0} /\ KUSEGSIZE \in Nat \ {0}
  /\ NONE \notin Int

\* The page numbers there are: the last entry of segment 2 is that of the stack,
\* the page below segment 3, and has its number.
Touchable == {<<2, n>> : n \in (0 .. KUSEGSIZE) \ {KUSEGSIZE - 1}}
             \cup {<<3, n>> : n \in 0 .. KUSEGSIZE - 1}

ASSUME ProgramAssumption ==
  /\ Drivers \subseteq (1 .. MAXUSERPROC) \X {"printer", "termRead", "termWrite"}
  /\ \A u \in 1 .. MAXUSERPROC : Touched[u] \subseteq Touchable

User == 1 .. MAXUSERPROC
Test == 0
Process == {Test} \cup User
Frame == 0 .. SWAPSIZE - 1

\* A page table entry: kuSeg3 is one table for all, uProc_pte one per process.
Entry == {<<2, u, n>> : u \in User, n \in 0 .. KUSEGSIZE - 1}
         \cup {<<3, 0, n>> : n \in 0 .. KUSEGSIZE - 1}
Private == {e \in Entry : e[1] = 2}

\* The semaphores: swap, mutexArray[DISK0], masterSem, and the four private
\* ones in mutexArray that the devices of a process have, one pair per process.
Swap == <<"swap">>
Disk0 == <<"disk0">>
Master == <<"master">>
Device == {"tape", "printer", "termRead", "termWrite"}
Mutex(d, u) == <<d, u>>
Sem == {Swap, Disk0, Master} \cup {Mutex(d, u) : d \in Device, u \in User}

VARIABLES
  pc,          \* process |-> the label it is at, see Label
  semVal,      \* semaphore |-> its value
  semQ,        \* semaphore |-> the processes blocked on it
  swapPool,    \* frame |-> sw_asid and sw_pte
  pte,         \* entry |-> the frame it maps, NONE when it is not valid
  next,        \* spinTheBottle's static
  frame,       \* process |-> its newFrame
  missing,     \* process |-> the entry of the page it faulted on
  resume,      \* process |-> the label its last exception was raised at, which
               \* is where a page fault goes back to
  job,         \* process |-> what it uses disk 0 for: "tape", "out", "in"
  seeker,      \* the process whose seek disk 0 carried out last, until the
               \* mutex is given back
  reaped,      \* test's loop: the P's on masterSem it has got through
  panic        \* a driver called PANIC: the machine stands still

memory == <<swapPool, pte, next>>
locals == <<frame, missing, resume, job>>
vars == <<pc, semVal, semQ, memory, locals, seeker, reaped, panic>>

\* The locals of u once the handler they belong to has returned or is left.
Returned(u) == /\ frame' = [frame EXCEPT ![u] = NONE]
               /\ missing' = [missing EXCEPT ![u] = NONE]
               /\ resume' = [resume EXCEPT ![u] = "user"]
               /\ job' = [job EXCEPT ![u] = "tape"]

Init == /\ pc = [p \in Process |-> IF p = Test THEN "create" ELSE "unborn"]
        /\ semVal = [s \in Sem |-> IF s = Master THEN 0 ELSE 1]
        /\ semQ = [s \in Sem |-> <<>>]
        /\ swapPool = [f \in Frame |-> [sw_asid |-> -1, sw_pte |-> NONE]]
        /\ pte = [e \in Entry |-> NONE]
        /\ next = 0
        /\ frame = [u \in User |-> NONE]
        /\ missing = [u \in User |-> NONE]
        /\ resume = [u \in User |-> "user"]
        /\ job = [u \in User |-> "tape"]
        /\ seeker = NONE
        /\ reaped = 0
        /\ panic = FALSE

-----------------------------------------------------------------------------
(* The nucleus, as phase 3 sees it *)

Blocked(p) == \E s \in Sem : p \in Range(semQ[s])

\* p is about to execute what label l stands for.
At(p, l) == pc[p] = l /\ ~Blocked(p) /\ ~panic

Goto(p, l) == pc' = [pc EXCEPT ![p] = l]

SlipPNotBlocking(s, p) == /\ semVal' = [semVal EXCEPT ![s] = @ - 1]
                          /\ UNCHANGED semQ

\* SYS4 and SYS3.  A process that has to wait is at its next label already.
P(s, p) == /\ semVal' = [semVal EXCEPT ![s] = @ - 1]
           /\ semQ' = IF semVal[s] - 1 < 0 THEN [semQ EXCEPT ![s] = insertProcQ(@, p)]
                      ELSE semQ

V(s) == /\ semVal' = [semVal EXCEPT ![s] = @ + 1]
        /\ semQ' = IF semVal[s] + 1 <= 0 THEN [semQ EXCEPT ![s] = Tail(@)] ELSE semQ

GoOn == UNCHANGED <<semVal, semQ>>

-----------------------------------------------------------------------------
(* test *)

\* SYS1 for the next user process; after the last, the lists and the daemon.
Create == /\ At(Test, "create")
          /\ LET unborn == {u \in User : pc[u] = "unborn"}
                 u == CHOOSE v \in unborn : \A w \in unborn : v <= w
             IN  pc' = [pc EXCEPT ![u] = "init",
                                  ![Test] = IF unborn = {u} THEN "reap" ELSE @]
          /\ GoOn
          /\ UNCHANGED <<memory, locals, seeker, reaped, panic>>

SlipReap == /\ At(Test, "reap") /\ reaped < MAXUSERPROC
            /\ reaped' = reaped + 1
            /\ Goto(Test, IF reaped' >= MAXUSERPROC - 1 THEN "finish" ELSE "reap")
            /\ P(Master, Test)
            /\ UNCHANGED <<memory, locals, seeker, panic>>

Reap == /\ At(Test, "reap")
        /\ reaped' = reaped + 1
        /\ Goto(Test, IF reaped' = MAXUSERPROC THEN "finish" ELSE "reap")
        /\ P(Master, Test)
        /\ UNCHANGED <<memory, locals, seeker, panic>>

\* SYS2 ends test and its progeny, whatever they are at; a V for each of those
\* blocked on a semaphore.
Finish == /\ At(Test, "finish")
          /\ pc' = [p \in Process |-> "dead"]
          /\ semVal' = [s \in Sem |-> semVal[s] + Len(semQ[s])]
          /\ semQ' = [s \in Sem |-> <<>>]
          /\ UNCHANGED <<memory, locals, seeker, reaped, panic>>

-----------------------------------------------------------------------------
(* uProcInit *)

TapeP(u) == /\ At(u, "init") /\ Goto(u, "tapeRead")
            /\ P(Mutex("tape", u), u)
            /\ UNCHANGED <<memory, locals, seeker, reaped, panic>>

TapeRead(u) == /\ At(u, "tapeRead") /\ Goto(u, "tapeReading")
               /\ GoOn
               /\ UNCHANGED <<memory, locals, seeker, reaped, panic>>

TapeDone(u) == /\ At(u, "tapeReading") /\ Goto(u, "diskP")
               /\ job' = [job EXCEPT ![u] = "tape"]
               /\ GoOn
               /\ UNCHANGED <<memory, frame, missing, resume, seeker, reaped, panic>>

\* The tape has no more blocks, or did not say READY; the user's code is next.
TapeV(u) == /\ At(u, "tapeV") /\ Goto(u, "user")
            /\ V(Mutex("tape", u))
            /\ UNCHANGED <<memory, locals, seeker, reaped, panic>>

-----------------------------------------------------------------------------
(* readWriteBacking, and the half of uProcInit's loop that is the same code *)

DiskP(u) == /\ At(u, "diskP") /\ Goto(u, "seek")
            /\ P(Disk0, u)
            /\ UNCHANGED <<memory, locals, seeker, reaped, panic>>

Seek(u) == /\ At(u, "seek") /\ Goto(u, "seeking")
           /\ seeker' = u
           /\ GoOn
           /\ UNCHANGED <<memory, locals, reaped, panic>>

\* SYS8 gives back no status: whether the caller finds READY in it is open, and
\* without it the block is not transferred.
SeekDone(u) == /\ At(u, "seeking")
               /\ Goto(u, "transferring") \/ Goto(u, "diskV")
               /\ GoOn
               /\ UNCHANGED <<memory, locals, seeker, reaped, panic>>

TransferDone(u) == /\ At(u, "transferring") /\ Goto(u, "diskV")
                   /\ GoOn
                   /\ UNCHANGED <<memory, locals, seeker, reaped, panic>>

\* What follows: another block of the tape or none, the read that follows the
\* write of the page that had the frame, or the end of the fault.
DiskV(u) == /\ At(u, "diskV")
            /\ V(Disk0)
            /\ seeker' = NONE
            /\ \/ job[u] = "tape" /\ UNCHANGED job /\ Goto(u, "tapeRead")
               \/ job[u] = "tape" /\ UNCHANGED job /\ Goto(u, "tapeV")
               \/ job[u] = "out" /\ job' = [job EXCEPT ![u] = "in"] /\ Goto(u, "diskP")
               \/ job[u] = "in" /\ UNCHANGED job /\ Goto(u, "install")
            /\ UNCHANGED <<memory, frame, missing, resume, reaped, panic>>

-----------------------------------------------------------------------------
(* vmMemHandler *)

\* The labels at which user pages are read or written: the user's own code and
\* the drivers, on its behalf.
Touching == {"user", "printer", "termWrite", "store"}

\* The entry of page number n; a number past the table is the stack's page.
EntryOf(segment, u, n) ==
  <<segment, IF segment = 3 THEN 0 ELSE u,
    IF n >= KUSEGSIZE THEN KUSEGSIZE - 1 ELSE n>>

\* u goes on at l, in the handler of an exception.
Raise(u, l) == Goto(u, l) /\ resume' = [resume EXCEPT ![u] = pc[u]]

\* The page u touches is not valid.
Fault(u, segment, n) ==
  /\ \E l \in Touching : At(u, l)
  /\ pte[EntryOf(segment, u, n)] = NONE
  /\ missing' = [missing EXCEPT ![u] = EntryOf(segment, u, n)]
  /\ Raise(u, "swapP")
  /\ GoOn
  /\ UNCHANGED <<memory, frame, job, seeker, reaped, panic>>

\* A TLB exception for another cause than a missing page ends the process.
BadFault(u) ==
  /\ \E l \in Touching : At(u, l)
  /\ Raise(u, "dieP")
  /\ GoOn
  /\ UNCHANGED <<memory, frame, missing, job, seeker, reaped, panic>>

SwapP(u) == /\ At(u, "swapP") /\ Goto(u, "spin")
            /\ P(Swap, u)
            /\ UNCHANGED <<memory, locals, seeker, reaped, panic>>

SlipSpinKeepsEntry(u) ==
  LET f == (next + 1) % SWAPSIZE
      old == swapPool[f]
  IN  /\ At(u, "spin") /\ Goto(u, "diskP")
      /\ next' = f
      /\ frame' = [frame EXCEPT ![u] = f]
      /\ job' = [job EXCEPT ![u] = IF old.sw_asid # -1 THEN "out" ELSE "in"]
      /\ UNCHANGED pte
      /\ GoOn
      /\ UNCHANGED <<swapPool, missing, resume, seeker, reaped, panic>>

\* spinTheBottle, and the entry of the page that had the frame made not valid.
Spin(u) ==
  LET f == (next + 1) % SWAPSIZE
      old == swapPool[f]
  IN  /\ At(u, "spin") /\ Goto(u, "diskP")
      /\ next' = f
      /\ frame' = [frame EXCEPT ![u] = f]
      /\ job' = [job EXCEPT ![u] = IF old.sw_asid # -1 THEN "out" ELSE "in"]
      /\ pte' = IF old.sw_asid # -1 THEN [pte EXCEPT ![old.sw_pte] = NONE] ELSE pte
      /\ GoOn
      /\ UNCHANGED <<swapPool, missing, resume, seeker, reaped, panic>>

SlipInstallNoEntry(u) ==
  LET f == frame[u]
  IN  /\ At(u, "install") /\ Goto(u, "swapV")
      /\ swapPool' = [swapPool EXCEPT ![f] = [sw_asid |-> u, sw_pte |-> missing[u]]]
      /\ GoOn
      /\ UNCHANGED <<pte, next, locals, seeker, reaped, panic>>

SlipInstallOldOwner(u) ==
  LET f == frame[u]
  IN  /\ At(u, "install") /\ Goto(u, "swapV")
      /\ swapPool' = [swapPool EXCEPT ![f].sw_pte = missing[u]]
      /\ pte' = [pte EXCEPT ![missing[u]] = f]
      /\ GoOn
      /\ UNCHANGED <<next, locals, seeker, reaped, panic>>

Install(u) ==
  LET f == frame[u]
  IN  /\ At(u, "install") /\ Goto(u, "swapV")
      /\ swapPool' = [swapPool EXCEPT ![f] = [sw_asid |-> u, sw_pte |-> missing[u]]]
      /\ pte' = [pte EXCEPT ![missing[u]] = f]
      /\ GoOn
      /\ UNCHANGED <<next, locals, seeker, reaped, panic>>

SwapV(u) == /\ At(u, "swapV") /\ Goto(u, resume[u])
            /\ V(Swap)
            /\ Returned(u)
            /\ UNCHANGED <<memory, seeker, reaped, panic>>

-----------------------------------------------------------------------------
(* The drivers of vmSysHandler *)

\* SYS9, SYS10 and SYS16: the mutex of the device, then a loop.
Drive(u, d) == /\ <<u, d>> \in Drivers
               /\ At(u, "user") /\ Goto(u, d)
               /\ P(Mutex(d, u), u)
               /\ UNCHANGED <<memory, locals, seeker, reaped, panic>>

\* writePrinter and writeTerminal: a character is read, perhaps from a page that
\* has to be brought in, and written to the device in one piece with the wait.
Write(u) == \E d \in {"printer", "termWrite"} :
              /\ At(u, d) /\ Goto(u, IF d = "printer" THEN "printing" ELSE "sending")
              /\ GoOn
              /\ UNCHANGED <<memory, locals, seeker, reaped, panic>>

\* Without a status from SYS8 the check for an error may find one.
Written(u) == \E d \in {"printer", "termWrite"} :
                /\ At(u, IF d = "printer" THEN "printing" ELSE "sending")
                /\ Goto(u, d)
                /\ panic' \in BOOLEAN
                /\ GoOn
                /\ UNCHANGED <<memory, locals, seeker, reaped>>

Read(u) == /\ At(u, "termRead") /\ Goto(u, "receiving")
           /\ GoOn
           /\ UNCHANGED <<memory, locals, seeker, reaped, panic>>

\* readTerminal stores the character before it checks, and ends at a new line.
Received(u) == /\ At(u, "receiving")
               /\ \/ Goto(u, "store") /\ UNCHANGED panic
                  \/ Goto(u, "readV") /\ panic' \in BOOLEAN
               /\ GoOn
               /\ UNCHANGED <<memory, locals, seeker, reaped>>

Store(u) == /\ At(u, "store") /\ Goto(u, "termRead")
            /\ panic' \in BOOLEAN
            /\ GoOn
            /\ UNCHANGED <<memory, locals, seeker, reaped>>

SlipDriven(u) == \E d \in {"printer", "termWrite", "termRead"} :
               /\ At(u, IF d = "termRead" THEN "readV" ELSE d) /\ Goto(u, "user")
               /\ GoOn
               /\ UNCHANGED <<memory, locals, seeker, reaped, panic>>

\* The end of a driver: len characters are out, or the line is in.
Driven(u) == \E d \in {"printer", "termWrite", "termRead"} :
               /\ At(u, IF d = "termRead" THEN "readV" ELSE d) /\ Goto(u, "user")
               /\ V(Mutex(d, u))
               /\ UNCHANGED <<memory, locals, seeker, reaped, panic>>

\* SYS14 and SYS15: an address or a disk the process may not use ends it, every
\* other call stops the machine, as no command is a read and a write.
DiskIO(u) == /\ At(u, "user")
             /\ \/ Raise(u, "dieP") /\ UNCHANGED panic
                \/ panic' = TRUE /\ UNCHANGED <<pc, resume>>
             /\ GoOn
             /\ UNCHANGED <<memory, frame, missing, job, seeker, reaped>>

-----------------------------------------------------------------------------
(* The end of a process *)

\* SYS18, and a negative SYS13.
Terminate(u) == /\ At(u, "user") /\ Raise(u, "dieP")
                /\ GoOn
                /\ UNCHANGED <<memory, frame, missing, job, seeker, reaped, panic>>

\* A program trap of the user's code, or of a driver at the address the user gave
\* it.  vmPrgmHandler would call meIRL, but its stack pointer is the number
\* PROGTRAP: its first push traps again, and it is started again, for ever.
ProgramTrap(u) == /\ \E l \in Touching : At(u, l)
                  /\ Raise(u, "trapped")
                  /\ GoOn
                  /\ UNCHANGED <<memory, frame, missing, job, seeker, reaped, panic>>

SlipDieNoP(u) == /\ At(u, "dieP") /\ Goto(u, "clear")
                 /\ GoOn
                 /\ UNCHANGED <<memory, locals, seeker, reaped, panic>>

DieP(u) == /\ At(u, "dieP") /\ Goto(u, "clear")
           /\ P(Swap, u)
           /\ UNCHANGED <<memory, locals, seeker, reaped, panic>>

SlipClear(u) ==
  /\ At(u, "clear") /\ Goto(u, "dieV")
  /\ swapPool' = [f \in Frame |-> IF swapPool[f].sw_asid = u /\ f # SWAPSIZE - 1
                                  THEN [swapPool[f] EXCEPT !.sw_asid = -1]
                                  ELSE swapPool[f]]
  /\ GoOn
  /\ UNCHANGED <<pte, next, locals, seeker, reaped, panic>>

SlipClearZero(u) ==
  /\ At(u, "clear") /\ Goto(u, "dieV")
  /\ swapPool' = [f \in Frame |-> IF swapPool[f].sw_asid = u
                                  THEN [swapPool[f] EXCEPT !.sw_asid = 0]
                                  ELSE swapPool[f]]
  /\ GoOn
  /\ UNCHANGED <<pte, next, locals, seeker, reaped, panic>>

\* meIRL gives the frames back; or-ing nVALID leaves their entries valid.
Clear(u) ==
  /\ At(u, "clear") /\ Goto(u, "dieV")
  /\ swapPool' = [f \in Frame |-> IF swapPool[f].sw_asid = u
                                  THEN [swapPool[f] EXCEPT !.sw_asid = -1]
                                  ELSE swapPool[f]]
  /\ GoOn
  /\ UNCHANGED <<pte, next, locals, seeker, reaped, panic>>

SlipDieNoV(u) == /\ At(u, "dieV") /\ Goto(u, "tell")
                 /\ GoOn
                 /\ UNCHANGED <<memory, locals, seeker, reaped, panic>>

DieV(u) == /\ At(u, "dieV") /\ Goto(u, "tell")
           /\ V(Swap)
           /\ UNCHANGED <<memory, locals, seeker, reaped, panic>>

SlipTellNobody(u) == /\ At(u, "tell") /\ Goto(u, "sys2")
                     /\ GoOn
                     /\ UNCHANGED <<memory, locals, seeker, reaped, panic>>

Tell(u) == /\ At(u, "tell") /\ Goto(u, "sys2")
           /\ V(Master)
           /\ UNCHANGED <<memory, locals, seeker, reaped, panic>>

Sys2(u) == /\ At(u, "sys2") /\ Goto(u, "dead")
           /\ GoOn
           /\ UNCHANGED <<memory, locals, seeker, reaped, panic>>

-----------------------------------------------------------------------------
\* What the user's program chooses, and what follows from it.
Choose(u) ==
  \/ \E t \in Touched[u] : Fault(u, t[1], t[2])
  \/ \E d \in Device : Drive(u, d)
  \/ BadFault(u) \/ DiskIO(u) \/ Terminate(u) \/ ProgramTrap(u)

Continue(u) ==
  \/ TapeP(u) \/ TapeRead(u) \/ TapeV(u) \/ DiskP(u) \/ Seek(u) \/ DiskV(u)
  \/ SwapP(u) \/ Spin(u) \/ Install(u) \/ SwapV(u)
  \/ Write(u) \/ Read(u) \/ Store(u) \/ Driven(u)
  \/ DieP(u) \/ Clear(u) \/ DieV(u) \/ Tell(u) \/ Sys2(u)

\* The interrupts of the devices u waits for.
Interrupt(u) == TapeDone(u) \/ SeekDone(u) \/ TransferDone(u) \/ Written(u) \/ Received(u)

TestStep == Create \/ Reap \/ Finish

Next == TestStep \/ \E u \in User : Choose(u) \/ Continue(u) \/ Interrupt(u)

\* The scheduler's turns reach every process that is not blocked and does not
\* wait for a device.  That a wait for a device ends is not assumed.
Fairness == WF_vars(TestStep) /\ \A u \in User : WF_vars(Continue(u))

Spec == Init /\ [][Next]_vars /\ Fairness

-----------------------------------------------------------------------------
DiskLabels == {"seek", "seeking", "transferring", "diskV"}
FaultLabels == {"swapP", "spin", "install", "swapV"}
DeathLabels == {"dieP", "clear", "dieV", "tell", "sys2", "dead"}
Label == Touching \cup DiskLabels \cup FaultLabels \cup DeathLabels \cup
         {"unborn", "create", "reap", "finish", "init", "tapeRead", "tapeReading",
          "tapeV", "diskP", "termRead", "printing", "sending", "receiving", "readV",
          "trapped"}

TypeOK ==
  /\ pc \in [Process -> Label]
  /\ semVal \in [Sem -> Int]
  /\ semQ \in [Sem -> Seq(Process)]
  /\ swapPool \in [Frame -> [sw_asid : User \cup {-1}, sw_pte : Entry \cup {NONE}]]
  /\ pte \in [Entry -> Frame \cup {NONE}]
  /\ next \in Frame
  /\ frame \in [User -> Frame \cup {NONE}]
  /\ missing \in [User -> Entry \cup {NONE}]
  /\ resume \in [User -> Touching]
  /\ job \in [User -> {"tape", "out", "in"}]
  /\ seeker \in User \cup {NONE}
  /\ reaped \in 0 .. MAXUSERPROC
  /\ panic \in BOOLEAN

\* The processes between their P and their V on swap, on mutexArray[DISK0]; the
\* blocked ones included.
Paging(u) == pc[u] \in DiskLabels \cup {"diskP"} /\ job[u] # "tape"
InSwap == {u \in User : pc[u] \in {"spin", "install", "swapV", "clear", "dieV"} \/ Paging(u)}
InDisk == {u \in User : pc[u] \in DiskLabels}

Guards(s, S) == /\ semVal[s] = 1 - Cardinality(S)
                /\ Range(semQ[s]) \subseteq S
                /\ NoRepeats(semQ[s])
                /\ Cardinality(S \ Range(semQ[s])) <= 1
                /\ Len(semQ[s]) = IF S = {} THEN 0 ELSE Cardinality(S) - 1

\* At most one process at a time is past its P on swap or on disk 0, the others
\* wait in order, and every way out - a fault's end, a tape's, a death's - has
\* given back what was taken.
OneAtATime == Guards(Swap, InSwap) /\ Guards(Disk0, InDisk)

\* The drivers of u that hold a mutex: at their own labels, in the page fault one
\* of their accesses raised, and for good if that access ended u or trapped.
Driving(u, d) ==
  LET left == pc[u] \in FaultLabels \cup DeathLabels \cup {"trapped"} \/ Paging(u)
      at == IF left THEN resume[u] ELSE pc[u]
  IN  CASE d = "tape" -> \/ at \in {"tapeRead", "tapeReading", "tapeV"}
                         \/ pc[u] \in DiskLabels \cup {"diskP"} /\ job[u] = "tape"
        [] d = "printer" -> at \in {"printer", "printing"}
        [] d = "termWrite" -> at \in {"termWrite", "sending"}
        [] d = "termRead" -> at \in {"termRead", "receiving", "store", "readV"}

\* The mutex of a process's device is 0 while its driver runs, through the page
\* faults inside it, and 1 again after every return from it; no driver waits for
\* its own.  An access of a driver that ends the process or traps leaves it at 0
\* for good: no later call of the process finds it there, nor anybody else.
DevicesAccounted ==
  \A u \in User, d \in Device :
    /\ semQ[Mutex(d, u)] = <<>>
    /\ semVal[Mutex(d, u)] = IF Driving(u, d) THEN 0 ELSE 1

\* Processes that have not given their frames back yet.
Cleared == {u \in User : pc[u] \in {"dieV", "tell", "sys2", "dead"}}
Alive == User \ Cleared
OwnEntries(u) == {e \in Private : e[2] = u}

\* A private page is in one frame at a time: two would mean two versions of it.
PageInOneFrame ==
  \A f, g \in Frame :
    ( /\ swapPool[f].sw_asid # -1 /\ swapPool[g].sw_asid # -1
      /\ swapPool[f].sw_pte = swapPool[g].sw_pte
      /\ swapPool[f].sw_pte \in Private ) => f = g

\* A valid private entry maps the frame the swap pool has for that page, so that
\* whoever takes the frame makes the entry not valid first.
ValidMeansResident ==
  \A u \in Alive : \A e \in OwnEntries(u) :
    pte[e] # NONE => swapPool[pte[e]] = [sw_asid |-> u, sw_pte |-> e]

\* While the pager moves a block to or from a frame, no process reaches the frame
\* through a private page.
NoAccessDuringTransfer ==
  \A u \in User : (Paging(u) /\ u \notin Range(semQ[Swap])) =>
    \A v \in Alive : \A e \in OwnEntries(v) : pte[e] # frame[u]

\* Disk 0 transfers where the process that has the mutex sought.
TransferWhereSought ==
  \A u \in User : pc[u] = "transferring" => seeker = u

\* The frames of a process that ended are free: its pages are not written back to
\* disk for somebody else's fault, and its ASID finds nothing of its.
DeadHoldNoFrame == \A u \in Cleared : \A f \in Frame : swapPool[f].sw_asid # u

\* test ends its family only when every user process has ended by itself, and
\* none is killed with a semaphore, a frame or a transfer in its hands.
FamilyEndsLast ==
  [][Finish => \A u \in User : pc[u] \in {"sys2", "dead"}]_vars

\* Disk 0 is not waited for for ever.  The nucleus does not guarantee it of a wait
\* that begins with interrupts off, as those of readWriteBacking do (see IoReturns).
DiskAnswers == \A u \in User : []<>(pc[u] \notin {"seeking", "transferring"})

\* As long as disk 0 answers, a page fault is served or ends its process, unless a
\* driver stopped the machine: the P's on swap and on disk 0, by faults, tapes and
\* deaths, never wait for each other in a circle, nor for what nobody gives back.
FaultServed ==
  DiskAnswers =>
    \A u \in User : pc[u] = "swapP" ~> (pc[u] \in Touching \cup {"dead"} \/ panic)

\* When all user processes have ended so does test, and with it the system.
SystemEnds == (\A u \in User : pc[u] = "dead") ~> (pc[Test] = "dead" \/ panic)
=============================================================================
