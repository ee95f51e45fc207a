----------------------------- MODULE PagerProofs -----------------------------
(***************************************************************************)
(* Proofs about the pager of phase 3, for any number of user processes,    *)
(* frames and pages, any programs and any use of the drivers.              *)
(***************************************************************************)
EXTENDS Pager, ProcQueueProofs

(***************************************************************************)
(* A semaphore that starts at 1 and is given back by who took it.  S is    *)
(* the set of processes between their P and their V on it.                 *)
(***************************************************************************)
Guarded(val, q, S) ==
  /\ val = 1 - Cardinality(S)
  /\ Range(q) \subseteq S
  /\ NoRepeats(q)
  /\ Len(q) = IF S = {} THEN 0 ELSE Cardinality(S) - 1

\* Everybody in S but one waits: two that do not wait are the same process.
LEMMA OneUnblocked ==
  ASSUME NEW S, IsFiniteSet(S), NEW q \in Seq(Process), NEW val,
         Guarded(val, q, S)
  PROVE  /\ \A x, y \in S \ Range(q) : x = y
         /\ Cardinality(S \ Range(q)) <= 1
<1>1. IsFiniteSet(Range(q)) /\ Cardinality(Range(q)) = Len(q) /\ Len(q) \in Nat
  BY LengthIsCardinality DEF Guarded
<1>2. /\ IsFiniteSet(S \ Range(q)) /\ Cardinality(S) \in Nat
      /\ Cardinality(S \ Range(q)) \in Nat
      /\ Cardinality(S \ Range(q)) = Cardinality(S) - Cardinality(S \cap Range(q))
  BY FS_Difference, FS_CardinalityType
<1>3. S \cap Range(q) = Range(q)
  BY DEF Guarded
<1>4. Cardinality(S \ Range(q)) <= 1
  <2>1. Cardinality(S \ Range(q)) = Cardinality(S) - Len(q)
    BY <1>1, <1>2, <1>3
  <2>2. Len(q) = IF S = {} THEN 0 ELSE Cardinality(S) - 1
    BY DEF Guarded
  <2>3. S = {} => Cardinality(S) = 0
    BY FS_EmptySet
  <2> QED BY <2>1, <2>2, <2>3, <1>2
<1>5. ASSUME NEW x \in S \ Range(q), NEW y \in S \ Range(q), x # y
      PROVE  FALSE
  <2>1. {x} \cup {y} \in SUBSET (S \ Range(q))
    OBVIOUS
  <2>2. Cardinality({x} \cup {y}) = 2
    <3>1. IsFiniteSet({x}) /\ Cardinality({x}) = 1 /\ y \notin {x}
      BY <1>5, FS_Singleton
    <3>2. Cardinality({x} \cup {y}) = Cardinality({x}) + 1
      BY <3>1, FS_AddElement
    <3> QED BY <3>1, <3>2
  <2>3. Cardinality({x} \cup {y}) <= Cardinality(S \ Range(q))
    BY <2>1, <1>2, FS_Subset
  <2>4. ~(2 <= Cardinality(S \ Range(q)))
    BY <1>2, <1>4
  <2> QED BY <2>2, <2>3, <2>4
<1> QED BY <1>4, <1>5

\* P by a process that is not in S yet: it enters, and waits if S was not empty.
LEMMA GuardedP ==
  ASSUME NEW S, IsFiniteSet(S), NEW q \in Seq(Process), NEW val \in Int,
         NEW u \in Process \ S, Guarded(val, q, S)
  PROVE  LET r == IF val - 1 < 0 THEN insertProcQ(q, u) ELSE q
         IN  /\ Guarded(val - 1, r, S \cup {u})
             /\ Range(r) \subseteq Range(q) \cup {u}
<1> DEFINE r == IF val - 1 < 0 THEN insertProcQ(q, u) ELSE q
<1>1. /\ Cardinality(S) \in Nat
      /\ IsFiniteSet(S \cup {u})
      /\ Cardinality(S \cup {u}) = Cardinality(S) + 1
  BY FS_AddElement, FS_CardinalityType
<1>2. S = {} <=> Cardinality(S) = 0
  BY FS_EmptySet
<1>3. u \notin Range(q)
  BY DEF Guarded
<1>4. CASE S = {}
  <2>1. r = q
    BY <1>4, <1>2 DEF Guarded
  <2> QED BY <2>1, <1>1, <1>2, <1>4 DEF Guarded
<1>5. CASE S # {}
  <2>1. r = insertProcQ(q, u) /\ Len(q) = Cardinality(S) - 1
    BY <1>5, <1>1, <1>2 DEF Guarded
  <2>2. Len(r) = Len(q) + 1
    BY <2>1 DEF insertProcQ
  <2>3. Range(r) = Range(q) \cup {u} /\ NoRepeats(r)
    <3>1. NoRepeats(q) /\ u \in Process
      BY DEF Guarded
    <3>2. /\ Range(insertProcQ(q, u)) = Range(q) \cup {u}
          /\ NoRepeats(insertProcQ(q, u))
      BY <3>1, <1>3, InsertProperties
    <3> QED BY <3>2, <2>1
  <2>4. Range(r) \subseteq S \cup {u} /\ S \cup {u} # {}
    BY <2>3 DEF Guarded
  <2>5. val - 1 = 1 - Cardinality(S \cup {u}) /\ Len(r) = Cardinality(S \cup {u}) - 1
    BY <2>1, <2>2, <1>1 DEF Guarded
  <2> HIDE DEF r
  <2>6. Guarded(val - 1, r, S \cup {u})
    BY <2>3, <2>4, <2>5 DEF Guarded
  <2> QED BY <2>3, <2>6 DEF r
<1> QED BY <1>4, <1>5

\* V by a process of S that does not wait: it leaves, and the first in the queue
\* goes on.
LEMMA GuardedV ==
  ASSUME NEW S, IsFiniteSet(S), NEW q \in Seq(Process), NEW val \in Int,
         NEW u \in S \ Range(q), Guarded(val, q, S)
  PROVE  LET r == IF val + 1 <= 0 THEN Tail(q) ELSE q
         IN  /\ Guarded(val + 1, r, S \ {u})
             /\ Range(r) \subseteq Range(q)
<1> DEFINE r == IF val + 1 <= 0 THEN Tail(q) ELSE q
<1>1. /\ Cardinality(S) \in Nat /\ Cardinality(S \ {u}) \in Nat
      /\ IsFiniteSet(S \ {u})
      /\ Cardinality(S \ {u}) = Cardinality(S) - 1
  BY FS_RemoveElement, FS_CardinalityType
<1>2. (S = {} <=> Cardinality(S) = 0) /\ (S \ {u} = {} <=> Cardinality(S \ {u}) = 0)
  BY <1>1, FS_EmptySet
<1>3. Len(q) = Cardinality(S) - 1 /\ Len(q) \in Nat
  BY DEF Guarded
<1>4. CASE Cardinality(S) = 1
  <2>1. r = q
    BY <1>4 DEF Guarded
  <2> QED BY <2>1, <1>1, <1>2, <1>3, <1>4 DEF Guarded
<1>5. CASE Cardinality(S) # 1
  <2>1. r = Tail(q) /\ q # <<>>
    BY <1>5, <1>1, <1>2, <1>3 DEF Guarded
  <2>2. Len(r) = Len(q) - 1
    BY <2>1
  <2>3. Range(q) = {Head(q)} \cup Range(r) /\ NoRepeats(r)
    BY <2>1, RemoveProperties DEF Guarded
  <2>4. Range(r) \subseteq S \ {u}
    BY <2>3 DEF Guarded
  <2> QED BY <2>2, <2>3, <2>4, <1>1, <1>2, <1>3, <1>5 DEF Guarded
<1> QED BY <1>4, <1>5

-----------------------------------------------------------------------------
(***************************************************************************)
(* The inductive invariant.  First who is where, and the semaphores.       *)
(***************************************************************************)
TestLabel == {"create", "reap", "finish"}
Roles == /\ pc[Test] \in TestLabel \cup {"dead"}
         /\ \A u \in User : pc[u] \notin TestLabel
         /\ pc[Test] = "dead" => \A u \in User : pc[u] = "dead"

\* What test has done by the label it is at.
Progress == /\ pc[Test] = "create" => reaped = 0 /\ \E u \in User : pc[u] = "unborn"
            /\ pc[Test] = "reap" => reaped < MAXUSERPROC
            /\ pc[Test] = "finish" => reaped = MAXUSERPROC

\* The two mutexes, and where those who wait for them go on: not in the middle of
\* what the mutex protects.
SwapGuarded == /\ Guarded(semVal[Swap], semQ[Swap], InSwap)
               /\ \A v \in Range(semQ[Swap]) : pc[v] \in {"spin", "clear"}
DiskGuarded == /\ Guarded(semVal[Disk0], semQ[Disk0], InDisk)
               /\ \A v \in Range(semQ[Disk0]) : pc[v] = "seek"

\* masterSem counts the processes that told test of their end and that test has
\* not asked for; only test waits for it.
Told == {u \in User : pc[u] \in {"sys2", "dead"}}
MasterCounts ==
  pc[Test] # "dead" =>
    /\ semVal[Master] = Cardinality(Told) - reaped
    /\ semVal[Master] >= -1
    /\ semQ[Master] = IF semVal[Master] < 0 THEN <<Test>> ELSE <<>>

SeekKept == \A u \in User : pc[u] \in {"seeking", "transferring"} => seeker = u

Control == /\ TypeOK /\ Roles /\ Progress
           /\ SwapGuarded /\ DiskGuarded /\ MasterCounts /\ DevicesAccounted

\* The constants and what they are not.
LEMMA Constants ==
  /\ MAXUSERPROC \in Nat \ {0} /\ SWAPSIZE \in Nat \ {0} /\ KUSEGSIZE \in Nat \ {0}
  /\ NONE \notin Int
  /\ User \subseteq Process /\ User \subseteq Int /\ Test \in Process /\ Test \notin User
  /\ IsFiniteSet(User) /\ Cardinality(User) = MAXUSERPROC
  /\ -1 \notin User /\ NONE \notin User /\ NONE \notin Frame
<1>1. IsFiniteSet(1 .. MAXUSERPROC) /\ Cardinality(1 .. MAXUSERPROC) = MAXUSERPROC
  BY PagerAssumption, FS_Interval
<1> QED BY <1>1, PagerAssumption DEF User, Process, Test, Frame

LEMMA Semaphores ==
  /\ Swap \in Sem /\ Disk0 \in Sem /\ Master \in Sem
  /\ Swap # Disk0 /\ Swap # Master /\ Disk0 # Master
  /\ \A d \in Device, u \in User :
       /\ Mutex(d, u) \in Sem
       /\ Mutex(d, u) \notin {Swap, Disk0, Master}
       /\ \A e \in Device, v \in User : Mutex(d, u) = Mutex(e, v) => d = e /\ u = v
BY DEF Sem, Swap, Disk0, Master, Mutex

LEMMA HoldersFinite ==
  /\ IsFiniteSet(InSwap) /\ InSwap \subseteq User
  /\ IsFiniteSet(InDisk) /\ InDisk \subseteq User
  /\ IsFiniteSet(Told) /\ Told \subseteq User
<1>1. InSwap \in SUBSET User /\ InDisk \in SUBSET User /\ Told \in SUBSET User
  BY DEF InSwap, InDisk, Told
<1> QED BY <1>1, Constants, FS_Subset

-----------------------------------------------------------------------------
(***************************************************************************)
(* A step of one user process leaves what the others hold as it was.       *)
(***************************************************************************)
Moves(u) == \E m \in Label \ TestLabel : pc' = [pc EXCEPT ![u] = m]

UserStep(u) == /\ ~Blocked(u)
               /\ Moves(u)
               /\ \A v \in User \ {u} : /\ job'[v] = job[v] /\ resume'[v] = resume[v]
                                       /\ frame'[v] = frame[v]
                                       /\ missing'[v] = missing[v]
               /\ reaped' = reaped

\* u holds swap, disk 0 and its mutexes after the step if it did before.
KeepsSwap(u) == u \in InSwap' <=> u \in InSwap
KeepsDisk(u) == u \in InDisk' <=> u \in InDisk
KeepsTold(u) == u \in Told' <=> u \in Told
KeepsMutex(u, d) == Driving(u, d)' <=> Driving(u, d)
KeepsDevices(u) == \A d \in Device : KeepsMutex(u, d)

LEMMA OthersStay ==
  ASSUME TypeOK, NEW u \in User, UserStep(u)
  PROVE  /\ pc'[Test] = pc[Test]
         /\ pc'[u] \in Label \ TestLabel
         /\ \A v \in User \ {u} :
              /\ pc'[v] = pc[v]
              /\ v \in InSwap' <=> v \in InSwap
              /\ v \in InDisk' <=> v \in InDisk
              /\ v \in Told' <=> v \in Told
              /\ \A d \in Device : Driving(v, d)' <=> Driving(v, d)
<1>1. PICK m \in Label \ TestLabel : pc' = [pc EXCEPT ![u] = m]
  BY DEF UserStep, Moves
<1>2. /\ pc \in [Process -> Label] /\ u \in Process /\ Test \in Process /\ u # Test
      /\ User \subseteq Process
  BY Constants DEF TypeOK
<1>3. /\ pc'[Test] = pc[Test] /\ pc'[u] = m
      /\ \A v \in User \ {u} : pc'[v] = pc[v]
  BY <1>1, <1>2
<1>4. \A v \in User \ {u} : job'[v] = job[v] /\ resume'[v] = resume[v]
  BY DEF UserStep
<1>5. ASSUME NEW v \in User \ {u}
      PROVE  /\ v \in InSwap' <=> v \in InSwap
             /\ v \in InDisk' <=> v \in InDisk
             /\ v \in Told' <=> v \in Told
  BY <1>3, <1>4 DEF InSwap, InDisk, Told, Paging
<1>6. ASSUME NEW v \in User \ {u}, NEW d \in Device
      PROVE  Driving(v, d)' <=> Driving(v, d)
  BY <1>3, <1>4 DEF Driving, Paging
<1> QED BY <1>1, <1>3, <1>5, <1>6

LEMMA UnblockedRunsAlone ==
  ASSUME TypeOK, SwapGuarded, DiskGuarded, NEW u \in User, ~Blocked(u)
  PROVE  /\ u \notin Range(semQ[Swap]) /\ u \notin Range(semQ[Disk0])
         /\ \A s \in Sem : semQ[s] \in Seq(Process) /\ semVal[s] \in Int
BY Semaphores DEF Blocked, TypeOK

\* swap: not touched, taken, given back.
LEMMA SwapKept ==
  ASSUME TypeOK, SwapGuarded, NEW u \in User, UserStep(u), KeepsSwap(u),
         semVal'[Swap] = semVal[Swap], semQ'[Swap] = semQ[Swap]
  PROVE  SwapGuarded'
<1>1. InSwap' = InSwap
  BY OthersStay, HoldersFinite DEF KeepsSwap, InSwap
<1>2. \A v \in Range(semQ[Swap]) : v \in User \ {u}
  BY HoldersFinite, Semaphores DEF SwapGuarded, Guarded, UserStep, Blocked
<1>3. \A v \in Range(semQ[Swap]) : pc'[v] = pc[v]
  BY <1>2, OthersStay
<1> QED BY <1>1, <1>3 DEF SwapGuarded

LEMMA SwapTaken ==
  ASSUME TypeOK, SwapGuarded, NEW u \in User, UserStep(u), P(Swap, u),
         u \notin InSwap, u \in InSwap', pc'[u] \in {"spin", "clear"}
  PROVE  SwapGuarded'
<1> DEFINE q == semQ[Swap]
           val == semVal[Swap]
           r == IF val - 1 < 0 THEN insertProcQ(q, u) ELSE q
<1>1. InSwap' = InSwap \cup {u}
  BY OthersStay, HoldersFinite DEF InSwap
<1>2. /\ val \in Int /\ q \in Seq(Process) /\ u \in Process
      /\ semVal'[Swap] = val - 1 /\ semQ'[Swap] = r
  BY Semaphores, Constants DEF TypeOK, P
<1>3. Guarded(val - 1, r, InSwap \cup {u}) /\ Range(r) \subseteq Range(q) \cup {u}
  BY <1>2, HoldersFinite, GuardedP DEF SwapGuarded
<1>4. \A v \in Range(q) : v \in User \ {u}
  BY HoldersFinite, Semaphores DEF SwapGuarded, Guarded, UserStep, Blocked
<1>5. \A v \in Range(q) : pc'[v] \in {"spin", "clear"}
  BY <1>4, OthersStay DEF SwapGuarded
<1> HIDE DEF r
<1> QED BY <1>1, <1>2, <1>3, <1>5 DEF SwapGuarded

LEMMA SwapGivenBack ==
  ASSUME TypeOK, SwapGuarded, NEW u \in User, UserStep(u), V(Swap),
         u \in InSwap, u \notin InSwap'
  PROVE  SwapGuarded' /\ (semVal[Swap] + 1 <= 0 => semQ[Swap] # <<>>)
<1> DEFINE q == semQ[Swap]
           val == semVal[Swap]
           r == IF val + 1 <= 0 THEN Tail(q) ELSE q
<1>1. InSwap' = InSwap \ {u}
  BY OthersStay, HoldersFinite DEF InSwap
<1>2. /\ val \in Int /\ q \in Seq(Process)
      /\ semVal'[Swap] = val + 1 /\ semQ'[Swap] = r
  BY Semaphores DEF TypeOK, V
<1>3. u \in InSwap \ Range(q)
  BY Semaphores DEF UserStep, Blocked
<1>4. Guarded(val + 1, r, InSwap \ {u}) /\ Range(r) \subseteq Range(q)
  BY <1>2, <1>3, HoldersFinite, GuardedV DEF SwapGuarded
<1>5. \A v \in Range(q) : v \in User \ {u}
  BY <1>3, HoldersFinite DEF SwapGuarded, Guarded
<1>6. \A v \in Range(q) : pc'[v] \in {"spin", "clear"}
  BY <1>5, OthersStay DEF SwapGuarded
<1>7. val + 1 <= 0 => q # <<>>
  BY <1>2, <1>3, HoldersFinite, FS_CardinalityType DEF SwapGuarded, Guarded
<1> HIDE DEF r
<1> QED BY <1>1, <1>2, <1>4, <1>6, <1>7 DEF SwapGuarded

\* disk 0, likewise.
LEMMA DiskKept ==
  ASSUME TypeOK, DiskGuarded, NEW u \in User, UserStep(u), KeepsDisk(u),
         semVal'[Disk0] = semVal[Disk0], semQ'[Disk0] = semQ[Disk0]
  PROVE  DiskGuarded'
<1>1. InDisk' = InDisk
  BY OthersStay, HoldersFinite DEF KeepsDisk, InDisk
<1>2. \A v \in Range(semQ[Disk0]) : v \in User \ {u}
  BY HoldersFinite, Semaphores DEF DiskGuarded, Guarded, UserStep, Blocked
<1>3. \A v \in Range(semQ[Disk0]) : pc'[v] = pc[v]
  BY <1>2, OthersStay
<1> QED BY <1>1, <1>3 DEF DiskGuarded

LEMMA DiskTaken ==
  ASSUME TypeOK, DiskGuarded, NEW u \in User, UserStep(u), P(Disk0, u),
         u \notin InDisk, u \in InDisk', pc'[u] = "seek"
  PROVE  DiskGuarded'
<1> DEFINE q == semQ[Disk0]
           val == semVal[Disk0]
           r == IF val - 1 < 0 THEN insertProcQ(q, u) ELSE q
<1>1. InDisk' = InDisk \cup {u}
  BY OthersStay, HoldersFinite DEF InDisk
<1>2. /\ val \in Int /\ q \in Seq(Process) /\ u \in Process
      /\ semVal'[Disk0] = val - 1 /\ semQ'[Disk0] = r
  BY Semaphores, Constants DEF TypeOK, P
<1>3. Guarded(val - 1, r, InDisk \cup {u}) /\ Range(r) \subseteq Range(q) \cup {u}
  BY <1>2, HoldersFinite, GuardedP DEF DiskGuarded
<1>4. \A v \in Range(q) : v \in User \ {u}
  BY HoldersFinite, Semaphores DEF DiskGuarded, Guarded, UserStep, Blocked
<1>5. \A v \in Range(q) : pc'[v] = "seek"
  BY <1>4, OthersStay DEF DiskGuarded
<1> HIDE DEF r
<1> QED BY <1>1, <1>2, <1>3, <1>5 DEF DiskGuarded

LEMMA DiskGivenBack ==
  ASSUME TypeOK, DiskGuarded, NEW u \in User, UserStep(u), V(Disk0),
         u \in InDisk, u \notin InDisk'
  PROVE  DiskGuarded' /\ (semVal[Disk0] + 1 <= 0 => semQ[Disk0] # <<>>)
<1> DEFINE q == semQ[Disk0]
           val == semVal[Disk0]
           r == IF val + 1 <= 0 THEN Tail(q) ELSE q
<1>1. InDisk' = InDisk \ {u}
  BY OthersStay, HoldersFinite DEF InDisk
<1>2. /\ val \in Int /\ q \in Seq(Process)
      /\ semVal'[Disk0] = val + 1 /\ semQ'[Disk0] = r
  BY Semaphores DEF TypeOK, V
<1>3. u \in InDisk \ Range(q)
  BY Semaphores DEF UserStep, Blocked
<1>4. Guarded(val + 1, r, InDisk \ {u}) /\ Range(r) \subseteq Range(q)
  BY <1>2, <1>3, HoldersFinite, GuardedV DEF DiskGuarded
<1>5. \A v \in Range(q) : v \in User \ {u}
  BY <1>3, HoldersFinite DEF DiskGuarded, Guarded
<1>6. \A v \in Range(q) : pc'[v] = "seek"
  BY <1>5, OthersStay DEF DiskGuarded
<1>7. val + 1 <= 0 => q # <<>>
  BY <1>2, <1>3, HoldersFinite, FS_CardinalityType DEF DiskGuarded, Guarded
<1> HIDE DEF r
<1> QED BY <1>1, <1>2, <1>4, <1>6, <1>7 DEF DiskGuarded

\* The mutexes of u's own devices: only u touches them.
LEMMA DevicesKept ==
  ASSUME TypeOK, DevicesAccounted, NEW u \in User, UserStep(u), KeepsDevices(u),
         \A e \in Device, v \in User : /\ semVal'[Mutex(e, v)] = semVal[Mutex(e, v)]
                                       /\ semQ'[Mutex(e, v)] = semQ[Mutex(e, v)]
  PROVE  DevicesAccounted'
<1> SUFFICES ASSUME NEW v \in User, NEW e \in Device
             PROVE  /\ semQ'[Mutex(e, v)] = <<>>
                    /\ semVal'[Mutex(e, v)] = IF Driving(v, e)' THEN 0 ELSE 1
  BY DEF DevicesAccounted
<1>1. CASE v = u
  BY <1>1 DEF DevicesAccounted, KeepsDevices, KeepsMutex
<1>2. CASE v # u
  BY <1>2, OthersStay DEF DevicesAccounted
<1> QED BY <1>1, <1>2

LEMMA DeviceTaken ==
  ASSUME TypeOK, DevicesAccounted, NEW u \in User, UserStep(u), NEW d \in Device,
         P(Mutex(d, u), u), ~Driving(u, d), Driving(u, d)',
         \A e \in Device \ {d} : KeepsMutex(u, e)
  PROVE  /\ DevicesAccounted' /\ semQ' = semQ
         /\ \A s \in Sem \ {Mutex(d, u)} : semVal'[s] = semVal[s]
<1>1. semVal[Mutex(d, u)] = 1 /\ Mutex(d, u) \in Sem
  BY Semaphores DEF DevicesAccounted
<1>2. semVal' = [semVal EXCEPT ![Mutex(d, u)] = 0] /\ semQ' = semQ
  BY <1>1 DEF P
<1>3. \A s \in Sem : semVal'[s] = IF s = Mutex(d, u) THEN 0 ELSE semVal[s]
  BY <1>2 DEF TypeOK
<1>4. ASSUME NEW v \in User, NEW e \in Device
      PROVE  /\ semQ'[Mutex(e, v)] = <<>>
             /\ semVal'[Mutex(e, v)] = IF Driving(v, e)' THEN 0 ELSE 1
  <2>1. CASE v = u /\ e = d
    BY <2>1, <1>1, <1>2, <1>3 DEF DevicesAccounted
  <2>2. CASE v = u /\ e # d
    <3>1. Mutex(e, v) # Mutex(d, u) /\ Mutex(e, v) \in Sem
      BY <2>2, Semaphores
    <3> QED BY <3>1, <2>2, <1>2, <1>3 DEF DevicesAccounted, KeepsMutex
  <2>3. CASE v # u
    <3>1. Mutex(e, v) # Mutex(d, u) /\ Mutex(e, v) \in Sem
      BY <2>3, Semaphores
    <3> QED BY <3>1, <2>3, <1>2, <1>3, OthersStay DEF DevicesAccounted
  <2> QED BY <2>1, <2>2, <2>3
<1> QED BY <1>2, <1>3, <1>4 DEF DevicesAccounted

LEMMA DeviceGivenBack ==
  ASSUME TypeOK, DevicesAccounted, NEW u \in User, UserStep(u), NEW d \in Device,
         V(Mutex(d, u)), Driving(u, d), ~Driving(u, d)',
         \A e \in Device \ {d} : KeepsMutex(u, e)
  PROVE  /\ DevicesAccounted' /\ semQ' = semQ
         /\ \A s \in Sem \ {Mutex(d, u)} : semVal'[s] = semVal[s]
<1>1. semVal[Mutex(d, u)] = 0 /\ Mutex(d, u) \in Sem
  BY Semaphores DEF DevicesAccounted
<1>2. semVal' = [semVal EXCEPT ![Mutex(d, u)] = 1] /\ semQ' = semQ
  BY <1>1 DEF V
<1>3. \A s \in Sem : semVal'[s] = IF s = Mutex(d, u) THEN 1 ELSE semVal[s]
  BY <1>2 DEF TypeOK
<1>4. ASSUME NEW v \in User, NEW e \in Device
      PROVE  /\ semQ'[Mutex(e, v)] = <<>>
             /\ semVal'[Mutex(e, v)] = IF Driving(v, e)' THEN 0 ELSE 1
  <2>1. CASE v = u /\ e = d
    BY <2>1, <1>1, <1>2, <1>3 DEF DevicesAccounted
  <2>2. CASE v = u /\ e # d
    <3>1. Mutex(e, v) # Mutex(d, u) /\ Mutex(e, v) \in Sem
      BY <2>2, Semaphores
    <3> QED BY <3>1, <2>2, <1>2, <1>3 DEF DevicesAccounted, KeepsMutex
  <2>3. CASE v # u
    <3>1. Mutex(e, v) # Mutex(d, u) /\ Mutex(e, v) \in Sem
      BY <2>3, Semaphores
    <3> QED BY <3>1, <2>3, <1>2, <1>3, OthersStay DEF DevicesAccounted
  <2> QED BY <2>1, <2>2, <2>3
<1> QED BY <1>2, <1>3, <1>4 DEF DevicesAccounted

\* masterSem and test's own state.
LEMMA MasterKept ==
  ASSUME TypeOK, Roles, Progress, MasterCounts, NEW u \in User, UserStep(u),
         KeepsTold(u), pc[u] \notin {"unborn", "dead"},
         semVal'[Master] = semVal[Master], semQ'[Master] = semQ[Master]
  PROVE  Roles' /\ Progress' /\ MasterCounts'
<1>1. Told' = Told
  BY OthersStay, HoldersFinite DEF KeepsTold, Told
<1>2. pc'[Test] = pc[Test] /\ reaped' = reaped
  BY OthersStay DEF UserStep
<1>3. Roles'
  BY <1>2, OthersStay DEF Roles
<1>4. Progress'
  <2>1. \A v \in User : pc[v] = "unborn" => pc'[v] = "unborn"
    BY OthersStay
  <2> QED BY <2>1, <1>2 DEF Progress
<1> QED BY <1>1, <1>2, <1>3, <1>4 DEF MasterCounts

LEMMA MasterTold ==
  ASSUME TypeOK, Roles, Progress, MasterCounts, NEW u \in User, UserStep(u),
         pc[u] = "tell", pc'[u] = "sys2", V(Master)
  PROVE  /\ Roles' /\ Progress' /\ MasterCounts'
         /\ semVal[Master] + 1 <= 0 => semQ[Master] # <<>>
<1>1. pc'[Test] = pc[Test] /\ reaped' = reaped /\ pc[Test] # "dead"
  BY OthersStay DEF UserStep, Roles
<1>2. Roles' /\ Progress'
  <2>1. \A v \in User : pc[v] = "unborn" => pc'[v] = "unborn"
    BY OthersStay
  <2> QED BY <2>1, <1>1, OthersStay DEF Roles, Progress
<1>3. Told' = Told \cup {u} /\ u \notin Told
  BY OthersStay, HoldersFinite DEF Told
<1>4. Cardinality(Told') = Cardinality(Told) + 1 /\ Cardinality(Told) \in Nat
  BY <1>3, HoldersFinite, FS_AddElement, FS_CardinalityType
<1>5. semVal[Master] \in Int /\ reaped \in Int
  BY Semaphores DEF TypeOK
<1>6. semVal'[Master] = semVal[Master] + 1
  BY Semaphores DEF V, TypeOK
<1>7. CASE semVal[Master] < 0
  <2>1. semQ[Master] = <<Test>> /\ semVal[Master] = -1
    BY <1>7, <1>1, <1>5 DEF MasterCounts
  <2>2. semQ'[Master] = <<>>
    BY <2>1, Semaphores DEF V, TypeOK
  <2> QED BY <2>1, <2>2, <1>1, <1>2, <1>4, <1>5, <1>6 DEF MasterCounts
<1>8. CASE semVal[Master] >= 0
  <2>1. semQ[Master] = <<>> /\ semQ'[Master] = <<>>
    BY <1>8, <1>1, <1>5, Semaphores DEF MasterCounts, V, TypeOK
  <2> QED BY <2>1, <1>8, <1>1, <1>2, <1>4, <1>5, <1>6 DEF MasterCounts
<1> QED BY <1>5, <1>7, <1>8

\* P and V keep the types; V finds a process when there is one to wake.
LEMMA PTyped ==
  ASSUME TypeOK, NEW s \in Sem, NEW p \in Process, P(s, p)
  PROVE  /\ semVal' \in [Sem -> Int] /\ semQ' \in [Sem -> Seq(Process)]
         /\ \A t \in Sem \ {s} : semVal'[t] = semVal[t] /\ semQ'[t] = semQ[t]
<1>1. semVal[s] \in Int /\ semQ[s] \in Seq(Process)
  BY DEF TypeOK
<1>2. insertProcQ(semQ[s], p) \in Seq(Process)
  BY <1>1, InsertProperties
<1> QED BY <1>1, <1>2 DEF P, TypeOK

LEMMA VTyped ==
  ASSUME TypeOK, NEW s \in Sem, V(s), semVal[s] + 1 <= 0 => semQ[s] # <<>>
  PROVE  /\ semVal' \in [Sem -> Int] /\ semQ' \in [Sem -> Seq(Process)]
         /\ \A t \in Sem \ {s} : semVal'[t] = semVal[t] /\ semQ'[t] = semQ[t]
<1>1. semVal[s] \in Int /\ semQ[s] \in Seq(Process)
  BY DEF TypeOK
<1>2. semVal[s] + 1 <= 0 => Tail(semQ[s]) \in Seq(Process)
  BY <1>1
<1> QED BY <1>1, <1>2 DEF V, TypeOK

-----------------------------------------------------------------------------
(***************************************************************************)
(* The steps of a user process that touch no semaphore.                    *)
(***************************************************************************)
Quiet(u) == /\ UserStep(u) /\ GoOn
            /\ KeepsSwap(u) /\ KeepsDisk(u) /\ KeepsTold(u) /\ KeepsDevices(u)
            /\ pc[u] \notin {"unborn", "dead"}

LEMMA QuietControl ==
  ASSUME Control, NEW u \in User, Quiet(u), TypeOK'
  PROVE  Control'
<1>1. SwapGuarded' /\ DiskGuarded'
  BY SwapKept, DiskKept DEF Control, Quiet, GoOn
<1>2. DevicesAccounted'
  BY DevicesKept DEF Control, Quiet, GoOn
<1>3. Roles' /\ Progress' /\ MasterCounts'
  BY MasterKept DEF Control, Quiet, GoOn
<1> QED BY <1>1, <1>2, <1>3 DEF Control

\* Where u goes when an access or a call of its own is its last.
Ends == {"dieP", "trapped"}

\* The moves at which u takes nothing and gives nothing back.
QuietMoves ==
  {<<"tapeRead", "tapeReading">>, <<"seek", "seeking">>, <<"seeking", "transferring">>,
   <<"seeking", "diskV">>, <<"transferring", "diskV">>, <<"install", "swapV">>,
   <<"printer", "printing">>, <<"printing", "printer">>, <<"termWrite", "sending">>,
   <<"sending", "termWrite">>, <<"termRead", "receiving">>, <<"receiving", "store">>,
   <<"receiving", "readV">>, <<"store", "termRead">>, <<"user", "user">>,
   <<"clear", "dieV">>, <<"sys2", "dead">>} \cup (Touching \X Ends)

LEMMA QuietMove ==
  ASSUME TypeOK, NEW u \in User, ~Blocked(u), GoOn,
         UNCHANGED <<frame, missing, job, reaped>>,
         NEW m, <<pc[u], m>> \in QuietMoves, pc' = [pc EXCEPT ![u] = m],
         resume' = IF m \in Ends THEN [resume EXCEPT ![u] = pc[u]] ELSE resume
  PROVE  Quiet(u) /\ pc' \in [Process -> Label] /\ pc'[u] = m
<1>1. /\ pc \in [Process -> Label] /\ u \in Process
      /\ m \in Label \ TestLabel /\ pc[u] \notin {"unborn", "dead"}
  BY Constants DEF QuietMoves, TypeOK, Label, TestLabel, Touching, Ends, DiskLabels,
                   FaultLabels, DeathLabels
<1>2. /\ pc'[u] = m /\ pc' \in [Process -> Label] /\ job' = job
      /\ resume'[u] = IF m \in Ends THEN pc[u] ELSE resume[u]
      /\ \A v \in User \ {u} : resume'[v] = resume[v]
  BY <1>1 DEF TypeOK
<1>3. UserStep(u)
  BY <1>1, <1>2 DEF UserStep, Moves
<1>4. KeepsSwap(u) /\ KeepsDisk(u) /\ KeepsTold(u)
  BY <1>2 DEF KeepsSwap, KeepsDisk, KeepsTold, InSwap, InDisk, Told, Paging,
              DiskLabels, Touching, Ends, QuietMoves
<1>5. KeepsDevices(u)
  <2> SUFFICES ASSUME NEW d \in Device PROVE KeepsMutex(u, d)
    BY DEF KeepsDevices
  <2>1. resume[u] \in Touching
    BY DEF TypeOK
  <2> QED
    BY <1>2, <2>1 DEF KeepsMutex, Driving, Device, DeathLabels, FaultLabels, Paging,
                      DiskLabels, Touching, Ends, QuietMoves
<1> QED BY <1>1, <1>2, <1>3, <1>4, <1>5 DEF Quiet

-----------------------------------------------------------------------------
(***************************************************************************)
(* The frames and the page tables.  u is replacing a page from the choice  *)
(* of the frame to the entry of the page that gets it; what it needs was   *)
(* not valid when it faulted.                                              *)
(***************************************************************************)
Replacing(u) == Paging(u) \/ pc[u] = "install"
Needing(u) == pc[u] \in {"swapP", "spin"} \/ Replacing(u)

\* A frame in use holds a page, a private one on behalf of its owner.
PoolOwned ==
  \A f \in Frame : swapPool[f].sw_asid # -1 =>
    /\ swapPool[f].sw_pte \in Entry
    /\ swapPool[f].sw_pte \in Private => swapPool[f].sw_pte[2] = swapPool[f].sw_asid

\* The private page u needs is its own and stays out until u brings it in.
MissingStaysOut ==
  \A u \in User :
    /\ Needing(u) => missing[u] \in Entry
    /\ Needing(u) /\ missing[u] \in Private => missing[u][2] = u /\ pte[missing[u]] = NONE
    /\ Replacing(u) => frame[u] \in Frame

\* Nobody alive has a private page in the frame u chose, until u has its own in it.
ChosenNotMapped ==
  \A u \in User : Replacing(u) => \A e \in Private : pte[e] = frame[u] => e[2] \notin Alive

\* The private page a frame in use holds is mapped there, or the frame is the one
\* being replaced.
PoolMapped ==
  \A f \in Frame : swapPool[f].sw_asid # -1 /\ swapPool[f].sw_pte \in Private =>
    \/ pte[swapPool[f].sw_pte] = f
    \/ pte[swapPool[f].sw_pte] = NONE /\ \E v \in User : Replacing(v) /\ frame[v] = f

Memory == /\ PoolOwned /\ MissingStaysOut /\ ValidMeansResident /\ ChosenNotMapped
          /\ PoolMapped /\ DeadHoldNoFrame

\* u goes on replacing and needing what it was, and has not given its frames back.
KeepsFrames(u) == /\ Replacing(u)' <=> Replacing(u)
                  /\ Replacing(u) => frame'[u] = frame[u]
                  /\ Needing(u)' => Needing(u) /\ missing'[u] = missing[u]
                  /\ u \in Cleared' <=> u \in Cleared

LEMMA OthersReplace ==
  ASSUME TypeOK, NEW u \in User, UserStep(u)
  PROVE  \A v \in User \ {u} :
           /\ Replacing(v)' <=> Replacing(v)
           /\ Needing(v)' <=> Needing(v)
           /\ v \in Cleared' <=> v \in Cleared
           /\ frame'[v] = frame[v] /\ missing'[v] = missing[v]
BY OthersStay DEF Replacing, Needing, Paging, Cleared, UserStep

LEMMA MemoryKept ==
  ASSUME TypeOK, Memory, NEW u \in User, UserStep(u), KeepsFrames(u),
         swapPool' = swapPool, pte' = pte
  PROVE  Memory'
<1>1. \A v \in User : /\ Replacing(v)' <=> Replacing(v)
                      /\ Replacing(v) => frame'[v] = frame[v]
                      /\ Needing(v)' => Needing(v) /\ missing'[v] = missing[v]
                      /\ v \in Cleared' <=> v \in Cleared
  BY OthersReplace DEF KeepsFrames
<1>2. Cleared' = Cleared /\ Alive' = Alive
  BY <1>1 DEF Cleared, Alive
<1>3. PoolOwned'
  BY DEF Memory, PoolOwned
<1>4. MissingStaysOut'
  BY <1>1 DEF Memory, MissingStaysOut
<1>5. ValidMeansResident' /\ DeadHoldNoFrame'
  BY <1>2 DEF Memory, ValidMeansResident, DeadHoldNoFrame, OwnEntries
<1>6. ChosenNotMapped'
  BY <1>1, <1>2 DEF Memory, ChosenNotMapped
<1>7. PoolMapped'
  BY <1>1 DEF Memory, PoolMapped
<1> QED BY <1>3, <1>4, <1>5, <1>6, <1>7 DEF Memory

\* At most one process replaces a page: it has swap.
LEMMA OneReplaces ==
  ASSUME TypeOK, SwapGuarded,
         NEW u \in User, NEW v \in User,
         Replacing(u) \/ (pc[u] \in {"spin", "clear"} /\ ~Blocked(u)),
         Replacing(v) \/ (pc[v] \in {"spin", "clear"} /\ ~Blocked(v))
  PROVE  u = v
<1>1. ASSUME NEW w \in User,
             Replacing(w) \/ (pc[w] \in {"spin", "clear"} /\ ~Blocked(w))
      PROVE  w \in InSwap \ Range(semQ[Swap])
  <2>1. w \in InSwap
    BY <1>1 DEF InSwap, Replacing
  <2>2. CASE Replacing(w)
    BY <2>1, <2>2 DEF SwapGuarded, Replacing, Paging, DiskLabels
  <2>3. CASE ~Blocked(w)
    BY <2>1, <2>3, Semaphores DEF Blocked
  <2> QED BY <1>1, <2>2, <2>3
<1>2. semQ[Swap] \in Seq(Process)
  BY Semaphores DEF TypeOK
<1> QED BY <1>1, <1>2, HoldersFinite, OneUnblocked DEF SwapGuarded

\* The same for disk 0.
LEMMA OneOnDisk ==
  ASSUME TypeOK, DiskGuarded,
         NEW u \in User, NEW v \in User,
         pc[u] \in DiskLabels, pc[u] = "seek" => ~Blocked(u),
         pc[v] \in DiskLabels, pc[v] = "seek" => ~Blocked(v)
  PROVE  u = v
<1>1. ASSUME NEW w \in User, pc[w] \in DiskLabels, pc[w] = "seek" => ~Blocked(w)
      PROVE  w \in InDisk \ Range(semQ[Disk0])
  BY <1>1, Semaphores DEF InDisk, DiskGuarded, Blocked
<1>2. semQ[Disk0] \in Seq(Process)
  BY Semaphores DEF TypeOK
<1>3. u \in InDisk \ Range(semQ[Disk0]) /\ v \in InDisk \ Range(semQ[Disk0])
  BY <1>1
<1> QED BY <1>2, <1>3, HoldersFinite, OneUnblocked DEF DiskGuarded

-----------------------------------------------------------------------------
(***************************************************************************)
(* The inductive invariant, one lemma per action.                          *)
(***************************************************************************)
Inv == Control /\ SeekKept /\ Memory

LEMMA InvTypes == Inv => /\ TypeOK /\ SwapGuarded /\ DiskGuarded /\ Control /\ Memory
                         /\ Roles /\ Progress /\ MasterCounts /\ DevicesAccounted
BY DEF Inv, Control

\* Nobody gets to disk 0 by a step of u.
LEMMA SeekKeptStep ==
  ASSUME TypeOK, SeekKept, NEW u \in User, UserStep(u), seeker' = seeker,
         pc'[u] \in {"seeking", "transferring"} => pc[u] \in {"seeking", "transferring"}
  PROVE  SeekKept'
BY OthersStay DEF SeekKept

LEMMA PlainStep ==
  ASSUME Inv, NEW u \in User, ~Blocked(u), GoOn,
         UNCHANGED <<memory, frame, missing, job, seeker, reaped>>, panic' \in BOOLEAN,
         NEW m,
         <<pc[u], m>> \in QuietMoves \ {<<"seek", "seeking">>, <<"install", "swapV">>,
                                        <<"clear", "dieV">>},
         pc' = [pc EXCEPT ![u] = m],
         resume' = IF m \in Ends THEN [resume EXCEPT ![u] = pc[u]] ELSE resume
  PROVE  Inv'
<1>1. Quiet(u) /\ pc' \in [Process -> Label] /\ pc'[u] = m
  BY QuietMove, InvTypes
<1>2. TypeOK'
  <2>1. m \in Ends => pc[u] \in Touching
    BY DEF QuietMoves, Ends
  <2>2. resume' \in [User -> Touching]
    BY <2>1, InvTypes DEF TypeOK
  <2> QED BY <1>1, <2>2, InvTypes DEF TypeOK, GoOn, memory
<1>3. Control'
  BY <1>1, <1>2, QuietControl, InvTypes
<1>4. SeekKept'
  <2>1. m \in {"seeking", "transferring"} => pc[u] \in {"seeking", "transferring"}
    BY DEF QuietMoves, Ends
  <2> QED BY <1>1, <2>1, InvTypes, SeekKeptStep DEF Quiet, Inv
<1>5. KeepsFrames(u)
  BY <1>1 DEF KeepsFrames, Replacing, Needing, Paging, Cleared, DiskLabels, QuietMoves,
              Touching, Ends
<1>6. Memory'
  BY <1>1, <1>5, MemoryKept, InvTypes DEF Quiet, memory
<1> QED BY <1>3, <1>4, <1>6 DEF Inv

\* The steps that only move on: commands to a device, the interrupts that end
\* them, and the user's calls that end the process or stop the machine.
Plain(u) == \/ TapeRead(u) \/ SeekDone(u) \/ TransferDone(u) \/ BadFault(u)
            \/ Write(u) \/ Written(u) \/ Read(u) \/ Received(u) \/ Store(u)
            \/ DiskIO(u) \/ Terminate(u) \/ ProgramTrap(u) \/ Sys2(u)

LEMMA PlainInv ==
  ASSUME Inv, NEW u \in User, Plain(u)
  PROVE  Inv'
<1>1. /\ ~Blocked(u) /\ GoOn /\ panic' \in BOOLEAN
      /\ UNCHANGED <<memory, frame, missing, job, seeker, reaped>>
  BY InvTypes DEF Plain, TapeRead, SeekDone, TransferDone, BadFault, Write, Written, Read,
         Received, Store, DiskIO, Terminate, ProgramTrap, Sys2, At, TypeOK, locals
<1>2. \E m : /\ pc' = [pc EXCEPT ![u] = m]
             /\ resume' = IF m \in Ends THEN [resume EXCEPT ![u] = pc[u]] ELSE resume
             /\ <<pc[u], m>> \in QuietMoves \ {<<"seek", "seeking">>,
                                               <<"install", "swapV">>, <<"clear", "dieV">>}
  <2> DEFINE Ok(m) == /\ pc' = [pc EXCEPT ![u] = m]
                      /\ resume' = IF m \in Ends THEN [resume EXCEPT ![u] = pc[u]]
                                   ELSE resume
                      /\ <<pc[u], m>> \in QuietMoves \ {<<"seek", "seeking">>,
                                           <<"install", "swapV">>, <<"clear", "dieV">>}
  <2>1. TapeRead(u) => Ok("tapeReading")
    BY DEF TapeRead, At, Goto, QuietMoves, Ends, locals
  <2>2. SeekDone(u) => Ok("transferring") \/ Ok("diskV")
    BY DEF SeekDone, At, Goto, QuietMoves, Ends, locals
  <2>3. TransferDone(u) => Ok("diskV")
    BY DEF TransferDone, At, Goto, QuietMoves, Ends, locals
  <2>4. BadFault(u) \/ Terminate(u) => Ok("dieP")
    BY DEF BadFault, Terminate, At, Raise, Goto, QuietMoves, Touching, Ends
  <2>5. Write(u) => Ok("printing") \/ Ok("sending")
    BY DEF Write, At, Goto, QuietMoves, Ends, locals
  <2>6. Written(u) => Ok("printer") \/ Ok("termWrite")
    BY DEF Written, At, Goto, QuietMoves, Ends, locals
  <2>7. Read(u) => Ok("receiving")
    BY DEF Read, At, Goto, QuietMoves, Ends, locals
  <2>8. Received(u) => Ok("store") \/ Ok("readV")
    BY DEF Received, At, Goto, QuietMoves, Ends, locals
  <2>9. Store(u) => Ok("termRead")
    BY DEF Store, At, Goto, QuietMoves, Ends, locals
  <2>10. DiskIO(u) => Ok("dieP") \/ Ok("user")
    BY InvTypes DEF DiskIO, At, Raise, Goto, QuietMoves, TypeOK, Touching, Ends
  <2>11. ProgramTrap(u) => Ok("trapped")
    BY DEF ProgramTrap, At, Raise, Goto, QuietMoves, Touching, Ends
  <2>12. Sys2(u) => Ok("dead")
    BY DEF Sys2, At, Goto, QuietMoves, Ends, locals
  <2> HIDE DEF Ok
  <2>13. \E m : Ok(m)
    BY <2>1, <2>2, <2>3, <2>4, <2>5, <2>6, <2>7, <2>8, <2>9, <2>10, <2>11, <2>12 DEF Plain
  <2> QED BY <2>13 DEF Ok
<1> QED BY <1>1, <1>2, PlainStep

\* Only the holder of the mutex of disk 0 seeks.
LEMMA SeekInv ==
  ASSUME Inv, NEW u \in User, Seek(u)
  PROVE  Inv'
<1>1. /\ ~Blocked(u) /\ pc[u] = "seek" /\ pc' = [pc EXCEPT ![u] = "seeking"]
      /\ seeker' = u /\ GoOn /\ UNCHANGED <<memory, locals, reaped, panic>>
  BY DEF Seek, At, Goto
<1>2. Quiet(u) /\ pc' \in [Process -> Label] /\ pc'[u] = "seeking"
  <2>1. <<pc[u], "seeking">> \in QuietMoves /\ "seeking" \notin Ends
    BY <1>1 DEF QuietMoves, Ends
  <2>2. UNCHANGED <<frame, missing, job, reaped>> /\ resume' = resume
    BY <1>1 DEF locals
  <2> QED BY <1>1, <2>1, <2>2, QuietMove, InvTypes
<1>3. TypeOK'
  BY <1>1, <1>2, InvTypes DEF TypeOK, GoOn, memory, locals
<1>4. Control'
  BY <1>2, <1>3, QuietControl, InvTypes
<1>5. SeekKept'
  <2> SUFFICES ASSUME NEW v \in User \ {u}, pc'[v] \in {"seeking", "transferring"}
               PROVE  FALSE
    BY <1>1 DEF SeekKept
  <2>1. pc[v] \in {"seeking", "transferring"}
    BY <1>2, OthersStay, InvTypes DEF Quiet
  <2> QED BY <2>1, <1>1, OneOnDisk, InvTypes DEF DiskLabels
<1>6. KeepsFrames(u)
  BY <1>1, <1>2 DEF KeepsFrames, Replacing, Needing, Paging, Cleared, DiskLabels, locals
<1>7. Memory'
  BY <1>1, <1>2, <1>6, MemoryKept, InvTypes DEF Quiet, memory
<1> QED BY <1>4, <1>5, <1>7 DEF Inv

LEMMA TapeDoneInv ==
  ASSUME Inv, NEW u \in User, TapeDone(u)
  PROVE  Inv'
<1>1. /\ ~Blocked(u) /\ pc[u] = "tapeReading" /\ pc' = [pc EXCEPT ![u] = "diskP"]
      /\ job' = [job EXCEPT ![u] = "tape"] /\ GoOn
      /\ UNCHANGED <<memory, frame, missing, resume, seeker, reaped, panic>>
      /\ pc'[u] = "diskP" /\ job'[u] = "tape"
      /\ pc' \in [Process -> Label]
  BY InvTypes, Constants DEF TapeDone, At, Goto, TypeOK, Label
<1>2. UserStep(u)
  BY <1>1, InvTypes DEF UserStep, Moves, Label, TestLabel, TypeOK
<1>3. KeepsSwap(u) /\ KeepsDisk(u) /\ KeepsTold(u) /\ KeepsDevices(u)
  <2>1. KeepsSwap(u) /\ KeepsDisk(u) /\ KeepsTold(u)
    BY <1>1 DEF KeepsSwap, KeepsDisk, KeepsTold, InSwap, InDisk, Told, Paging, DiskLabels
  <2>2. KeepsDevices(u)
    BY <1>1 DEF KeepsDevices, KeepsMutex, Driving, Device, DeathLabels, FaultLabels,
                Paging, DiskLabels
  <2> QED BY <2>1, <2>2
<1>4. TypeOK'
  BY <1>1, InvTypes DEF TypeOK, GoOn, memory
<1>5. Control'
  BY <1>1, <1>2, <1>3, <1>4, QuietControl, InvTypes DEF Quiet
<1>6. SeekKept'
  BY <1>1, <1>2, SeekKeptStep, InvTypes DEF Inv
<1>7. KeepsFrames(u)
  BY <1>1 DEF KeepsFrames, Replacing, Needing, Paging, Cleared, DiskLabels
<1>8. Memory'
  BY <1>1, <1>2, <1>7, MemoryKept, InvTypes DEF memory
<1> QED BY <1>5, <1>6, <1>8 DEF Inv

\* The entry of a page a program may touch is one of its page tables.
LEMMA EntryOfTouched ==
  ASSUME NEW u \in User, NEW t \in Touched[u]
  PROVE  /\ EntryOf(t[1], u, t[2]) \in Entry
         /\ EntryOf(t[1], u, t[2]) \in Private => EntryOf(t[1], u, t[2])[2] = u
<1>1. t \in Touchable
  BY ProgramAssumption DEF User
<1>2. CASE t[1] = 2 /\ t[2] \in 0 .. KUSEGSIZE
  <2>1. EntryOf(t[1], u, t[2]) = <<2, u, IF t[2] >= KUSEGSIZE THEN KUSEGSIZE - 1 ELSE t[2]>>
    BY <1>2 DEF EntryOf
  <2>2. (IF t[2] >= KUSEGSIZE THEN KUSEGSIZE - 1 ELSE t[2]) \in 0 .. KUSEGSIZE - 1
    BY <1>2, Constants
  <2> QED BY <2>1, <2>2 DEF Entry
<1>3. CASE t[1] = 3 /\ t[2] \in 0 .. KUSEGSIZE - 1
  <2>1. EntryOf(t[1], u, t[2]) = <<3, 0, t[2]>>
    BY <1>3, Constants DEF EntryOf
  <2> QED BY <2>1, <1>3 DEF Entry, Private
<1> QED BY <1>1, <1>2, <1>3 DEF Touchable

\* The page u faults on is its own, and not valid.
LEMMA FaultInv ==
  ASSUME Inv, NEW u \in User, NEW t \in Touched[u], Fault(u, t[1], t[2])
  PROVE  Inv'
<1> DEFINE e == EntryOf(t[1], u, t[2])
<1>1. /\ ~Blocked(u) /\ pc[u] \in Touching /\ pc' = [pc EXCEPT ![u] = "swapP"]
      /\ pte[e] = NONE
      /\ missing' = [missing EXCEPT ![u] = e] /\ resume' = [resume EXCEPT ![u] = pc[u]]
      /\ GoOn /\ UNCHANGED <<memory, frame, job, seeker, reaped, panic>>
      /\ pc'[u] = "swapP" /\ resume'[u] = pc[u] /\ missing'[u] = e
      /\ pc' \in [Process -> Label]
  BY InvTypes, Constants DEF Fault, At, Raise, Goto, TypeOK, Label, FaultLabels
<1>2. e \in Entry /\ (e \in Private => e[2] = u)
  BY EntryOfTouched
<1> HIDE DEF e
<1>3. UserStep(u)
  BY <1>1, InvTypes DEF UserStep, Moves, Label, TestLabel, TypeOK, FaultLabels
<1>4. KeepsSwap(u) /\ KeepsDisk(u) /\ KeepsTold(u)
  BY <1>1 DEF KeepsSwap, KeepsDisk, KeepsTold, InSwap, InDisk, Told, Paging, DiskLabels,
              Touching
<1>5. KeepsDevices(u)
  BY <1>1 DEF KeepsDevices, KeepsMutex, Driving, Device, DeathLabels, FaultLabels, Paging,
              DiskLabels, Touching
<1>6. TypeOK'
  BY <1>1, <1>2, InvTypes DEF TypeOK, GoOn, memory
<1>7. Control'
  BY <1>1, <1>3, <1>4, <1>5, <1>6, QuietControl, InvTypes DEF Quiet, Touching
<1>8. SeekKept'
  BY <1>1, <1>3, SeekKeptStep, InvTypes DEF Inv
<1>9. Memory'
  <2>1. /\ ~Replacing(u) /\ ~Replacing(u)' /\ u \notin Cleared /\ u \notin Cleared'
    BY <1>1 DEF Replacing, Paging, DiskLabels, Touching, Cleared
  <2>2. \A v \in User \ {u} : /\ Replacing(v)' <=> Replacing(v)
                              /\ Needing(v)' <=> Needing(v)
                              /\ v \in Cleared' <=> v \in Cleared
                              /\ frame'[v] = frame[v] /\ missing'[v] = missing[v]
    BY <1>3, OthersReplace, InvTypes
  <2>3. Cleared' = Cleared /\ Alive' = Alive
    BY <2>1, <2>2 DEF Cleared, Alive
  <2>4. swapPool' = swapPool /\ pte' = pte
    BY <1>1 DEF memory
  <2>5. PoolOwned' /\ ValidMeansResident' /\ DeadHoldNoFrame'
    BY <2>3, <2>4, InvTypes DEF Memory, PoolOwned, ValidMeansResident, DeadHoldNoFrame,
                               OwnEntries
  <2>6. MissingStaysOut'
    BY <1>1, <1>2, <2>1, <2>2, <2>4, InvTypes DEF Memory, MissingStaysOut
  <2>7. ChosenNotMapped'
    BY <2>1, <2>2, <2>3, <2>4, InvTypes DEF Memory, ChosenNotMapped
  <2>8. PoolMapped'
    BY <2>1, <2>2, <2>4, InvTypes DEF Memory, PoolMapped
  <2> QED BY <2>5, <2>6, <2>7, <2>8 DEF Memory
<1> QED BY <1>7, <1>8, <1>9 DEF Inv

\* spinTheBottle: the page that had the frame is made not valid before anybody
\* can be told of the frame's new use.
LEMMA SpinInv ==
  ASSUME Inv, NEW u \in User, Spin(u)
  PROVE  Inv'
<1> DEFINE f == (next + 1) % SWAPSIZE
           old == swapPool[f]
           j == IF old.sw_asid # -1 THEN "out" ELSE "in"
<1>1. /\ ~Blocked(u) /\ pc[u] = "spin" /\ pc' = [pc EXCEPT ![u] = "diskP"]
      /\ next' = f /\ frame' = [frame EXCEPT ![u] = f] /\ job' = [job EXCEPT ![u] = j]
      /\ pte' = IF old.sw_asid # -1 THEN [pte EXCEPT ![old.sw_pte] = NONE] ELSE pte
      /\ GoOn /\ UNCHANGED <<swapPool, missing, resume, seeker, reaped, panic>>
  BY DEF Spin, At, Goto
<1>2. f \in Frame /\ j \in {"out", "in"}
  BY InvTypes, Constants DEF TypeOK, Frame
<1>3. old.sw_asid # -1 => old.sw_pte \in Entry
  BY <1>2, InvTypes DEF Memory, PoolOwned
<1> HIDE DEF f, j
<1>4. /\ pc'[u] = "diskP" /\ job'[u] = j /\ frame'[u] = f
      /\ pc' \in [Process -> Label]
  BY <1>1, InvTypes, Constants DEF TypeOK, Label
<1>5. \A e \in Entry : pte'[e] = IF old.sw_asid # -1 /\ e = old.sw_pte THEN NONE ELSE pte[e]
  BY <1>1, <1>3, InvTypes DEF TypeOK
<1>6. UserStep(u)
  BY <1>1, InvTypes DEF UserStep, Moves, Label, TestLabel, TypeOK
<1>7. KeepsSwap(u) /\ KeepsDisk(u) /\ KeepsTold(u)
  BY <1>1, <1>2, <1>4 DEF KeepsSwap, KeepsDisk, KeepsTold, InSwap, InDisk, Told, Paging,
                          DiskLabels
<1>8. KeepsDevices(u)
  BY <1>1, <1>2, <1>4 DEF KeepsDevices, KeepsMutex, Driving, Device, DeathLabels,
                          FaultLabels, Paging, DiskLabels
<1>9. TypeOK'
  <2>1. pte' \in [Entry -> Frame \cup {NONE}]
    BY <1>1, <1>3, InvTypes DEF TypeOK
  <2> QED BY <1>1, <1>2, <1>4, <2>1, InvTypes DEF TypeOK, GoOn
<1>10. Control'
  BY <1>1, <1>6, <1>7, <1>8, <1>9, QuietControl, InvTypes DEF Quiet
<1>11. SeekKept'
  BY <1>1, <1>4, <1>6, SeekKeptStep, InvTypes DEF Inv
<1>12. Memory'
  <2>1. /\ Replacing(u)' /\ ~Replacing(u) /\ Needing(u) /\ u \notin Cleared
        /\ u \notin Cleared' /\ missing' = missing
    BY <1>1, <1>2, <1>4 DEF Replacing, Needing, Paging, Cleared, DiskLabels
  <2>2. \A v \in User \ {u} : /\ Replacing(v)' <=> Replacing(v)
                              /\ Needing(v)' <=> Needing(v)
                              /\ v \in Cleared' <=> v \in Cleared
                              /\ frame'[v] = frame[v]
    BY <1>6, OthersReplace, InvTypes
  <2>3. Cleared' = Cleared /\ Alive' = Alive
    BY <2>1, <2>2 DEF Cleared, Alive
  <2>4. swapPool' = swapPool
    BY <1>1
  <2>5. PoolOwned' /\ DeadHoldNoFrame'
    BY <2>3, <2>4, InvTypes DEF Memory, PoolOwned, DeadHoldNoFrame
  <2>6. MissingStaysOut'
    <3>1. ASSUME NEW v \in User, Needing(v)'
          PROVE  Needing(v) /\ missing[v] \in Entry
      BY <3>1, <2>1, <2>2, InvTypes DEF Memory, MissingStaysOut
    <3>2. ASSUME NEW v \in User, Needing(v)', missing[v] \in Private
          PROVE  missing[v][2] = v /\ pte'[missing[v]] = NONE
      BY <3>1, <3>2, <1>5, InvTypes DEF Memory, MissingStaysOut
    <3>3. ASSUME NEW v \in User, Replacing(v)' PROVE frame'[v] \in Frame
      BY <3>3, <1>2, <1>4, <2>2, InvTypes DEF Memory, MissingStaysOut
    <3> QED BY <3>1, <3>2, <3>3, <2>1 DEF MissingStaysOut
  <2>7. ValidMeansResident'
    <3>1. ASSUME NEW v \in Alive, NEW e \in OwnEntries(v), pte'[e] # NONE
          PROVE  swapPool[pte'[e]] = [sw_asid |-> v, sw_pte |-> e]
      <4>1. e \in Entry
        BY DEF OwnEntries, Private
      <4>2. pte'[e] = pte[e] /\ pte[e] # NONE
        BY <3>1, <4>1, <1>5
      <4> QED BY <4>2, InvTypes DEF Memory, ValidMeansResident
    <3> QED BY <3>1, <2>3, <2>4 DEF ValidMeansResident, OwnEntries
  <2>8. ChosenNotMapped'
    <3> SUFFICES ASSUME NEW v \in User, Replacing(v)', NEW e \in Private,
                        pte'[e] = frame'[v], e[2] \in Alive
                 PROVE  FALSE
      BY <2>3 DEF ChosenNotMapped
    <3>1. e \in Entry /\ pte'[e] \in Frame /\ pte'[e] # NONE
      BY <1>2, <1>4, <2>2, InvTypes, Constants DEF Private, Memory, MissingStaysOut
    <3>2. pte[e] = pte'[e] /\ ~(old.sw_asid # -1 /\ e = old.sw_pte)
      BY <3>1, <1>5
    <3>3. CASE v = u
      <4>1. swapPool[f] = [sw_asid |-> e[2], sw_pte |-> e] /\ e[2] \in User
        BY <3>1, <3>2, <3>3, <1>4, InvTypes
           DEF Memory, ValidMeansResident, OwnEntries, Alive
      <4> QED BY <4>1, <3>2, Constants
    <3>4. CASE v # u
      BY <3>2, <3>4, <2>2, InvTypes DEF Memory, ChosenNotMapped
    <3> QED BY <3>3, <3>4
  <2>9. PoolMapped'
    <3> SUFFICES ASSUME NEW g \in Frame, swapPool[g].sw_asid # -1,
                        swapPool[g].sw_pte \in Private
                 PROVE  \/ pte'[swapPool[g].sw_pte] = g
                        \/ /\ pte'[swapPool[g].sw_pte] = NONE
                           /\ \E v \in User : Replacing(v)' /\ frame'[v] = g
      BY <2>4 DEF PoolMapped
    <3> DEFINE e == swapPool[g].sw_pte
    <3>1. e \in Entry
      BY DEF Private
    <3>2. pte[e] = g
      <4>1. ASSUME NEW v \in User, Replacing(v) PROVE FALSE
        BY <4>1, <1>1, <2>1, OneReplaces, InvTypes
      <4> QED BY <4>1, InvTypes DEF Memory, PoolMapped
    <3>3. CASE g = f
      BY <3>1, <3>2, <3>3, <1>4, <1>5, <2>1
    <3>4. CASE g # f
      <4>1. old.sw_asid # -1 /\ e = old.sw_pte => pte[e] = f
        <5>1. ASSUME NEW v \in User, Replacing(v) PROVE FALSE
          BY <5>1, <1>1, <2>1, OneReplaces, InvTypes
        <5> QED BY <5>1, <1>2, InvTypes DEF Memory, PoolMapped
      <4>2. pte'[e] = pte[e]
        BY <4>1, <3>1, <3>2, <3>4, <1>5
      <4> QED BY <4>2, <3>2
    <3> QED BY <3>3, <3>4
  <2> QED BY <2>5, <2>6, <2>7, <2>8, <2>9 DEF Memory
<1> QED BY <1>10, <1>11, <1>12 DEF Inv

\* The frame u chose gets u's page: nobody alive has a private page in it, and no
\* other frame in use has this one.
LEMMA InstallInv ==
  ASSUME Inv, NEW u \in User, Install(u)
  PROVE  Inv'
<1> DEFINE f == frame[u]
           page == missing[u]
<1>1. /\ ~Blocked(u) /\ pc[u] = "install" /\ pc' = [pc EXCEPT ![u] = "swapV"]
      /\ swapPool' = [swapPool EXCEPT ![f] = [sw_asid |-> u, sw_pte |-> page]]
      /\ pte' = [pte EXCEPT ![page] = f]
      /\ GoOn /\ UNCHANGED <<next, locals, seeker, reaped, panic>>
  BY DEF Install, At, Goto
<1>2. Replacing(u) /\ Needing(u) /\ u \in Alive
  BY <1>1 DEF Replacing, Needing, Alive, Cleared
<1>3. /\ f \in Frame /\ page \in Entry
      /\ page \in Private => page[2] = u /\ pte[page] = NONE
  BY <1>2, InvTypes DEF Memory, MissingStaysOut
<1>4. Quiet(u) /\ pc' \in [Process -> Label] /\ pc'[u] = "swapV"
  <2>1. <<pc[u], "swapV">> \in QuietMoves /\ "swapV" \notin Ends
    BY <1>1 DEF QuietMoves, Ends
  <2>2. UNCHANGED <<frame, missing, job, reaped>> /\ resume' = resume
    BY <1>1 DEF locals
  <2> QED BY <1>1, <2>1, <2>2, QuietMove, InvTypes
<1>5. /\ \A e \in Entry : pte'[e] = IF e = page THEN f ELSE pte[e]
      /\ \A g \in Frame : swapPool'[g] = IF g = f THEN [sw_asid |-> u, sw_pte |-> page]
                                         ELSE swapPool[g]
  BY <1>1, <1>3, InvTypes DEF TypeOK
<1> HIDE DEF f, page
<1>6. TypeOK'
  <2>1. pte' \in [Entry -> Frame \cup {NONE}]
    BY <1>1, <1>3, InvTypes DEF TypeOK
  <2>2. swapPool' \in [Frame -> [sw_asid : User \cup {-1}, sw_pte : Entry \cup {NONE}]]
    BY <1>1, <1>3, InvTypes DEF TypeOK
  <2> QED BY <1>1, <1>4, <2>1, <2>2, InvTypes DEF TypeOK, GoOn, locals
<1>7. Control'
  BY <1>4, <1>6, QuietControl, InvTypes
<1>8. SeekKept'
  BY <1>1, <1>4, SeekKeptStep, InvTypes DEF Quiet, Inv
<1>9. Memory'
  <2>1. /\ ~Replacing(u)' /\ ~Needing(u)' /\ u \notin Cleared /\ u \notin Cleared'
        /\ missing' = missing /\ frame' = frame
    BY <1>1, <1>4 DEF Replacing, Needing, Paging, Cleared, DiskLabels, locals
  <2>2. \A v \in User \ {u} : /\ Replacing(v)' <=> Replacing(v)
                              /\ Needing(v)' <=> Needing(v)
                              /\ v \in Cleared' <=> v \in Cleared
    BY <1>4, OthersReplace, InvTypes DEF Quiet
  <2>3. Cleared' = Cleared /\ Alive' = Alive
    BY <2>1, <2>2 DEF Cleared, Alive
  <2>4. \A v \in User : ~Replacing(v)'
    <3>1. ASSUME NEW v \in User \ {u}, Replacing(v) PROVE FALSE
      BY <3>1, <1>2, OneReplaces, InvTypes
    <3> QED BY <3>1, <2>1, <2>2
  <2>5. PoolOwned'
    BY <1>3, <1>5, InvTypes DEF Memory, PoolOwned
  <2>6. MissingStaysOut'
    <3>1. ASSUME NEW v \in User \ {u}, Needing(v)
          PROVE  /\ missing[v] \in Entry
                 /\ missing[v] \in Private => missing[v][2] = v /\ pte'[missing[v]] = NONE
      <4>1. /\ missing[v] \in Entry
            /\ missing[v] \in Private => missing[v][2] = v /\ pte[missing[v]] = NONE
        BY <3>1, InvTypes DEF Memory, MissingStaysOut
      <4>2. missing[v] \in Private => missing[v] # page
        BY <4>1, <1>3
      <4> QED BY <4>1, <4>2, <1>5
    <3> QED BY <3>1, <2>1, <2>2, <2>4 DEF MissingStaysOut
  <2>7. ValidMeansResident'
    <3> SUFFICES ASSUME NEW v \in Alive, NEW e \in OwnEntries(v), pte'[e] # NONE
                 PROVE  swapPool'[pte'[e]] = [sw_asid |-> v, sw_pte |-> e]
      BY <2>3 DEF ValidMeansResident, OwnEntries
    <3>1. e \in Entry /\ e \in Private /\ e[2] = v /\ v \in User
      BY DEF OwnEntries, Private, Alive
    <3>2. CASE e = page
      BY <3>1, <3>2, <1>3, <1>5
    <3>3. CASE e # page
      <4>1. pte'[e] = pte[e] /\ pte[e] \in Frame
        BY <3>1, <3>3, <1>5, InvTypes DEF TypeOK
      <4>2. swapPool[pte[e]] = [sw_asid |-> v, sw_pte |-> e]
        BY <4>1, <1>5, Constants, InvTypes DEF Memory, ValidMeansResident
      <4>3. pte[e] # f
        BY <3>1, <1>2, InvTypes DEF Memory, ChosenNotMapped, f
      <4> QED BY <4>1, <4>2, <4>3, <1>5
    <3> QED BY <3>2, <3>3
  <2>8. ChosenNotMapped'
    BY <2>4 DEF ChosenNotMapped
  <2>9. PoolMapped'
    <3> SUFFICES ASSUME NEW g \in Frame, swapPool'[g].sw_asid # -1,
                        swapPool'[g].sw_pte \in Private
                 PROVE  pte'[swapPool'[g].sw_pte] = g
      BY DEF PoolMapped
    <3>1. CASE g = f
      BY <3>1, <1>3, <1>5
    <3>2. CASE g # f
      <4> DEFINE e == swapPool[g].sw_pte
      <4>1. swapPool'[g] = swapPool[g] /\ e \in Private /\ e \in Entry
        BY <3>2, <1>5 DEF Private
      <4>2. pte[e] = g
        <5>1. ASSUME NEW v \in User, Replacing(v), frame[v] = g PROVE FALSE
          BY <5>1, <3>2, <1>2, OneReplaces, InvTypes DEF f
        <5> QED BY <5>1, <4>1, InvTypes DEF Memory, PoolMapped
      <4>3. e # page
        BY <4>1, <4>2, <1>3, Constants
      <4> QED BY <4>1, <4>2, <4>3, <1>5
    <3> QED BY <3>1, <3>2
  <2>10. DeadHoldNoFrame'
    BY <1>2, <1>5, <2>3, InvTypes DEF Memory, DeadHoldNoFrame, Alive
  <2> QED BY <2>5, <2>6, <2>7, <2>8, <2>9, <2>10 DEF Memory
<1> QED BY <1>7, <1>8, <1>9 DEF Inv

\* meIRL: the frames of u are free, the others stay as they are.
LEMMA ClearInv ==
  ASSUME Inv, NEW u \in User, Clear(u)
  PROVE  Inv'
<1>1. /\ ~Blocked(u) /\ pc[u] = "clear" /\ pc' = [pc EXCEPT ![u] = "dieV"]
      /\ swapPool' = [f \in Frame |-> IF swapPool[f].sw_asid = u
                                      THEN [swapPool[f] EXCEPT !.sw_asid = -1]
                                      ELSE swapPool[f]]
      /\ GoOn /\ UNCHANGED <<pte, next, locals, seeker, reaped, panic>>
  BY DEF Clear, At, Goto
<1>2. Quiet(u) /\ pc' \in [Process -> Label] /\ pc'[u] = "dieV"
  <2>1. <<pc[u], "dieV">> \in QuietMoves /\ "dieV" \notin Ends
    BY <1>1 DEF QuietMoves, Ends
  <2>2. UNCHANGED <<frame, missing, job, reaped>> /\ resume' = resume
    BY <1>1 DEF locals
  <2> QED BY <1>1, <2>1, <2>2, QuietMove, InvTypes
<1>3. \A f \in Frame : /\ swapPool[f] \in [sw_asid : User \cup {-1},
                                           sw_pte : Entry \cup {NONE}]
                       /\ swapPool[f].sw_asid # u => swapPool'[f] = swapPool[f]
                       /\ swapPool[f].sw_asid = u => swapPool'[f].sw_asid = -1
                       /\ swapPool'[f].sw_pte = swapPool[f].sw_pte
  BY <1>1, InvTypes DEF TypeOK
<1>4. TypeOK'
  <2>1. swapPool' \in [Frame -> [sw_asid : User \cup {-1}, sw_pte : Entry \cup {NONE}]]
    BY <1>1, InvTypes DEF TypeOK
  <2> QED BY <1>1, <1>2, <2>1, InvTypes DEF TypeOK, GoOn, locals
<1>5. Control'
  BY <1>2, <1>4, QuietControl, InvTypes
<1>6. SeekKept'
  BY <1>1, <1>2, SeekKeptStep, InvTypes DEF Quiet, Inv
<1>7. Memory'
  <2>1. /\ ~Replacing(u)' /\ ~Needing(u)' /\ ~Replacing(u) /\ u \in Cleared'
        /\ missing' = missing /\ frame' = frame /\ pte' = pte
    BY <1>1, <1>2 DEF Replacing, Needing, Paging, Cleared, DiskLabels, locals
  <2>2. \A v \in User \ {u} : /\ Replacing(v)' <=> Replacing(v)
                              /\ Needing(v)' <=> Needing(v)
                              /\ v \in Cleared' <=> v \in Cleared
    BY <1>2, OthersReplace, InvTypes DEF Quiet
  <2>3. Cleared' = Cleared \cup {u} /\ Alive' = Alive \ {u} /\ Alive \subseteq User
    BY <2>1, <2>2 DEF Cleared, Alive
  <2>4. PoolOwned'
    BY <1>3, InvTypes DEF Memory, PoolOwned
  <2>5. MissingStaysOut'
    BY <2>1, <2>2, InvTypes DEF Memory, MissingStaysOut
  <2>6. ValidMeansResident'
    <3> SUFFICES ASSUME NEW v \in Alive \ {u}, NEW e \in OwnEntries(v), pte[e] # NONE
                 PROVE  swapPool'[pte[e]] = [sw_asid |-> v, sw_pte |-> e]
      BY <2>1, <2>3 DEF ValidMeansResident, OwnEntries
    <3>1. swapPool[pte[e]] = [sw_asid |-> v, sw_pte |-> e]
      BY InvTypes DEF Memory, ValidMeansResident
    <3>2. pte[e] \in Frame
      BY InvTypes DEF TypeOK, OwnEntries, Private
    <3> QED BY <3>1, <3>2, <1>3
  <2>7. ChosenNotMapped'
    BY <2>1, <2>2, <2>3, InvTypes DEF Memory, ChosenNotMapped
  <2>8. PoolMapped'
    <3> SUFFICES ASSUME NEW g \in Frame, swapPool'[g].sw_asid # -1,
                        swapPool'[g].sw_pte \in Private
                 PROVE  \/ pte[swapPool[g].sw_pte] = g
                        \/ /\ pte[swapPool[g].sw_pte] = NONE
                           /\ \E v \in User : Replacing(v)' /\ frame[v] = g
      BY <1>3, <2>1 DEF PoolMapped
    <3>1. swapPool[g].sw_asid # -1 /\ swapPool[g].sw_pte \in Private
      BY <1>3
    <3> QED BY <3>1, <2>1, <2>2, InvTypes DEF Memory, PoolMapped
  <2>9. DeadHoldNoFrame'
    <3>1. ASSUME NEW f \in Frame PROVE swapPool'[f].sw_asid # u
      BY <1>3, Constants
    <3>2. ASSUME NEW v \in Cleared, NEW f \in Frame PROVE swapPool'[f].sw_asid # v
      <4>1. swapPool[f].sw_asid # v /\ v # -1
        BY Constants, InvTypes DEF Memory, DeadHoldNoFrame, Cleared
      <4> QED BY <4>1, <1>3
    <3> QED BY <3>1, <3>2, <2>3 DEF DeadHoldNoFrame
  <2> QED BY <2>4, <2>5, <2>6, <2>7, <2>8, <2>9 DEF Memory
<1> QED BY <1>5, <1>6, <1>7 DEF Inv

-----------------------------------------------------------------------------
(***************************************************************************)
(* The steps of a user process on a semaphore.                             *)
(***************************************************************************)
OnlySem(s) == \A t \in Sem \ {s} : semVal'[t] = semVal[t] /\ semQ'[t] = semQ[t]

LEMMA SwapControl ==
  ASSUME Control, NEW u \in User, UserStep(u), OnlySem(Swap), TypeOK', SwapGuarded',
         KeepsDisk(u), KeepsTold(u), KeepsDevices(u), pc[u] \notin {"unborn", "dead"}
  PROVE  Control'
<1>1. DiskGuarded'
  BY Semaphores, DiskKept DEF OnlySem, Control
<1>2. DevicesAccounted'
  BY Semaphores, DevicesKept DEF OnlySem, Control
<1>3. Roles' /\ Progress' /\ MasterCounts'
  BY Semaphores, MasterKept DEF OnlySem, Control
<1> QED BY <1>1, <1>2, <1>3 DEF Control

LEMMA DiskControl ==
  ASSUME Control, NEW u \in User, UserStep(u), OnlySem(Disk0), TypeOK', DiskGuarded',
         KeepsSwap(u), KeepsTold(u), KeepsDevices(u), pc[u] \notin {"unborn", "dead"}
  PROVE  Control'
<1>1. SwapGuarded'
  BY Semaphores, SwapKept DEF OnlySem, Control
<1>2. DevicesAccounted'
  BY Semaphores, DevicesKept DEF OnlySem, Control
<1>3. Roles' /\ Progress' /\ MasterCounts'
  BY Semaphores, MasterKept DEF OnlySem, Control
<1> QED BY <1>1, <1>2, <1>3 DEF Control

LEMMA DeviceControl ==
  ASSUME Control, NEW u \in User, UserStep(u), NEW d \in Device,
         OnlySem(Mutex(d, u)), TypeOK', DevicesAccounted',
         KeepsSwap(u), KeepsDisk(u), KeepsTold(u), pc[u] \notin {"unborn", "dead"}
  PROVE  Control'
<1>1. SwapGuarded' /\ DiskGuarded'
  BY Semaphores, SwapKept, DiskKept DEF OnlySem, Control
<1>2. Roles' /\ Progress' /\ MasterCounts'
  BY Semaphores, MasterKept DEF OnlySem, Control
<1> QED BY <1>1, <1>2 DEF Control

LEMMA SwapPInv ==
  ASSUME Inv, NEW u \in User, SwapP(u)
  PROVE  Inv'
<1>1. /\ ~Blocked(u) /\ pc[u] = "swapP" /\ pc' = [pc EXCEPT ![u] = "spin"] /\ P(Swap, u)
      /\ UNCHANGED <<memory, locals, seeker, reaped, panic>>
      /\ pc'[u] = "spin" /\ pc' \in [Process -> Label]
  BY InvTypes, Constants DEF SwapP, At, Goto, TypeOK, Label, FaultLabels
<1>2. UserStep(u)
  BY <1>1 DEF UserStep, Moves, Label, TestLabel, FaultLabels, locals
<1>3. KeepsDisk(u) /\ KeepsTold(u) /\ u \notin InSwap /\ u \in InSwap'
  BY <1>1 DEF KeepsDisk, KeepsTold, InSwap, InDisk, Told, Paging, DiskLabels
<1>4. KeepsDevices(u)
  BY <1>1 DEF KeepsDevices, KeepsMutex, Driving, Device, DeathLabels, FaultLabels, Paging,
              DiskLabels, locals
<1>5. SwapGuarded'
  BY <1>1, <1>2, <1>3, SwapTaken, InvTypes
<1>6. /\ semVal' \in [Sem -> Int] /\ semQ' \in [Sem -> Seq(Process)] /\ OnlySem(Swap)
  BY <1>1, PTyped, Semaphores, Constants, InvTypes DEF OnlySem
<1>7. TypeOK'
  BY <1>1, <1>6, InvTypes DEF TypeOK, memory, locals
<1>8. Control'
  BY <1>1, <1>2, <1>3, <1>4, <1>5, <1>6, <1>7, SwapControl, InvTypes
<1>9. SeekKept'
  BY <1>1, <1>2, SeekKeptStep, InvTypes DEF Inv
<1>10. KeepsFrames(u)
  BY <1>1 DEF KeepsFrames, Replacing, Needing, Paging, Cleared, DiskLabels, locals
<1>11. Memory'
  BY <1>1, <1>2, <1>10, MemoryKept, InvTypes DEF memory
<1> QED BY <1>8, <1>9, <1>11 DEF Inv

LEMMA DiePInv ==
  ASSUME Inv, NEW u \in User, DieP(u)
  PROVE  Inv'
<1>1. /\ ~Blocked(u) /\ pc[u] = "dieP" /\ pc' = [pc EXCEPT ![u] = "clear"] /\ P(Swap, u)
      /\ UNCHANGED <<memory, locals, seeker, reaped, panic>>
      /\ pc'[u] = "clear" /\ pc' \in [Process -> Label]
  BY InvTypes, Constants DEF DieP, At, Goto, TypeOK, Label, DeathLabels
<1>2. UserStep(u)
  BY <1>1 DEF UserStep, Moves, Label, TestLabel, DeathLabels, locals
<1>3. KeepsDisk(u) /\ KeepsTold(u) /\ u \notin InSwap /\ u \in InSwap'
  BY <1>1 DEF KeepsDisk, KeepsTold, InSwap, InDisk, Told, Paging, DiskLabels
<1>4. KeepsDevices(u)
  BY <1>1 DEF KeepsDevices, KeepsMutex, Driving, Device, DeathLabels, FaultLabels, Paging,
              DiskLabels, locals
<1>5. SwapGuarded'
  BY <1>1, <1>2, <1>3, SwapTaken, InvTypes
<1>6. /\ semVal' \in [Sem -> Int] /\ semQ' \in [Sem -> Seq(Process)] /\ OnlySem(Swap)
  BY <1>1, PTyped, Semaphores, Constants, InvTypes DEF OnlySem
<1>7. TypeOK'
  BY <1>1, <1>6, InvTypes DEF TypeOK, memory, locals
<1>8. Control'
  BY <1>1, <1>2, <1>3, <1>4, <1>5, <1>6, <1>7, SwapControl, InvTypes
<1>9. SeekKept'
  BY <1>1, <1>2, SeekKeptStep, InvTypes DEF Inv
<1>10. KeepsFrames(u)
  BY <1>1 DEF KeepsFrames, Replacing, Needing, Paging, Cleared, DiskLabels, locals
<1>11. Memory'
  BY <1>1, <1>2, <1>10, MemoryKept, InvTypes DEF memory
<1> QED BY <1>8, <1>9, <1>11 DEF Inv

LEMMA DieVInv ==
  ASSUME Inv, NEW u \in User, DieV(u)
  PROVE  Inv'
<1>1. /\ ~Blocked(u) /\ pc[u] = "dieV" /\ pc' = [pc EXCEPT ![u] = "tell"] /\ V(Swap)
      /\ UNCHANGED <<memory, locals, seeker, reaped, panic>>
      /\ pc'[u] = "tell" /\ pc' \in [Process -> Label]
  BY InvTypes, Constants DEF DieV, At, Goto, TypeOK, Label, DeathLabels
<1>2. UserStep(u)
  BY <1>1 DEF UserStep, Moves, Label, TestLabel, DeathLabels, locals
<1>3. KeepsDisk(u) /\ KeepsTold(u) /\ u \in InSwap /\ u \notin InSwap'
  BY <1>1 DEF KeepsDisk, KeepsTold, InSwap, InDisk, Told, Paging, DiskLabels
<1>4. KeepsDevices(u)
  BY <1>1 DEF KeepsDevices, KeepsMutex, Driving, Device, DeathLabels, FaultLabels, Paging,
              DiskLabels, locals
<1>5. SwapGuarded' /\ (semVal[Swap] + 1 <= 0 => semQ[Swap] # <<>>)
  BY <1>1, <1>2, <1>3, SwapGivenBack, InvTypes
<1>6. /\ semVal' \in [Sem -> Int] /\ semQ' \in [Sem -> Seq(Process)] /\ OnlySem(Swap)
  BY <1>1, <1>5, VTyped, Semaphores, InvTypes DEF OnlySem
<1>7. TypeOK'
  BY <1>1, <1>6, InvTypes DEF TypeOK, memory, locals
<1>8. Control'
  BY <1>1, <1>2, <1>3, <1>4, <1>5, <1>6, <1>7, SwapControl, InvTypes
<1>9. SeekKept'
  BY <1>1, <1>2, SeekKeptStep, InvTypes DEF Inv
<1>10. KeepsFrames(u)
  BY <1>1 DEF KeepsFrames, Replacing, Needing, Paging, Cleared, DiskLabels, locals
<1>11. Memory'
  BY <1>1, <1>2, <1>10, MemoryKept, InvTypes DEF memory
<1> QED BY <1>8, <1>9, <1>11 DEF Inv

\* The end of a page fault: back to the access, with nothing held but what the
\* interrupted driver holds.
LEMMA SwapVInv ==
  ASSUME Inv, NEW u \in User, SwapV(u)
  PROVE  Inv'
<1> DEFINE m == resume[u]
<1>1. /\ ~Blocked(u) /\ pc[u] = "swapV" /\ pc' = [pc EXCEPT ![u] = m] /\ V(Swap)
      /\ Returned(u) /\ UNCHANGED <<memory, seeker, reaped, panic>>
  BY DEF SwapV, At, Goto
<1>2. m \in Touching
  BY InvTypes DEF TypeOK
<1> HIDE DEF m
<1>3. /\ pc'[u] = m /\ pc' \in [Process -> Label] /\ m \in Label \ TestLabel
      /\ job'[u] = "tape"
      /\ \A v \in User \ {u} : /\ job'[v] = job[v] /\ resume'[v] = resume[v]
                               /\ frame'[v] = frame[v] /\ missing'[v] = missing[v]
  BY <1>1, <1>2, InvTypes, Constants DEF TypeOK, Label, TestLabel, Returned, Touching
<1>4. UserStep(u)
  BY <1>1, <1>3 DEF UserStep, Moves
<1>5. KeepsDisk(u) /\ KeepsTold(u) /\ u \in InSwap /\ u \notin InSwap'
  BY <1>1, <1>2, <1>3 DEF KeepsDisk, KeepsTold, InSwap, InDisk, Told, Paging, DiskLabels,
                          Touching
<1>6. KeepsDevices(u)
  BY <1>1, <1>2, <1>3 DEF KeepsDevices, KeepsMutex, Driving, Device, DeathLabels,
                          FaultLabels, Paging, DiskLabels, Touching, m
<1>7. SwapGuarded' /\ (semVal[Swap] + 1 <= 0 => semQ[Swap] # <<>>)
  BY <1>1, <1>4, <1>5, SwapGivenBack, InvTypes
<1>8. /\ semVal' \in [Sem -> Int] /\ semQ' \in [Sem -> Seq(Process)] /\ OnlySem(Swap)
  BY <1>1, <1>7, VTyped, Semaphores, InvTypes DEF OnlySem
<1>9. TypeOK'
  BY <1>1, <1>3, <1>8, InvTypes DEF TypeOK, memory, Returned, Touching
<1>10. Control'
  BY <1>1, <1>4, <1>5, <1>6, <1>7, <1>8, <1>9, SwapControl, InvTypes
<1>11. SeekKept'
  BY <1>1, <1>2, <1>3, <1>4, SeekKeptStep, InvTypes DEF Inv, Touching
<1>12. KeepsFrames(u)
  BY <1>1, <1>2, <1>3 DEF KeepsFrames, Replacing, Needing, Paging, Cleared, DiskLabels,
                          Touching
<1>13. Memory'
  BY <1>1, <1>4, <1>12, MemoryKept, InvTypes DEF memory
<1> QED BY <1>10, <1>11, <1>13 DEF Inv

LEMMA DiskPInv ==
  ASSUME Inv, NEW u \in User, DiskP(u)
  PROVE  Inv'
<1>1. /\ ~Blocked(u) /\ pc[u] = "diskP" /\ pc' = [pc EXCEPT ![u] = "seek"] /\ P(Disk0, u)
      /\ UNCHANGED <<memory, locals, seeker, reaped, panic>>
      /\ pc'[u] = "seek" /\ pc' \in [Process -> Label]
  BY InvTypes, Constants DEF DiskP, At, Goto, TypeOK, Label, DiskLabels
<1>2. UserStep(u)
  BY <1>1 DEF UserStep, Moves, Label, TestLabel, DiskLabels, locals
<1>3. KeepsSwap(u) /\ KeepsTold(u) /\ u \notin InDisk /\ u \in InDisk'
  BY <1>1 DEF KeepsSwap, KeepsTold, InSwap, InDisk, Told, Paging, DiskLabels, locals
<1>4. KeepsDevices(u)
  BY <1>1 DEF KeepsDevices, KeepsMutex, Driving, Device, DeathLabels, FaultLabels, Paging,
              DiskLabels, locals
<1>5. DiskGuarded'
  BY <1>1, <1>2, <1>3, DiskTaken, InvTypes
<1>6. /\ semVal' \in [Sem -> Int] /\ semQ' \in [Sem -> Seq(Process)] /\ OnlySem(Disk0)
  BY <1>1, PTyped, Semaphores, Constants, InvTypes DEF OnlySem
<1>7. TypeOK'
  BY <1>1, <1>6, InvTypes DEF TypeOK, memory, locals
<1>8. Control'
  BY <1>1, <1>2, <1>3, <1>4, <1>5, <1>6, <1>7, DiskControl, InvTypes
<1>9. SeekKept'
  BY <1>1, <1>2, SeekKeptStep, InvTypes DEF Inv
<1>10. KeepsFrames(u)
  BY <1>1 DEF KeepsFrames, Replacing, Needing, Paging, Cleared, DiskLabels, locals
<1>11. Memory'
  BY <1>1, <1>2, <1>10, MemoryKept, InvTypes DEF memory
<1> QED BY <1>8, <1>9, <1>11 DEF Inv

\* Whatever follows the transfer, disk 0 is given back, and nothing else.
LEMMA DiskVInv ==
  ASSUME Inv, NEW u \in User, DiskV(u)
  PROVE  Inv'
<1>1. /\ ~Blocked(u) /\ pc[u] = "diskV" /\ V(Disk0) /\ seeker' = NONE
      /\ UNCHANGED <<memory, frame, missing, resume, reaped, panic>>
  BY DEF DiskV, At
<1>2. PICK m \in {"tapeRead", "tapeV", "diskP", "install"} :
        /\ pc' = [pc EXCEPT ![u] = m]
        /\ \/ job[u] = "tape" /\ job' = job /\ m \in {"tapeRead", "tapeV"}
           \/ job[u] = "out" /\ job' = [job EXCEPT ![u] = "in"] /\ m = "diskP"
           \/ job[u] = "in" /\ job' = job /\ m = "install"
  BY DEF DiskV, Goto
<1>3. /\ pc'[u] = m /\ pc' \in [Process -> Label] /\ m \in Label \ TestLabel
      /\ \A v \in User \ {u} : job'[v] = job[v]
      /\ job'[u] = IF job[u] = "out" THEN "in" ELSE job[u]
      /\ job' \in [User -> {"tape", "out", "in"}]
  BY <1>2, InvTypes, Constants DEF TypeOK, Label, TestLabel, FaultLabels
<1>4. UserStep(u)
  BY <1>1, <1>2, <1>3 DEF UserStep, Moves
<1>5. KeepsSwap(u) /\ KeepsTold(u) /\ u \in InDisk /\ u \notin InDisk'
  BY <1>1, <1>2, <1>3 DEF KeepsSwap, KeepsTold, InSwap, InDisk, Told, Paging, DiskLabels
<1>6. KeepsDevices(u)
  BY <1>1, <1>2, <1>3 DEF KeepsDevices, KeepsMutex, Driving, Device, DeathLabels,
                          FaultLabels, Paging, DiskLabels
<1>7. DiskGuarded' /\ (semVal[Disk0] + 1 <= 0 => semQ[Disk0] # <<>>)
  BY <1>1, <1>4, <1>5, DiskGivenBack, InvTypes
<1>8. /\ semVal' \in [Sem -> Int] /\ semQ' \in [Sem -> Seq(Process)] /\ OnlySem(Disk0)
  BY <1>1, <1>7, VTyped, Semaphores, InvTypes DEF OnlySem
<1>9. TypeOK'
  BY <1>1, <1>3, <1>8, InvTypes DEF TypeOK, memory
<1>10. Control'
  BY <1>1, <1>4, <1>5, <1>6, <1>7, <1>8, <1>9, DiskControl, InvTypes
<1>11. SeekKept'
  <2> SUFFICES ASSUME NEW v \in User, pc'[v] \in {"seeking", "transferring"}
               PROVE  FALSE
    BY DEF SeekKept
  <2>1. v # u
    BY <1>3
  <2>2. pc[v] \in {"seeking", "transferring"}
    BY <2>1, <1>4, OthersStay, InvTypes
  <2> QED BY <2>1, <2>2, <1>1, OneOnDisk, InvTypes DEF DiskLabels
<1>12. KeepsFrames(u)
  BY <1>1, <1>2, <1>3 DEF KeepsFrames, Replacing, Needing, Paging, Cleared, DiskLabels
<1>13. Memory'
  BY <1>1, <1>4, <1>12, MemoryKept, InvTypes DEF memory
<1> QED BY <1>10, <1>11, <1>13 DEF Inv

\* A driver takes the mutex of its device and gives it back.
LEMMA MutexTakenInv ==
  ASSUME Inv, NEW u \in User, NEW d \in Device, NEW m, ~Blocked(u),
         \/ pc[u] = "init" /\ d = "tape" /\ m = "tapeRead"
         \/ pc[u] = "user" /\ d # "tape" /\ m = d,
         pc' = [pc EXCEPT ![u] = m], P(Mutex(d, u), u),
         UNCHANGED <<memory, locals, seeker, reaped, panic>>
  PROVE  Inv'
<1>1. pc'[u] = m /\ pc' \in [Process -> Label] /\ m \in Label \ TestLabel
  BY InvTypes, Constants DEF TypeOK, Label, TestLabel, Touching, Device
<1>2. UserStep(u)
  BY <1>1 DEF UserStep, Moves, locals
<1>3. KeepsSwap(u) /\ KeepsDisk(u) /\ KeepsTold(u)
  BY <1>1 DEF KeepsSwap, KeepsDisk, KeepsTold, InSwap, InDisk, Told, Paging, DiskLabels,
              Device
<1>4. /\ ~Driving(u, d) /\ Driving(u, d)'
      /\ \A e \in Device \ {d} : KeepsMutex(u, e)
  BY <1>1, ZenonT(60) DEF KeepsMutex, Driving, Device, DeathLabels, FaultLabels,
         Paging, DiskLabels
<1>5. Mutex(d, u) \in Sem /\ u \in Process
  BY Semaphores, Constants
<1>6. /\ semVal' \in [Sem -> Int] /\ semQ' \in [Sem -> Seq(Process)]
      /\ OnlySem(Mutex(d, u))
  BY <1>5, PTyped, InvTypes DEF OnlySem
<1>7. DevicesAccounted'
  BY <1>2, <1>4, DeviceTaken, InvTypes
<1>8. TypeOK'
  BY <1>1, <1>6, InvTypes DEF TypeOK, memory, locals
<1>9. Control'
  BY <1>2, <1>3, <1>6, <1>7, <1>8, DeviceControl, InvTypes
<1>10. SeekKept'
  BY <1>1, <1>2, SeekKeptStep, InvTypes DEF Inv, Device
<1>11. KeepsFrames(u)
  BY <1>1 DEF KeepsFrames, Replacing, Needing, Paging, Cleared, DiskLabels, Device
<1>12. Memory'
  BY <1>2, <1>11, MemoryKept, InvTypes DEF memory
<1> QED BY <1>9, <1>10, <1>12 DEF Inv

LEMMA MutexGivenBackInv ==
  ASSUME Inv, NEW u \in User, NEW d \in Device, ~Blocked(u),
         \/ pc[u] = "tapeV" /\ d = "tape"
         \/ pc[u] = "readV" /\ d = "termRead"
         \/ pc[u] = d /\ d \in {"printer", "termWrite"},
         pc' = [pc EXCEPT ![u] = "user"], V(Mutex(d, u)),
         UNCHANGED <<memory, locals, seeker, reaped, panic>>
  PROVE  Inv'
<1>1. pc'[u] = "user" /\ pc' \in [Process -> Label]
  BY InvTypes, Constants DEF TypeOK, Label, Touching
<1>2. UserStep(u)
  BY <1>1 DEF UserStep, Moves, locals, Label, TestLabel, Touching
<1>3. KeepsSwap(u) /\ KeepsDisk(u) /\ KeepsTold(u)
  BY <1>1 DEF KeepsSwap, KeepsDisk, KeepsTold, InSwap, InDisk, Told, Paging, DiskLabels
<1>4. /\ Driving(u, d) /\ ~Driving(u, d)'
      /\ \A e \in Device \ {d} : KeepsMutex(u, e)
  BY <1>1, ZenonT(60) DEF KeepsMutex, Driving, Device, DeathLabels, FaultLabels,
         Paging, DiskLabels
<1>5. Mutex(d, u) \in Sem /\ semVal[Mutex(d, u)] = 0
  BY <1>4, Semaphores, InvTypes DEF DevicesAccounted
<1>6. /\ semVal' \in [Sem -> Int] /\ semQ' \in [Sem -> Seq(Process)]
      /\ OnlySem(Mutex(d, u))
  BY <1>5, VTyped, InvTypes DEF OnlySem
<1>7. DevicesAccounted'
  BY <1>2, <1>4, DeviceGivenBack, InvTypes
<1>8. TypeOK'
  BY <1>1, <1>6, InvTypes DEF TypeOK, memory, locals
<1>9. Control'
  BY <1>2, <1>3, <1>6, <1>7, <1>8, DeviceControl, InvTypes
<1>10. SeekKept'
  BY <1>1, <1>2, SeekKeptStep, InvTypes DEF Inv
<1>11. KeepsFrames(u)
  BY <1>1 DEF KeepsFrames, Replacing, Needing, Paging, Cleared, DiskLabels
<1>12. Memory'
  BY <1>2, <1>11, MemoryKept, InvTypes DEF memory
<1> QED BY <1>9, <1>10, <1>12 DEF Inv

LEMMA DriverInv ==
  ASSUME Inv, NEW u \in User,
         TapeP(u) \/ TapeV(u) \/ (\E d \in Device : Drive(u, d)) \/ Driven(u)
  PROVE  Inv'
<1>1. CASE TapeP(u)
  <2>1. /\ ~Blocked(u) /\ pc[u] = "init" /\ pc' = [pc EXCEPT ![u] = "tapeRead"]
        /\ P(Mutex("tape", u), u) /\ UNCHANGED <<memory, locals, seeker, reaped, panic>>
    BY <1>1 DEF TapeP, At, Goto
  <2>2. "tape" \in Device
    BY DEF Device
  <2> QED BY <2>1, <2>2, MutexTakenInv
<1>2. CASE TapeV(u)
  <2>1. /\ ~Blocked(u) /\ pc[u] = "tapeV" /\ pc' = [pc EXCEPT ![u] = "user"]
        /\ V(Mutex("tape", u)) /\ UNCHANGED <<memory, locals, seeker, reaped, panic>>
    BY <1>2 DEF TapeV, At, Goto
  <2>2. "tape" \in Device
    BY DEF Device
  <2> QED BY <2>1, <2>2, MutexGivenBackInv
<1>3. ASSUME NEW d \in Device, Drive(u, d)
      PROVE  Inv'
  <2>1. /\ ~Blocked(u) /\ pc[u] = "user" /\ pc' = [pc EXCEPT ![u] = d]
        /\ P(Mutex(d, u), u) /\ UNCHANGED <<memory, locals, seeker, reaped, panic>>
    BY <1>3 DEF Drive, At, Goto
  <2>2. d # "tape"
    BY <1>3, ProgramAssumption DEF Drive
  <2> QED BY <2>1, <2>2, MutexTakenInv
<1>4. CASE Driven(u)
  <2>1. PICK d \in {"printer", "termWrite", "termRead"} :
          /\ ~Blocked(u) /\ pc[u] = IF d = "termRead" THEN "readV" ELSE d
          /\ pc' = [pc EXCEPT ![u] = "user"]
          /\ V(Mutex(d, u)) /\ UNCHANGED <<memory, locals, seeker, reaped, panic>>
    BY <1>4 DEF Driven, At, Goto
  <2>2. d \in Device
    BY DEF Device
  <2> QED BY <2>1, <2>2, MutexGivenBackInv
<1> QED BY <1>1, <1>2, <1>3, <1>4

LEMMA TellInv ==
  ASSUME Inv, NEW u \in User, Tell(u)
  PROVE  Inv'
<1>1. /\ ~Blocked(u) /\ pc[u] = "tell" /\ pc' = [pc EXCEPT ![u] = "sys2"] /\ V(Master)
      /\ UNCHANGED <<memory, locals, seeker, reaped, panic>>
      /\ pc'[u] = "sys2" /\ pc' \in [Process -> Label]
  BY InvTypes, Constants DEF Tell, At, Goto, TypeOK, Label, DeathLabels
<1>2. UserStep(u)
  BY <1>1 DEF UserStep, Moves, Label, TestLabel, DeathLabels, locals
<1>3. KeepsSwap(u) /\ KeepsDisk(u)
  BY <1>1 DEF KeepsSwap, KeepsDisk, InSwap, InDisk, Paging, DiskLabels
<1>4. KeepsDevices(u)
  BY <1>1 DEF KeepsDevices, KeepsMutex, Driving, Device, DeathLabels, FaultLabels, Paging,
              DiskLabels, locals
<1>5. /\ Roles' /\ Progress' /\ MasterCounts'
      /\ semVal[Master] + 1 <= 0 => semQ[Master] # <<>>
  BY <1>1, <1>2, MasterTold, InvTypes
<1>6. /\ semVal' \in [Sem -> Int] /\ semQ' \in [Sem -> Seq(Process)] /\ OnlySem(Master)
  BY <1>1, <1>5, VTyped, Semaphores, InvTypes DEF OnlySem
<1>7. TypeOK'
  BY <1>1, <1>6, InvTypes DEF TypeOK, memory, locals
<1>8. SwapGuarded' /\ DiskGuarded'
  BY <1>2, <1>3, <1>6, Semaphores, SwapKept, DiskKept, InvTypes DEF OnlySem
<1>9. DevicesAccounted'
  BY <1>2, <1>4, <1>6, Semaphores, DevicesKept, InvTypes DEF OnlySem
<1>10. SeekKept'
  BY <1>1, <1>2, SeekKeptStep, InvTypes DEF Inv
<1>11. KeepsFrames(u)
  BY <1>1 DEF KeepsFrames, Replacing, Needing, Paging, Cleared, DiskLabels
<1>12. Memory'
  BY <1>1, <1>2, <1>11, MemoryKept, InvTypes DEF memory
<1> QED BY <1>5, <1>7, <1>8, <1>9, <1>10, <1>12 DEF Inv, Control

-----------------------------------------------------------------------------
(***************************************************************************)
(* The steps of test.                                                      *)
(***************************************************************************)
\* Numbers up to n have a least one among them: the one of rank 1.
LEMMA LeastExists ==
  ASSUME NEW n \in Nat, NEW S \in SUBSET (1 .. n), S # {}
  PROVE  \E i \in S : \A j \in S : i <= j
<1>1. IsFiniteSet(S) /\ Cardinality(S) \in Nat /\ Cardinality(S) # 0
  <2>1. IsFiniteSet(1 .. n)
    BY FS_Interval
  <2>2. IsFiniteSet(S)
    BY <2>1, FS_Subset
  <2> QED BY <2>2, FS_CardinalityType, FS_EmptySet
<1>2. PICK i \in S : Rank(S, i) = 1
  <2>1. \A k \in 1 .. Cardinality(S) : \E i \in S : Rank(S, i) = k
    BY RankBijection
  <2>2. 1 \in 1 .. Cardinality(S)
    BY <1>1
  <2> QED BY <2>1, <2>2
<1>3. IsFiniteSet({j \in S : j <= i})
  BY <1>1, FS_Subset
<1>4. PICK x : {j \in S : j <= i} = {x}
  BY <1>2, <1>3, FS_Singleton DEF Rank
<1>5. i \in Int /\ \A j \in S : j \in Int
  OBVIOUS
<1>6. i = x
  BY <1>4, <1>5
<1> QED BY <1>4, <1>5, <1>6

LEMMA CreateInv ==
  ASSUME Inv, Create
  PROVE  Inv'
<1> DEFINE unborn == {u \in User : pc[u] = "unborn"}
           least == CHOOSE v \in unborn : \A x \in unborn : v <= x
<1>1. /\ pc[Test] = "create" /\ GoOn /\ UNCHANGED <<memory, locals, seeker, reaped, panic>>
      /\ pc' = [pc EXCEPT ![least] = "init",
                          ![Test] = IF unborn = {least} THEN "reap" ELSE pc[Test]]
  BY DEF Create, At
<1>2. unborn # {} /\ unborn \in SUBSET (1 .. MAXUSERPROC) /\ reaped = 0
  BY <1>1, InvTypes DEF Progress, User
<1>3. PICK w \in unborn, m \in {"create", "reap"} :
        /\ pc' = [pc EXCEPT ![w] = "init", ![Test] = m]
        /\ m = "create" => unborn # {w}
  <2>1. least \in unborn
    BY <1>2, LeastExists, Constants
  <2> DEFINE then == IF unborn = {least} THEN "reap" ELSE pc[Test]
  <2>2. then \in {"create", "reap"} /\ (then = "create" => unborn # {least})
    BY <1>1
  <2>3. pc' = [pc EXCEPT ![least] = "init", ![Test] = then]
    BY <1>1
  <2> HIDE DEF least, unborn, then
  <2> QED BY <2>1, <2>2, <2>3
<1>4. /\ w \in User /\ pc[w] = "unborn"
      /\ pc'[w] = "init" /\ pc'[Test] = m /\ pc' \in [Process -> Label]
      /\ \A v \in User \ {w} : pc'[v] = pc[v]
  BY <1>3, InvTypes, Constants DEF TypeOK, Label
<1>5. /\ missing' = missing /\ frame' = frame /\ resume' = resume /\ job' = job
      /\ semVal' = semVal /\ semQ' = semQ
  BY <1>1 DEF locals, GoOn
<1> HIDE DEF least
<1>6. TypeOK'
  BY <1>1, <1>4, InvTypes DEF TypeOK, GoOn, memory, locals
<1>7. Roles' /\ Progress'
  <2>1. Roles'
    BY <1>4, InvTypes DEF Roles, TestLabel
  <2>2. m = "create" => \E u \in User : pc'[u] = "unborn"
    <3>1. m = "create" => \E u \in unborn : u # w
      BY <1>3
    <3> QED BY <3>1, <1>4
  <2>3. Progress'
    BY <1>1, <1>2, <1>4, <2>2, Constants DEF Progress
  <2> QED BY <2>1, <2>3
<1>8. \A v \in User : /\ v \in InSwap' <=> v \in InSwap
                      /\ v \in InDisk' <=> v \in InDisk
                      /\ v \in Told' <=> v \in Told
                      /\ v \in Cleared' <=> v \in Cleared
                      /\ Replacing(v)' <=> Replacing(v)
                      /\ Needing(v)' <=> Needing(v)
  BY <1>4, <1>5 DEF InSwap, InDisk, Told, Cleared, Replacing, Needing, Paging, DiskLabels
<1>9. /\ InSwap' = InSwap /\ InDisk' = InDisk /\ Told' = Told
      /\ Cleared' = Cleared /\ Alive' = Alive
  BY <1>8 DEF InSwap, InDisk, Told, Cleared, Alive
<1>10. /\ \A v \in InSwap : v \in User \ {w}
       /\ \A v \in InDisk : v \in User \ {w}
  BY <1>4 DEF InSwap, InDisk, Paging, DiskLabels
<1>11. SwapGuarded'
  BY <1>4, <1>5, <1>9, <1>10, InvTypes DEF SwapGuarded, Guarded
<1>12. DiskGuarded'
  BY <1>4, <1>5, <1>9, <1>10, InvTypes DEF DiskGuarded, Guarded
<1>13. MasterCounts'
  BY <1>1, <1>4, <1>5, <1>9, InvTypes DEF MasterCounts
<1>14. DevicesAccounted'
  <2>1. ASSUME NEW v \in User, NEW d \in Device, v # w
        PROVE  Driving(v, d)' <=> Driving(v, d)
    BY <2>1, <1>4, <1>5 DEF Driving, Paging
  <2>2. ASSUME NEW d \in Device
        PROVE  Driving(w, d)' <=> Driving(w, d)
    BY <1>4, <1>5 DEF Driving, Device, Paging, FaultLabels, DeathLabels, DiskLabels
  <2> QED BY <2>1, <2>2, <1>4, <1>5, InvTypes DEF DevicesAccounted
<1>15. SeekKept'
  BY <1>1, <1>4 DEF Inv, SeekKept
<1>16. Memory'
  BY <1>1, <1>5, <1>8, <1>9, InvTypes
     DEF Memory, PoolOwned, MissingStaysOut, ValidMeansResident, ChosenNotMapped, PoolMapped,
         DeadHoldNoFrame, OwnEntries, memory
<1> QED BY <1>6, <1>7, <1>11, <1>12, <1>13, <1>14, <1>15, <1>16 DEF Inv, Control

\* A step of test that moves none of the users.
LEMMA TestMoves ==
  ASSUME Inv, NEW m \in Label, pc' = [pc EXCEPT ![Test] = m], OnlySem(Master),
         UNCHANGED <<memory, locals, seeker>>
  PROVE  SwapGuarded' /\ DiskGuarded' /\ DevicesAccounted' /\ SeekKept' /\ Memory'
<1>1. /\ pc'[Test] = m /\ \A v \in User : pc'[v] = pc[v]
      /\ missing' = missing /\ frame' = frame /\ resume' = resume /\ job' = job
  BY InvTypes, Constants DEF TypeOK, locals
<1>2. \A v \in User : /\ v \in InSwap' <=> v \in InSwap
                      /\ v \in InDisk' <=> v \in InDisk
                      /\ v \in Cleared' <=> v \in Cleared
                      /\ Replacing(v)' <=> Replacing(v)
                      /\ Needing(v)' <=> Needing(v)
                      /\ \A d \in Device : Driving(v, d)' <=> Driving(v, d)
  BY <1>1, ZenonT(60) DEF InSwap, InDisk, Cleared, Replacing, Needing, Paging, Driving
<1>3. InSwap' = InSwap /\ InDisk' = InDisk /\ Cleared' = Cleared /\ Alive' = Alive
  BY <1>2 DEF InSwap, InDisk, Cleared, Alive
<1>4. /\ semVal'[Swap] = semVal[Swap] /\ semQ'[Swap] = semQ[Swap]
      /\ semVal'[Disk0] = semVal[Disk0] /\ semQ'[Disk0] = semQ[Disk0]
      /\ \A d \in Device, v \in User : /\ semVal'[Mutex(d, v)] = semVal[Mutex(d, v)]
                                       /\ semQ'[Mutex(d, v)] = semQ[Mutex(d, v)]
  BY Semaphores DEF OnlySem
<1>5. SwapGuarded'
  <2>1. \A v \in Range(semQ[Swap]) : v \in User
    BY HoldersFinite, InvTypes DEF SwapGuarded, Guarded
  <2> QED BY <1>1, <1>3, <1>4, <2>1, InvTypes DEF SwapGuarded
<1>6. DiskGuarded'
  <2>1. \A v \in Range(semQ[Disk0]) : v \in User
    BY HoldersFinite, InvTypes DEF DiskGuarded, Guarded
  <2> QED BY <1>1, <1>3, <1>4, <2>1, InvTypes DEF DiskGuarded
<1>7. DevicesAccounted'
  BY <1>1, <1>2, <1>4, InvTypes DEF DevicesAccounted
<1>8. SeekKept'
  BY <1>1 DEF Inv, SeekKept
<1>9. Memory'
  BY <1>1, <1>2, <1>3, InvTypes
     DEF Memory, PoolOwned, MissingStaysOut, ValidMeansResident, ChosenNotMapped, PoolMapped,
         DeadHoldNoFrame, OwnEntries, memory
<1> QED BY <1>5, <1>6, <1>7, <1>8, <1>9

\* Nobody but test waits on masterSem, so at its P the queue is empty.
LEMMA ReapInv ==
  ASSUME Inv, Reap
  PROVE  Inv'
<1> DEFINE m == IF reaped + 1 = MAXUSERPROC THEN "finish" ELSE "reap"
<1>1. /\ pc[Test] = "reap" /\ ~Blocked(Test) /\ reaped' = reaped + 1
      /\ pc' = [pc EXCEPT ![Test] = m] /\ P(Master, Test)
      /\ UNCHANGED <<memory, locals, seeker, panic>>
  BY DEF Reap, At, Goto
<1>2. reaped \in Int /\ reaped >= 0 /\ reaped < MAXUSERPROC
  BY <1>1, InvTypes, Constants DEF TypeOK, Progress
<1>3. /\ m \in Label /\ pc'[Test] = m /\ pc' \in [Process -> Label]
      /\ \A v \in User : pc'[v] = pc[v]
  BY <1>1, InvTypes, Constants DEF TypeOK, Label
<1>4. /\ semVal' \in [Sem -> Int] /\ semQ' \in [Sem -> Seq(Process)] /\ OnlySem(Master)
  BY <1>1, PTyped, Semaphores, Constants, InvTypes DEF OnlySem
<1>5. TypeOK'
  BY <1>1, <1>2, <1>3, <1>4, InvTypes, Constants DEF TypeOK, memory, locals
<1>6. /\ semVal[Master] \in Int /\ semVal[Master] >= 0 /\ semQ[Master] = <<>>
      /\ semVal[Master] = Cardinality(Told) - reaped
  <2>1. semVal[Master] \in Int
    BY Semaphores, InvTypes DEF TypeOK
  <2>2. semQ[Master] # <<Test>>
    <3>1. Test \notin Range(semQ[Master])
      BY <1>1, Semaphores DEF Blocked
    <3>2. Test \in Range(<<Test>>)
      BY DEF Range
    <3> QED BY <3>1, <3>2
  <2> QED BY <2>1, <2>2, <1>1, InvTypes DEF MasterCounts
<1>7. semVal'[Master] = semVal[Master] - 1
  BY <1>1, Semaphores, InvTypes DEF P, TypeOK
<1>8. semQ'[Master] = IF semVal[Master] - 1 < 0 THEN <<Test>> ELSE <<>>
  BY <1>1, <1>6, Semaphores, InvTypes DEF P, TypeOK, insertProcQ
<1>9. Told' = Told /\ Cardinality(Told) \in Nat
  BY <1>3, HoldersFinite, FS_CardinalityType DEF Told
<1>10. MasterCounts'
  BY <1>1, <1>2, <1>6, <1>7, <1>8, <1>9 DEF MasterCounts
<1>11. Roles' /\ Progress'
  <2>1. Roles'
    BY <1>3, InvTypes DEF Roles, TestLabel
  <2>2. Progress'
    BY <1>1, <1>2, <1>3, Constants DEF Progress
  <2> QED BY <2>1, <2>2
<1>12. SwapGuarded' /\ DiskGuarded' /\ DevicesAccounted' /\ SeekKept' /\ Memory'
  BY <1>1, <1>3, <1>4, TestMoves
<1> QED BY <1>5, <1>10, <1>11, <1>12 DEF Inv, Control

\* When test is past its last P all have told it of their end.
LEMMA AllTold ==
  ASSUME Inv, Finish
  PROVE  /\ \A u \in User : pc[u] \in {"sys2", "dead"}
         /\ \A s \in Sem : semQ[s] = <<>>
<1>1. pc[Test] = "finish" /\ ~Blocked(Test)
  BY DEF Finish, At
<1>2. semVal[Master] \in Int /\ reaped = MAXUSERPROC
  BY <1>1, Semaphores, InvTypes DEF TypeOK, Progress
<1>3. /\ semVal[Master] >= 0 /\ semQ[Master] = <<>>
      /\ semVal[Master] = Cardinality(Told) - MAXUSERPROC
  <2>1. semQ[Master] # <<Test>>
    <3>1. Test \notin Range(semQ[Master])
      BY <1>1, Semaphores DEF Blocked
    <3>2. Test \in Range(<<Test>>)
      BY DEF Range
    <3> QED BY <3>1, <3>2
  <2> QED BY <2>1, <1>1, <1>2, InvTypes DEF MasterCounts
<1>4. Told = User
  <2>1. /\ Cardinality(Told) \in Nat /\ Cardinality(Told) <= Cardinality(User)
        /\ Cardinality(User) = Cardinality(Told) => User = Told
    BY HoldersFinite, Constants, FS_Subset, FS_CardinalityType
  <2> QED BY <2>1, <1>3, Constants
<1>5. \A u \in User : pc[u] \in {"sys2", "dead"}
  BY <1>4 DEF Told
<1>6. InSwap = {} /\ InDisk = {}
  BY <1>5 DEF InSwap, InDisk, Paging, DiskLabels
<1>7. semQ[Swap] = <<>> /\ semQ[Disk0] = <<>>
  BY <1>6, Semaphores, InvTypes DEF SwapGuarded, DiskGuarded, Guarded, TypeOK
<1>8. \A d \in Device, u \in User : semQ[Mutex(d, u)] = <<>>
  BY InvTypes DEF DevicesAccounted
<1> QED BY <1>3, <1>5, <1>7, <1>8 DEF Sem

LEMMA FinishInv ==
  ASSUME Inv, Finish
  PROVE  Inv'
<1>1. /\ pc' = [p \in Process |-> "dead"]
      /\ semVal' = [s \in Sem |-> semVal[s] + Len(semQ[s])] /\ semQ' = [s \in Sem |-> <<>>]
      /\ UNCHANGED <<memory, locals, seeker, reaped, panic>>
  BY DEF Finish
<1>2. /\ \A u \in User : pc[u] \in {"sys2", "dead"}
      /\ \A s \in Sem : semQ[s] = <<>>
  BY AllTold
<1>3. semVal' \in [Sem -> Int] /\ \A s \in Sem : semVal'[s] = semVal[s] /\ semQ'[s] = <<>>
  BY <1>1, <1>2, InvTypes DEF TypeOK
<1>4. pc'[Test] = "dead" /\ \A u \in User : pc'[u] = "dead"
  BY <1>1, Constants
<1>5. TypeOK'
  BY <1>1, <1>3, InvTypes DEF TypeOK, memory, locals, Label, DeathLabels
<1>6. Roles' /\ Progress' /\ MasterCounts'
  BY <1>4 DEF Roles, Progress, MasterCounts, TestLabel
<1>7. InSwap = {} /\ InDisk = {} /\ InSwap' = {} /\ InDisk' = {}
  BY <1>2, <1>4 DEF InSwap, InDisk, Paging, DiskLabels
<1>8. SwapGuarded' /\ DiskGuarded'
  <2>1. \A s \in {Swap, Disk0} : semQ'[s] = semQ[s] /\ semVal'[s] = semVal[s]
    BY <1>2, <1>3, Semaphores
  <2>2. Range(<<>>) = {}
    BY DEF Range
  <2>3. SwapGuarded'
    BY <1>2, <1>7, <2>1, <2>2, Semaphores, InvTypes DEF SwapGuarded
  <2>4. DiskGuarded'
    BY <1>2, <1>7, <2>1, <2>2, Semaphores, InvTypes DEF DiskGuarded
  <2> QED BY <2>3, <2>4
<1>9. DevicesAccounted'
  <2>1. ASSUME NEW u \in User, NEW d \in Device
        PROVE  Driving(u, d)' <=> Driving(u, d)
    <3>1. resume' = resume /\ pc[u] \in {"sys2", "dead"} /\ pc'[u] = "dead"
      BY <1>1, <1>2, <1>4 DEF locals
    <3> QED BY <3>1 DEF Driving, Device, DeathLabels, Paging, DiskLabels
  <2> QED BY <1>3, <2>1, Semaphores, InvTypes DEF DevicesAccounted
<1>10. SeekKept'
  BY <1>4 DEF SeekKept
<1>11. Memory'
  <2>1. \A u \in User : ~Replacing(u) /\ ~Replacing(u)' /\ ~Needing(u)'
    BY <1>2, <1>4 DEF Replacing, Needing, Paging, DiskLabels
  <2>2. Cleared = User /\ Cleared' = User /\ Alive' = {}
    BY <1>2, <1>4 DEF Cleared, Alive
  <2>3. swapPool' = swapPool /\ pte' = pte
    BY <1>1 DEF memory
  <2>4. PoolOwned' /\ DeadHoldNoFrame'
    BY <2>2, <2>3, InvTypes DEF Memory, PoolOwned, DeadHoldNoFrame
  <2>5. ValidMeansResident' /\ ChosenNotMapped' /\ MissingStaysOut'
    BY <2>1, <2>2 DEF ValidMeansResident, ChosenNotMapped, MissingStaysOut
  <2>6. PoolMapped'
    BY <2>1, <2>3, InvTypes DEF Memory, PoolMapped
  <2> QED BY <2>4, <2>5, <2>6 DEF Memory
<1> QED BY <1>5, <1>6, <1>8, <1>9, <1>10, <1>11 DEF Inv, Control

-----------------------------------------------------------------------------
(***************************************************************************)
(* The theorems.                                                           *)
(***************************************************************************)
LEMMA InitInv == Init => Inv
<1> SUFFICES ASSUME Init PROVE Inv
  OBVIOUS
<1>1. /\ pc[Test] = "create" /\ \A u \in User : pc[u] = "unborn"
  BY Constants DEF Init
<1>2. /\ \A s \in Sem : semQ[s] = <<>>
      /\ \A s \in Sem \ {Master} : semVal[s] = 1
      /\ semVal[Master] = 0
  BY Semaphores DEF Init
<1>3. TypeOK
  <2>1. pc \in [Process -> Label]
    BY DEF Init, Label
  <2>2. semVal \in [Sem -> Int] /\ semQ \in [Sem -> Seq(Process)]
    BY DEF Init
  <2>3. /\ swapPool \in [Frame -> [sw_asid : User \cup {-1}, sw_pte : Entry \cup {NONE}]]
        /\ pte \in [Entry -> Frame \cup {NONE}] /\ next \in Frame
    BY Constants DEF Init, Frame
  <2>4. /\ frame \in [User -> Frame \cup {NONE}] /\ missing \in [User -> Entry \cup {NONE}]
        /\ resume \in [User -> Touching] /\ job \in [User -> {"tape", "out", "in"}]
        /\ seeker \in User \cup {NONE} /\ panic \in BOOLEAN
    BY DEF Init, Touching
  <2>5. reaped \in 0 .. MAXUSERPROC
    BY Constants DEF Init
  <2> QED BY <2>1, <2>2, <2>3, <2>4, <2>5 DEF TypeOK
<1>4. InSwap = {} /\ InDisk = {} /\ Told = {} /\ Cleared = {}
  BY <1>1 DEF InSwap, InDisk, Told, Cleared, Paging, DiskLabels
<1>5. SwapGuarded /\ DiskGuarded
  BY <1>2, <1>4, Semaphores, FS_EmptySet
     DEF SwapGuarded, DiskGuarded, Guarded, Range, NoRepeats
<1>6. Roles /\ Progress /\ MasterCounts
  <2>1. 1 \in User
    BY Constants DEF User
  <2>2. reaped = 0
    BY DEF Init
  <2>3. Roles /\ Progress
    BY <1>1, <2>1, <2>2 DEF Roles, Progress, TestLabel
  <2>4. Cardinality(Told) = 0
    BY <1>4, FS_EmptySet
  <2>5. MasterCounts
    BY <1>2, <2>2, <2>4, Semaphores DEF MasterCounts
  <2> QED BY <2>3, <2>5
<1>7. DevicesAccounted
  <2>1. ASSUME NEW u \in User, NEW d \in Device PROVE ~Driving(u, d)
    BY <1>1 DEF Driving, Device, FaultLabels, DeathLabels, Paging, DiskLabels
  <2> QED BY <1>2, <2>1, Semaphores DEF DevicesAccounted
<1>8. SeekKept
  BY <1>1 DEF SeekKept
<1>9. Memory
  <2>1. /\ \A f \in Frame : swapPool[f].sw_asid = -1
        /\ \A e \in Entry : pte[e] = NONE
    BY DEF Init
  <2>2. \A u \in User : ~Replacing(u) /\ ~Needing(u)
    BY <1>1 DEF Replacing, Needing, Paging, DiskLabels
  <2> QED BY <1>4, <2>1, <2>2
             DEF Memory, PoolOwned, MissingStaysOut, ValidMeansResident, ChosenNotMapped,
                 PoolMapped, DeadHoldNoFrame, OwnEntries, Private
<1> QED BY <1>3, <1>5, <1>6, <1>7, <1>8, <1>9 DEF Inv, Control

LEMMA StepInv == Inv /\ [Next]_vars => Inv'
<1> SUFFICES ASSUME Inv, [Next]_vars PROVE Inv'
  OBVIOUS
<1>1. CASE TestStep
  BY <1>1, CreateInv, ReapInv, FinishInv DEF TestStep
<1>2. ASSUME NEW u \in User, Choose(u)
      PROVE  Inv'
  <2>1. ASSUME NEW t \in Touched[u], Fault(u, t[1], t[2]) PROVE Inv'
    BY <2>1, FaultInv
  <2>2. ASSUME NEW d \in Device, Drive(u, d) PROVE Inv'
    BY <2>2, DriverInv
  <2>3. CASE BadFault(u) \/ DiskIO(u) \/ Terminate(u) \/ ProgramTrap(u)
    BY <2>3, PlainInv DEF Plain
  <2> QED BY <1>2, <2>1, <2>2, <2>3 DEF Choose
<1>3. ASSUME NEW u \in User, Continue(u)
      PROVE  Inv'
  <2>1. CASE TapeRead(u) \/ Write(u) \/ Read(u) \/ Store(u) \/ Sys2(u)
    BY <2>1, PlainInv DEF Plain
  <2>2. CASE TapeP(u) \/ TapeV(u) \/ Driven(u)
    BY <2>2, DriverInv
  <2>3. CASE DiskP(u) \/ Seek(u) \/ DiskV(u)
    BY <2>3, DiskPInv, SeekInv, DiskVInv
  <2>4. CASE SwapP(u) \/ Spin(u) \/ Install(u) \/ SwapV(u)
    BY <2>4, SwapPInv, SpinInv, InstallInv, SwapVInv
  <2>5. CASE DieP(u) \/ Clear(u) \/ DieV(u) \/ Tell(u)
    BY <2>5, DiePInv, ClearInv, DieVInv, TellInv
  <2> QED BY <1>3, <2>1, <2>2, <2>3, <2>4, <2>5 DEF Continue
<1>4. ASSUME NEW u \in User, Interrupt(u)
      PROVE  Inv'
  BY <1>4, TapeDoneInv, PlainInv DEF Interrupt, Plain
<1>5. CASE UNCHANGED vars
  <2>1. /\ pc' = pc /\ semVal' = semVal /\ semQ' = semQ /\ UNCHANGED <<memory, locals>>
        /\ seeker' = seeker /\ reaped' = reaped /\ panic' = panic
    BY <1>5 DEF vars
  <2>2. pc' = [pc EXCEPT ![Test] = pc[Test]] /\ pc[Test] \in Label /\ OnlySem(Master)
    BY <2>1, InvTypes, Constants DEF TypeOK, OnlySem
  <2>3. SwapGuarded' /\ DiskGuarded' /\ DevicesAccounted' /\ SeekKept' /\ Memory'
    BY <2>1, <2>2, TestMoves
  <2>4. TypeOK'
    BY <2>1, InvTypes DEF TypeOK, memory, locals
  <2>5. Roles' /\ Progress' /\ MasterCounts'
    BY <2>1, InvTypes DEF Roles, Progress, MasterCounts, Told
  <2> QED BY <2>3, <2>4, <2>5 DEF Inv, Control
<1> QED BY <1>1, <1>2, <1>3, <1>4, <1>5 DEF Next

\* The locks, the labels, the frames and the page tables stay in step: what
\* readWriteBacking, vmMemHandler and meIRL rely on, whoever runs in between.
THEOREM Invariance == Spec => []Inv
<1> QED BY InitInv, StepInv, PTL DEF Spec

\* Every variable stays in its type; in particular no P or V goes wrong on a queue.
THEOREM TypeCorrect == Spec => []TypeOK
<1>1. Inv => TypeOK
  BY InvTypes
<1> QED BY <1>1, Invariance, PTL

\* swap and the mutex of disk 0 let one process at a time past, the others wait in
\* order, and every way out of a fault, a tape or a death gives back what was taken.
THEOREM OneAtATimeCorrect == Spec => []OneAtATime
<1>1. Inv => OneAtATime
  <2> SUFFICES ASSUME Inv PROVE OneAtATime
    OBVIOUS
  <2>1. semQ[Swap] \in Seq(Process) /\ semQ[Disk0] \in Seq(Process)
    BY Semaphores, InvTypes DEF TypeOK
  <2>2. Guards(Swap, InSwap)
    BY <2>1, HoldersFinite, OneUnblocked, InvTypes DEF SwapGuarded, Guarded, Guards
  <2>3. Guards(Disk0, InDisk)
    BY <2>1, HoldersFinite, OneUnblocked, InvTypes DEF DiskGuarded, Guarded, Guards
  <2> QED BY <2>2, <2>3 DEF OneAtATime
<1> QED BY <1>1, Invariance, PTL

\* The mutex of a device of a process is 0 exactly while its driver runs - a page
\* fault in the middle of it included - or when an access of the driver ended or
\* trapped the process, after which nobody gives it back; nobody ever waits for it.
THEOREM DevicesAccountedCorrect == Spec => []DevicesAccounted
<1>1. Inv => DevicesAccounted
  BY InvTypes
<1> QED BY <1>1, Invariance, PTL

\* The frames that hold a private page, according to the swap pool, hold different
\* ones: of two that did not, one would be mapped and the other being replaced, or
\* both be replaced at once.
LEMMA InvPageInOneFrame == Inv => PageInOneFrame
<1> SUFFICES ASSUME Inv, NEW f \in Frame, NEW g \in Frame,
                    swapPool[f].sw_asid # -1, swapPool[g].sw_asid # -1,
                    swapPool[f].sw_pte = swapPool[g].sw_pte,
                    swapPool[f].sw_pte \in Private
             PROVE  f = g
  BY DEF PageInOneFrame
<1> DEFINE e == swapPool[f].sw_pte
<1>1. pte[e] = f \/ (pte[e] = NONE /\ \E v \in User : Replacing(v) /\ frame[v] = f)
  BY InvTypes DEF Memory, PoolMapped
<1>2. pte[e] = g \/ (pte[e] = NONE /\ \E v \in User : Replacing(v) /\ frame[v] = g)
  BY InvTypes DEF Memory, PoolMapped
<1>3. CASE pte[e] # NONE
  BY <1>1, <1>2, <1>3
<1>4. CASE pte[e] = NONE
  <2>1. PICK v \in User : Replacing(v) /\ frame[v] = f
    BY <1>1, <1>4, Constants
  <2>2. PICK w \in User : Replacing(w) /\ frame[w] = g
    BY <1>2, <1>4, Constants
  <2>3. v = w
    BY <2>1, <2>2, OneReplaces, InvTypes
  <2> QED BY <2>1, <2>2, <2>3
<1> QED BY <1>3, <1>4

THEOREM PageInOneFrameCorrect == Spec => []PageInOneFrame
<1> QED BY InvPageInOneFrame, Invariance, PTL

\* A valid private entry of a live process maps the frame the swap pool has for the
\* page, so vmMemHandler finds the entry it has to make not valid.
THEOREM ValidMeansResidentCorrect == Spec => []ValidMeansResident
<1>1. Inv => ValidMeansResident
  BY InvTypes DEF Memory
<1> QED BY <1>1, Invariance, PTL

\* While a block moves to or from a frame, no private entry of a process that has
\* not ended names the frame.  (A shared one may: meIRL leaves those of the frames
\* it gives back valid, vmIOsupport.c:232.)
THEOREM NoAccessDuringTransferCorrect == Spec => []NoAccessDuringTransfer
<1>1. Inv => NoAccessDuringTransfer
  <2> SUFFICES ASSUME Inv, NEW u \in User, Paging(u), NEW v \in Alive, NEW e \in OwnEntries(v)
               PROVE  pte[e] # frame[u]
    BY DEF NoAccessDuringTransfer
  <2>1. Replacing(u) /\ e \in Private /\ e[2] \in Alive
    BY DEF Replacing, OwnEntries
  <2> QED BY <2>1, InvTypes DEF Memory, ChosenNotMapped
<1> QED BY <1>1, Invariance, PTL

\* Between a process's seek and its transfer nobody else's seek moves disk 0's arm.
THEOREM TransferWhereSoughtCorrect == Spec => []TransferWhereSought
<1>1. Inv => TransferWhereSought
  BY DEF Inv, SeekKept, TransferWhereSought
<1> QED BY <1>1, Invariance, PTL

\* A process that went through meIRL owns no frame, and none comes to be its again.
THEOREM DeadHoldNoFrameCorrect == Spec => []DeadHoldNoFrame
<1>1. Inv => DeadHoldNoFrame
  BY InvTypes DEF Memory
<1> QED BY <1>1, Invariance, PTL

\* test's SYS2 kills no process that still has something to do: masterSem let test
\* through MAXUSERPROC times, once for each process that told it of its end.
THEOREM FamilyEndsLastCorrect == Spec => FamilyEndsLast
<1>1. Inv /\ [Next]_vars => [Finish => \A u \in User : pc[u] \in {"sys2", "dead"}]_vars
  BY AllTold
<1> QED BY <1>1, Invariance, PTL DEF Spec, FamilyEndsLast
=============================================================================
