--------------------------- MODULE ServicesProofs ---------------------------
(***************************************************************************)
(* The delay list stays empty, for any number of user processes, nodes and *)
(* ticks.  Nothing here needs a call of adl.c to be one step: without a    *)
(* free node insertDelay ends at its first test.                           *)
(***************************************************************************)
EXTENDS Services, FiniteSetTheorems, TLAPS

Nodes == MAXPROC \in Nat

\* freeDelayd never adds a node to an empty list, and initADL starts with one.
LEMMA NoNodeAtFirst ==
  ASSUME Nodes, initADL
  PROVE  active = <<>> /\ delaydFree = 0
<1> DEFINE body(g) == [i \in 0 .. MAXPROC + 1 |-> IF i = 0 THEN 0 ELSE freeDelayd(g[i - 1])]
           freed == CHOOSE g : g = body(g)
<1>1. PICK n \in Nat : n = MAXPROC + 1
  BY DEF Nodes
<1>2. PICK z : z = [i \in 0 .. n |-> 0]
  OBVIOUS
<1>3. z = body(z)
  BY <1>1, <1>2 DEF freeDelayd
<1>4. freed = body(freed)
  BY <1>3
<1>5. active = <<>> /\ delaydFree = freed[n]
  BY <1>1 DEF initADL
<1> HIDE DEF freed
<1>6. /\ freed[0] = 0
      /\ \A i \in 1 .. n : freed[i] = IF freed[i - 1] = 0 THEN 0 ELSE freed[i - 1] + 1
  BY <1>1, <1>4 DEF freeDelayd
<1>7. \A i \in 0 .. n : freed[i] = 0
  <2> DEFINE Zero == {k \in 0 .. n : \A i \in 0 .. k : freed[i] = 0}
  <2>1. SUFFICES ASSUME n \notin Zero PROVE FALSE
    OBVIOUS
  <2>2. ASSUME NEW k \in Zero PROVE k + 1 \in Zero
    <3>1. k # n /\ k + 1 \in 1 .. n
      BY <2>1
    <3>2. freed[k] = 0 /\ (k + 1) - 1 = k
      BY <3>1
    <3>3. freed[k + 1] = 0
      BY <1>6, <3>1, <3>2
    <3> QED BY <3>1, <3>3
  <2>3. 0 \in Zero /\ Zero \in SUBSET (0 .. n)
    BY <1>6
  <2> HIDE DEF Zero
  <2>4. PICK f : f = [k \in Zero |-> k + 1]
    OBVIOUS
  <2>5. f \in Injection(Zero, Zero)
    <3>1. f \in [Zero -> Zero]
      BY <2>2, <2>4
    <3>2. \A i, j \in Zero : f[i] = f[j] => i = j
      BY <2>3, <2>4
    <3> QED BY <3>1, <3>2 DEF Injection, IsInjective
  <2>6. IsFiniteSet(Zero)
    <3>1. IsFiniteSet(0 .. n)
      BY FS_Interval
    <3> QED BY <2>3, <3>1, FS_Subset
  <2>7. f \in Surjection(Zero, Zero)
    BY <2>5, <2>6, FS_Injection
  <2>8. PICK k \in Zero : f[k] = 0
    BY <2>3, <2>7 DEF Surjection
  <2> QED BY <2>3, <2>4, <2>8
<1> QED BY <1>5, <1>7

\* No node on either list of adl.c: initADL and freeDelayd lose those there are.
NoNode == active = <<>> /\ delaydFree = 0

\* A SYS13, with a delay of any length: insertDelay finds no free node.
LEMMA DelayEntersNobody ==
  ASSUME NoNode, NEW u, NEW time, Delay(u, time)
  PROVE  NoNode'
BY DEF NoNode, Delay, insertDelay, adlVars

\* The daemon finds nobody whose time has come.
LEMMA DaemonFindsNobody == NoNode /\ delayDaemon => NoNode'
BY DEF NoNode, delayDaemon, headDelayTime, FAILURE, adlVars

LEMMA NoNodeStep == NoNode /\ [Next]_vars => NoNode'
<1> SUFFICES ASSUME NoNode, [Next]_vars PROVE NoNode'
  OBVIOUS
<1>1. CASE Tick
  BY <1>1 DEF Tick, NoNode, adlVars
<1>2. CASE delayDaemon
  BY <1>2, DaemonFindsNobody
<1>3. ASSUME NEW u \in User, Continue(u) PROVE NoNode'
  BY <1>3 DEF Continue, List, Sleep, Unlist, WakeOther, NoNode, adlVars
<1>4. ASSUME NEW u \in User, NEW s \in VSem, Down(u, s) \/ Up(u, s) PROVE NoNode'
  BY <1>4 DEF Down, Up, NoNode, adlVars
<1>5. ASSUME NEW u \in User, NEW time \in -1 .. MaxTime, Delay(u, time) PROVE NoNode'
  BY <1>5, DelayEntersNobody
<1>6. CASE UNCHANGED vars
  BY <1>6 DEF vars, NoNode, adlVars
<1> QED BY <1>1, <1>2, <1>3, <1>4, <1>5, <1>6 DEF Next

\* Why DelayEnds fails: over any calls of SYS13 and any ticks no process ever gets
\* into the daemon's list (adl.c:58), so no delay is ever ended by the daemon.
THEOREM DelayListStaysEmpty ==
  ASSUME Nodes
  PROVE  Spec => [](active = <<>>)
<1>1. Init => NoNode
  BY NoNodeAtFirst DEF Init, NoNode
<1>2. NoNode => active = <<>>
  BY DEF NoNode
<1> QED BY <1>1, <1>2, NoNodeStep, PTL DEF Spec
=============================================================================
