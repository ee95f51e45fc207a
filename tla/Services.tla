------------------------------ MODULE Services ------------------------------
(***************************************************************************)
(* The system services of phase 3: SYS11 and SYS12, V and P on semaphores  *)
(* in the users' memory, and SYS13 with the delay daemon.  A process waits *)
(* on the private semaphore of its uProcs entry; the two lists say who     *)
(* waits for what.  The handlers run with interrupts on: they interleave   *)
(* between the update of the semaphore, that of the list, and the P or V.  *)
(* Each of the three is one step here though the code does not make it one *)
(* (two calls of avsl.c may overlap): the runs below look for what goes    *)
(* wrong even so, and no theorem relies on it.                             *)
(***************************************************************************)
EXTENDS DelayList, VirtualList

CONSTANTS MAXUSERPROC,
          VSem,         \* addresses in the users' memory
          Calls,        \* the services the programs call: "P", "V", "Delay"
          MaxVal,       \* bound: no V takes a semaphore above this
          MaxTime       \* bound: the last tick there is

User == 1 .. MAXUSERPROC

VARIABLES pc,           \* process |-> "user", a step of its call, "asleep" or "dead"
          arg,          \* process |-> the semaphore of its call
          value,        \* the semaphores in the users' memory
          uProc_semAdd, \* the private semaphores; entry 0 is what lies before
                        \* the first element of uProcs
          clock,        \* the time, in ticks of the interval timer
          daemon        \* "waits" for a tick, or "works"

serviceVars == <<pc, arg, value, uProc_semAdd, clock, daemon>>
vars == <<adlVars, avslVars, serviceVars>>

\* The address of the private semaphore of u, different from those in VSem.
PrivateAdd(u) == -u

\* test has called initADL and initAVSL.  It does so after it has created the user
\* processes; a call of theirs before that finds both lists empty, without a node.
Init == /\ initADL /\ initAVSL(MAXPROC + 1)
        /\ pc = [u \in User |-> "user"]
        /\ arg = [u \in User |-> 0]
        /\ value = [s \in VSem |-> 0]
        /\ uProc_semAdd = [u \in {0} \cup User |-> 0]
        /\ clock = 0
        /\ daemon = "waits"

Goto(u, l) == pc' = [pc EXCEPT ![u] = l]

-----------------------------------------------------------------------------
\* PSEMVIRT
Down(u, s) == /\ "P" \in Calls
              /\ pc[u] = "user"
              /\ value' = [value EXCEPT ![s] = @ - 1]
              /\ arg' = [arg EXCEPT ![u] = s]
              /\ Goto(u, IF value[s] - 1 < 0 THEN "list" ELSE "user")
              /\ UNCHANGED <<adlVars, avslVars, uProc_semAdd, clock, daemon>>

List(u) == /\ pc[u] = "list"
           /\ vInsertBlocked(arg[u], u)
           /\ Goto(u, "sleep")
           /\ UNCHANGED <<adlVars, arg, value, uProc_semAdd, clock, daemon>>

\* SYS4 on the own private semaphore, the end of PSEMVIRT and of DELAY.
Sleep(u) == /\ pc[u] \in {"sleep", "delayed"}
            /\ uProc_semAdd' = [uProc_semAdd EXCEPT ![u] = @ - 1]
            /\ Goto(u, IF uProc_semAdd[u] - 1 < 0 THEN "asleep" ELSE "user")
            /\ UNCHANGED <<adlVars, avslVars, arg, value, clock, daemon>>

\* SYS3 on a private semaphore: nobody but its process blocks on it.
Wake(u) == /\ uProc_semAdd' = [uProc_semAdd EXCEPT ![u] = @ + 1]
           /\ pc' = [w \in User |-> IF w = u /\ uProc_semAdd[u] + 1 <= 0 THEN "user"
                                    ELSE pc[w]]

\* VSEMVIRT
Up(u, s) == /\ "V" \in Calls
            /\ pc[u] = "user" /\ value[s] < MaxVal
            /\ value' = [value EXCEPT ![s] = @ + 1]
            /\ arg' = [arg EXCEPT ![u] = s]
            /\ Goto(u, IF value[s] + 1 <= 0 THEN "unlist" ELSE "user")
            /\ UNCHANGED <<adlVars, avslVars, uProc_semAdd, clock, daemon>>

\* The result is kept in arg until the V.  It is compared with FAILURE, -1.
Unlist(u) == /\ pc[u] = "unlist"
             /\ arg' = [arg EXCEPT ![u] = vRemoved(arg[u])]
             /\ vRemoveBlocked(arg[u])
             /\ Goto(u, "wake")
             /\ UNCHANGED <<adlVars, value, uProc_semAdd, clock, daemon>>

\* With 0 for a process it is the word before uProcs that is incremented.
WakeOther(u) ==
  LET v == arg[u]
  IN  /\ pc[u] = "wake" /\ uProc_semAdd[v] < MaxVal
      /\ uProc_semAdd' = [uProc_semAdd EXCEPT ![v] = @ + 1]
      /\ pc' = [w \in User |-> IF w = u \/ (w = v /\ uProc_semAdd[v] + 1 <= 0)
                               THEN "user" ELSE pc[w]]
      /\ UNCHANGED <<adlVars, avslVars, arg, value, clock, daemon>>

-----------------------------------------------------------------------------
\* DELAY: the process is entered in both lists, the results are not looked at.  A
\* negative time, which a large one becomes, is its end.
Delay(u, time) == /\ "Delay" \in Calls
                  /\ pc[u] = "user" /\ clock + time <= MaxTime
                  /\ \/ /\ time < 0
                        /\ Goto(u, "dead")
                        /\ UNCHANGED <<adlVars, avslVars>>
                     \/ /\ time >= 0
                        /\ vInsertBlocked(PrivateAdd(u), u)
                        /\ insertDelay(clock + time, u)
                        /\ Goto(u, "delayed")
                  /\ UNCHANGED <<arg, value, uProc_semAdd, clock, daemon>>

\* A tick of the interval timer ends the daemon's SYS7.  At the bound the time
\* stands still, with no delay left that would end later.
Tick == /\ clock' = Min({clock + 1, MaxTime})
        /\ daemon' = "works"
        /\ UNCHANGED <<adlVars, avslVars, pc, arg, value, uProc_semAdd>>

delayDaemon ==
  /\ daemon = "works"
  /\ IF headDelayTime <= clock /\ headDelayTime # FAILURE
     THEN /\ removeDelay
          /\ Wake(active[1].asid)
          /\ UNCHANGED daemon
     ELSE /\ daemon' = "waits"
          /\ UNCHANGED <<adlVars, pc, uProc_semAdd>>
  /\ UNCHANGED <<avslVars, arg, value, clock>>

Continue(u) == List(u) \/ Sleep(u) \/ Unlist(u) \/ WakeOther(u)

Next == \/ Tick \/ delayDaemon
        \/ \E u \in User : \/ Continue(u)
                           \/ \E s \in VSem : Down(u, s) \/ Up(u, s)
                           \/ \E time \in -1 .. MaxTime : Delay(u, time)

Fairness == /\ WF_vars(Tick) /\ WF_vars(delayDaemon)
            /\ \A u \in User : WF_vars(Continue(u))

Spec == Init /\ [][Next]_vars /\ Fairness

-----------------------------------------------------------------------------
\* A delayed process comes back: todTest.c and pvTestB.c call SYS13 and go on,
\* "todTest ok: one second delay".
DelayEnds == \A u \in User : pc[u] = "delayed" ~> pc[u] = "user"

\* With no call under way, as many processes sleep on a virtual semaphore as its
\* value says: pvTestA.c and pvTestB.c rely on no V being lost.
SleepersCounted ==
  (\A u \in User : pc[u] \in {"user", "asleep"}) =>
    \A s \in VSem : Cardinality({u \in User : pc[u] = "asleep" /\ arg[u] = s})
                    = IF value[s] < 0 THEN -value[s] ELSE 0
=============================================================================
