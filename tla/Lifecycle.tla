----------------------------- MODULE Lifecycle -----------------------------
(***************************************************************************)
(* What the nucleus promises about its processes, without its queues,      *)
(* counts and interrupts: each process is free, ready, running or blocked  *)
(* on one semaphore; at most one runs, and one runs whenever one could.    *)
(***************************************************************************)
CONSTANTS Proc,                  \* the processes there can be
          Sem,                   \* what they block on
          Free, Ready, Running   \* the states of the others, different from each
                                \* other and from the members of Sem

VARIABLE state

Init == \E p \in Proc : state = [q \in Proc |-> IF q = p THEN Running ELSE Free]

In(s) == {p \in Proc : state[p] = s}

\* The processor is given to a ready process as soon as nobody holds it.
Dispatch(next) ==
  \/ /\ state' = next
     /\ \/ \E p \in Proc : next[p] = Running
        \/ \A p \in Proc : next[p] # Ready
  \/ /\ \A p \in Proc : next[p] # Running
     /\ \E p \in Proc : next[p] = Ready /\ state' = [next EXCEPT ![p] = Running]

Moved(S, s) == [p \in Proc |-> IF p \in S THEN s ELSE state[p]]

\* The running process creates one, blocks, or wakes one blocked process.
Create == In(Running) # {} /\ \E p \in In(Free) : state' = Moved({p}, Ready)

Block(s) == In(Running) # {} /\ Dispatch(Moved(In(Running), s))

Signal(s) ==
  In(Running) # {} /\ \E p \in In(s) : state' = Moved({p}, Ready)

\* The running process terminates, and its progeny, whatever state they are in.
Terminate ==
  /\ In(Running) # {}
  /\ \E S \in SUBSET (Proc \ In(Free)) :
       In(Running) \subseteq S /\ Dispatch(Moved(S, Free))

\* An interrupt makes the running process give way, and may make processes
\* blocked on one semaphore ready.
Preempt == Dispatch(Moved(In(Running), Ready))

Interrupt(s) ==
  \E W \in SUBSET In(s) : W # {} /\ Dispatch(Moved(W \cup In(Running), Ready))

Next ==
  \/ Create \/ Preempt \/ Terminate
  \/ \E s \in Sem : Block(s) \/ Signal(s) \/ Interrupt(s)

Spec == Init /\ [][Next]_state
=============================================================================
