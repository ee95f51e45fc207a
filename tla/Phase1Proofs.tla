---------------------------- MODULE Phase1Proofs ----------------------------
(***************************************************************************)
(* The shapes of phase 1's pointers for any number of blocks and any set   *)
(* of semaphores: the free stacks, the rings of the queues, the sorted     *)
(* list of the semaphores and the sibling lists.                           *)
(***************************************************************************)
EXTENDS Phase1, FiniteSetTheorems, TLAPS

-----------------------------------------------------------------------------
(***************************************************************************)
(* Rings and chains: what one insertion or removal leaves behind.          *)
(***************************************************************************)

LEMMA NullIsNoBlock == NULL \notin Proc /\ ZERO \notin Proc
<1>1. \A p \in Proc : p \in Int /\ p # 0
  BY PcbAssumption DEF Proc
<1> QED BY <1>1, PcbAssumption DEF ZERO

\* Links outside M do not matter to a ring over M.
LEMMA RingSame ==
  ASSUME NEW M, NEW tp, NEW next, NEW prev, NEW next2, NEW prev2,
         Ring(tp, next, prev, M),
         \A p \in M : next2[p] = next[p] /\ prev2[p] = prev[p]
  PROVE  Ring(tp, next2, prev2, M)
BY DEF Ring

\* insertProcQ makes the block the tail of a ring with one more block.
LEMMA RingInsert ==
  ASSUME NEW M \in SUBSET Proc, NEW p \in Proc \ M, NEW tp,
         pcb_next \in [Proc -> Ptr], pcb_prev \in [Proc -> Ptr],
         Ring(tp, pcb_next, pcb_prev, M)
  PROVE  LET in == insertProcQ(tp, p)
         IN  /\ Ring(in.tail, in.next, in.prev, M \cup {p})
             /\ \A q \in Proc \ (M \cup {p}) :
                   in.next[q] = pcb_next[q] /\ in.prev[q] = pcb_prev[q]
             /\ in.tail = p /\ in.next \in [Proc -> Ptr] /\ in.prev \in [Proc -> Ptr]
<1> DEFINE next == insertProcQ(tp, p).next
           prev == insertProcQ(tp, p).prev
<1>1. CASE tp = NULL
  <2>1. M = {}
    BY <1>1, NullIsNoBlock DEF Ring
  <2>2. next = [pcb_next EXCEPT ![p] = p] /\ prev = [pcb_prev EXCEPT ![p] = p]
    BY <1>1 DEF insertProcQ
  <2> HIDE DEF next, prev
  <2>3. next[p] = p /\ prev[p] = p
    BY <2>2
  <2>4. next \in [Proc -> Ptr] /\ prev \in [Proc -> Ptr]
    BY <2>2 DEF Ptr
  <2>5. Ring(p, next, prev, {p})
    BY <2>3 DEF Ring
  <2> QED BY <2>1, <2>2, <2>4, <2>5 DEF insertProcQ, next, prev
<1>2. CASE tp # NULL
  <2>1. tp \in M /\ tp # p
    BY <1>2 DEF Ring
  <2>2. PICK h \in M : h = pcb_next[tp]
    BY <2>1 DEF Ring
  <2>3. next = [pcb_next EXCEPT ![p] = h, ![tp] = p]
        /\ prev = [pcb_prev EXCEPT ![p] = tp, ![h] = p]
    BY <1>2, <2>2 DEF insertProcQ
  <2> HIDE DEF next, prev
  <2>4. /\ next[p] = h /\ next[tp] = p /\ prev[p] = tp /\ prev[h] = p
        /\ \A q \in Proc : q # p /\ q # tp => next[q] = pcb_next[q]
        /\ \A q \in Proc : q # p /\ q # h => prev[q] = pcb_prev[q]
        /\ next \in [Proc -> Ptr] /\ prev \in [Proc -> Ptr]
    BY <2>1, <2>2, <2>3 DEF Ptr
  <2>5. \A q \in M \cup {p} : /\ next[q] \in M \cup {p} /\ prev[next[q]] = q
                              /\ prev[q] \in M \cup {p} /\ next[prev[q]] = q
    BY <2>1, <2>2, <2>4 DEF Ring
  <2>6. ASSUME NEW S \in SUBSET (M \cup {p}), S # {}, \A q \in S : next[q] \in S
        PROVE  S = M \cup {p}
    <3>1. \A q \in S \ {p} : pcb_next[q] \in S \ {p}
      BY <2>1, <2>2, <2>4, <2>6 DEF Ring
    <3>2. S \ {p} # {}
      BY <2>2, <2>4, <2>6
    <3>3. S \ {p} = M
      BY <3>1, <3>2 DEF Ring
    <3> QED BY <3>3, <2>1, <2>4, <2>6
  <2>7. Ring(p, next, prev, M \cup {p})
    BY <2>5, <2>6 DEF Ring
  <2> QED BY <2>1, <2>2, <2>4, <2>7 DEF insertProcQ, next, prev
<1> QED BY <1>1, <1>2

\* The search of outProcQ finds exactly the blocks of the ring.
LEMMA RingFound ==
  ASSUME NEW M \in SUBSET Proc, NEW tp, NEW p, Ring(tp, pcb_next, pcb_prev, M)
  PROVE  OnQueue(tp, p) <=> p \in M
<1>1. CASE tp = NULL
  BY <1>1, NullIsNoBlock DEF Ring, OnQueue
<1>2. CASE tp # NULL
  <2>1. tp \in M
    BY <1>2 DEF Ring
  <2>2. p \in Searched(tp) => p \in M
    BY <2>1 DEF Searched, Ring
  <2>3. ASSUME p \in M, NEW S \in SUBSET Proc, pcb_next[tp] \in S,
               \A x \in S \ {tp} : pcb_next[x] \in S
        PROVE  p \in S
    <3>1. S \cap M # {} /\ \A x \in S \cap M : pcb_next[x] \in S \cap M
      BY <2>1, <2>3 DEF Ring
    <3>2. S \cap M = M
      BY <3>1 DEF Ring
    <3> QED BY <3>2, <2>3
  <2> QED BY <1>2, <2>1, <2>2, <2>3 DEF OnQueue, Searched
<1> QED BY <1>1, <1>2

\* outProcQ leaves a ring with one block less, and nothing else moves.
LEMMA RingOut ==
  ASSUME NEW M \in SUBSET Proc, NEW tp, NEW p \in M,
         pcb_next \in [Proc -> Ptr], pcb_prev \in [Proc -> Ptr],
         Ring(tp, pcb_next, pcb_prev, M)
  PROVE  LET out == outProcQ(tp, p)
         IN  /\ Ring(out.tail, out.next, out.prev, M \ {p})
             /\ \A q \in Proc \ M :
                   out.next[q] = pcb_next[q] /\ out.prev[q] = pcb_prev[q]
             /\ out.found = p
             /\ out.tail \in M \cup {NULL} /\ (out.tail = NULL <=> M = {p})
             /\ out.next \in [Proc -> Ptr] /\ out.prev \in [Proc -> Ptr]
<1> DEFINE out == outProcQ(tp, p)
<1>1. OnQueue(tp, p) /\ tp \in M
  BY RingFound DEF Ring
<1>2. CASE pcb_next[p] = p
  <2>1. M = {p}
    <3>1. {p} \in SUBSET M /\ {p} # {} /\ \A q \in {p} : pcb_next[q] \in {p}
      BY <1>2
    <3> QED BY <3>1 DEF Ring
  <2>2. out = [tail |-> NULL, next |-> pcb_next, prev |-> pcb_prev, found |-> p]
    BY <1>1, <1>2, <2>1 DEF outProcQ
  <2> HIDE DEF out
  <2>3. Ring(NULL, pcb_next, pcb_prev, {})
    BY DEF Ring
  <2>4. M \ {p} = {}
    BY <2>1
  <2>5. /\ Ring(out.tail, out.next, out.prev, M \ {p}) /\ out.found = p
        /\ out.tail = NULL /\ out.next = pcb_next /\ out.prev = pcb_prev
    BY <2>2, <2>3, <2>4
  <2> QED BY <2>1, <2>5 DEF out
<1>3. CASE pcb_next[p] # p
  <2>1. PICK n \in M : n = pcb_next[p]
    BY DEF Ring
  <2>2. PICK b \in M : b = pcb_prev[p]
    BY DEF Ring
  <2>3. pcb_next[b] = p /\ pcb_prev[n] = p /\ n # p /\ b # p
    BY <1>3, <2>1, <2>2 DEF Ring
  <2>4. out = [tail |-> IF p = tp THEN b ELSE tp,
               next |-> [pcb_next EXCEPT ![b] = n],
               prev |-> [pcb_prev EXCEPT ![n] = b],
               found |-> p]
    BY <1>1, <1>3, <2>1, <2>2 DEF outProcQ
  <2> HIDE DEF out
  <2>5. PICK next, prev : next = out.next /\ prev = out.prev
    OBVIOUS
  <2>6. /\ next[b] = n /\ prev[n] = b
        /\ \A q \in Proc : q # b => next[q] = pcb_next[q]
        /\ \A q \in Proc : q # n => prev[q] = pcb_prev[q]
        /\ next \in [Proc -> Ptr] /\ prev \in [Proc -> Ptr]
    BY <2>1, <2>2, <2>4, <2>5 DEF Ptr
  <2>7. \A q \in M \ {p} : /\ next[q] \in M \ {p} /\ prev[next[q]] = q
                           /\ prev[q] \in M \ {p} /\ next[prev[q]] = q
    BY <2>1, <2>2, <2>3, <2>6 DEF Ring
  <2>8. ASSUME NEW S \in SUBSET (M \ {p}), S # {}, \A q \in S : next[q] \in S
        PROVE  S = M \ {p}
    <3>1. PICK T : T = IF b \in S THEN S \cup {p} ELSE S
      OBVIOUS
    <3>2. \A q \in T : pcb_next[q] \in T
      BY <3>1, <2>1, <2>2, <2>3, <2>6, <2>8 DEF Ring
    <3>3. T \in SUBSET M /\ T # {}
      BY <3>1, <2>8
    <3>4. T = M
      BY <3>2, <3>3 DEF Ring
    <3> QED BY <3>1, <3>4
  <2>9. out.tail \in M \ {p} /\ n \in M \ {p}
    BY <1>1, <2>1, <2>2, <2>3, <2>4
  <2>10. Ring(out.tail, next, prev, M \ {p})
    BY <2>7, <2>8, <2>9 DEF Ring
  <2>11. out.tail # NULL /\ out.found = p
    BY <2>4, <2>9, NullIsNoBlock
  <2> QED BY <2>1, <2>2, <2>5, <2>6, <2>9, <2>10, <2>11 DEF out
<1> QED BY <1>2, <1>3

\* A block that is not on the ring: nothing is done.
LEMMA RingNotFound ==
  ASSUME NEW M \in SUBSET Proc, NEW tp, NEW p, p \notin M,
         Ring(tp, pcb_next, pcb_prev, M)
  PROVE  LET out == outProcQ(tp, p)
         IN  out.tail = tp /\ out.next = pcb_next /\ out.prev = pcb_prev
             /\ out.found = NULL
BY RingFound DEF outProcQ

\* The head is on the ring unless the ring is empty.
LEMMA RingHead ==
  ASSUME NEW M \in SUBSET Proc, NEW tp, Ring(tp, pcb_next, pcb_prev, M)
  PROVE  IF M = {} THEN headProcQ(tp) = NULL ELSE headProcQ(tp) \in M
BY NullIsNoBlock DEF Ring, headProcQ

\* A chain depends on the links of its members only.
LEMMA ChainSame ==
  ASSUME NEW M, NEW top, NEW next, NEW next2, NULL \notin M,
         Chain(top, next, M), \A x \in M : next2[x] = next[x]
  PROVE  Chain(top, next2, M)
BY DEF Chain

\* A chain over something has a top, over nothing it has none.
LEMMA ChainTop ==
  ASSUME NEW M, NEW top, NEW next, NULL \notin M, Chain(top, next, M)
  PROVE  IF M = {} THEN top = NULL ELSE top \in M
<1>1. CASE top = NULL
  <2>1. PICK T \in SUBSET M : T = {}
    OBVIOUS
  <2>2. T = M
    BY <1>1, <2>1 DEF Chain
  <2> QED BY <1>1, <2>1, <2>2
<1>2. CASE top # NULL
  BY <1>2 DEF Chain
<1> QED BY <1>1, <1>2

\* Push: a new top that leads to the old one.
LEMMA ChainPush ==
  ASSUME NEW M, NEW top, NEW next, NEW next2, NEW p, NULL \notin M,
         p # NULL, p \notin M, Chain(top, next, M), next2[p] = top,
         \A x \in M : next2[x] = next[x]
  PROVE  Chain(p, next2, M \cup {p})
<1>1. \A x \in M \cup {p} : next2[x] \in M \cup {p} \cup {NULL} /\ next2[x] # p
  BY DEF Chain
<1>2. ASSUME NEW x \in M \cup {p}, NEW y \in M \cup {p},
             next2[x] = next2[y], next2[x] # NULL
      PROVE  x = y
  BY <1>2 DEF Chain
<1>3. ASSUME NEW S \in SUBSET (M \cup {p}), p \in S,
             \A x \in S : next2[x] # NULL => next2[x] \in S
      PROVE  S = M \cup {p}
  <2>1. top # NULL => top \in S \ {p}
    BY <1>3 DEF Chain
  <2>2. \A x \in S \ {p} : next[x] # NULL => next[x] \in S \ {p}
    BY <1>3 DEF Chain
  <2>3. S \ {p} = M
    BY <2>1, <2>2 DEF Chain
  <2> QED BY <2>3, <1>3
<1> QED BY <1>1, <1>2, <1>3 DEF Chain

\* Pop: what is behind the top becomes the top.
LEMMA ChainPop ==
  ASSUME NEW M, NEW top, NEW next, NEW next2, NULL \notin M,
         Chain(top, next, M), top # NULL,
         \A x \in M \ {top} : next2[x] = next[x]
  PROVE  Chain(next[top], next2, M \ {top})
<1>1. top \in M
  BY DEF Chain
<1>2. \A x \in M : next[x] \in (M \ {top}) \cup {NULL}
  BY DEF Chain
<1>3. \A x \in M \ {top} : next2[x] = next[top] => next[top] = NULL
  BY <1>1 DEF Chain
<1>4. ASSUME NEW S \in SUBSET (M \ {top}), next[top] # NULL => next[top] \in S,
             \A x \in S : next2[x] # NULL => next2[x] \in S
      PROVE  S = M \ {top}
  <2>1. \A x \in S \cup {top} : next[x] # NULL => next[x] \in S \cup {top}
    BY <1>4
  <2>2. PICK T \in SUBSET M : T = S \cup {top}
    BY <1>1
  <2>3. T = M
    BY <2>1, <2>2, <1>1 DEF Chain
  <2> QED BY <2>2, <2>3, <1>4
<1>5. \A x, y \in M \ {top} : next2[x] = next2[y] /\ next2[x] # NULL => x = y
  BY DEF Chain
<1> QED BY <1>1, <1>2, <1>3, <1>4, <1>5 DEF Chain

\* No member is behind itself.
LEMMA ChainNoLoop ==
  ASSUME NEW M, NEW top, NEW next, NEW x \in M, NULL \notin M, Chain(top, next, M)
  PROVE  next[x] # x
<1>1. SUFFICES ASSUME next[x] = x PROVE FALSE
  OBVIOUS
<1>2. PICK T \in SUBSET M : T = M \ {x}
  OBVIOUS
<1>3. \A y \in T : next[y] # NULL => next[y] \in T
  BY <1>1, <1>2 DEF Chain
<1>4. top \in T
  BY <1>1, <1>2, ChainTop DEF Chain
<1>5. T = M
  BY <1>2, <1>3, <1>4 DEF Chain
<1> QED BY <1>2, <1>5

\* A member behind another is taken out.
LEMMA ChainRemove ==
  ASSUME NEW M, NEW top, NEW next, NEW next2, NEW b \in M, NULL \notin M,
         Chain(top, next, M), next[b] # NULL, next2[b] = next[next[b]],
         \A x \in M \ {b, next[b]} : next2[x] = next[x]
  PROVE  Chain(top, next2, M \ {next[b]})
<1>1. PICK p \in M : p = next[b]
  BY DEF Chain
<1>2. p # top /\ top \in M
  BY <1>1, ChainTop DEF Chain
<1>3. p # b
  BY <1>1, ChainNoLoop
<1>4. next[p] # p /\ \A x \in M \ {b} : next[x] # p
  BY <1>1, <1>3 DEF Chain
<1>5. \A x \in M \ {p} : next2[x] = IF x = b THEN next[p] ELSE next[x]
  BY <1>1
<1>6. \A x \in M \ {p} : next2[x] \in (M \ {p}) \cup {NULL} /\ (next2[x] # top)
  BY <1>1, <1>2, <1>4, <1>5 DEF Chain
<1>7. \A x, y \in M \ {p} : next2[x] = next2[y] /\ next2[x] # NULL => x = y
  BY <1>1, <1>4, <1>5 DEF Chain
<1>8. ASSUME NEW S \in SUBSET (M \ {p}), top \in S,
             \A x \in S : next2[x] # NULL => next2[x] \in S
      PROVE  S = M \ {p}
  <2>1. PICK T : T = IF b \in S THEN S \cup {p} ELSE S
    OBVIOUS
  <2>2. \A x \in T : next[x] # NULL => next[x] \in T
    BY <2>1, <1>1, <1>3, <1>4, <1>5, <1>8
  <2>3. T \in SUBSET M /\ top \in T
    BY <2>1, <1>1, <1>8
  <2>4. T = M
    BY <2>2, <2>3 DEF Chain
  <2> QED BY <2>1, <2>4
<1> QED BY <1>1, <1>2, <1>6, <1>7, <1>8, Zenon DEF Chain

-----------------------------------------------------------------------------
(***************************************************************************)
(* The sorted list of the semaphores.                                      *)
(***************************************************************************)

\* The addresses in the dummies, and those of the descriptors in use.
Dummies == s_semAdd[semdZero] = 0 /\ s_semAdd[semdMax] = MAXINT

Addresses == /\ \A d \in Waiting : s_semAdd[d] \in Sem
             /\ \A d, e \in Waiting : s_semAdd[d] = s_semAdd[e] => d = e

AslInv == Dummies /\ Addresses /\ AslSorted

LEMMA SemIsAddress == \A s \in Sem : s \in Int /\ 0 < s /\ s < MAXINT /\ s # NULL
BY AslAssumption, PcbAssumption

LEMMA DummiesApart ==
  /\ semdZero \in Semd /\ semdMax \in Semd /\ semdZero # semdMax
  /\ semdZero \notin Waiting /\ semdMax \notin Waiting
  /\ Waiting \subseteq Semd /\ NULL \notin Semd
  /\ IsFiniteSet(Semd)
<1>1. IsFiniteSet(1 .. (MAXPROC + 2))
  BY PcbAssumption, FS_Interval
<1> QED BY <1>1, PcbAssumption DEF semdZero, semdMax, Semd, Waiting

LEMMA ListAddress ==
  ASSUME Dummies, Addresses
  PROVE  /\ \A d \in Waiting \cup {semdZero} :
               s_semAdd[d] \in Int /\ 0 <= s_semAdd[d] /\ s_semAdd[d] < MAXINT
         /\ \A d \in Waiting : 0 < s_semAdd[d]
         /\ \A d, e \in Waiting \cup {semdZero} : s_semAdd[d] = s_semAdd[e] => d = e
<1>1. s_semAdd[semdZero] = 0
  BY DEF Dummies
<1>2. \A d \in Waiting : s_semAdd[d] \in Int /\ 0 < s_semAdd[d] /\ s_semAdd[d] < MAXINT
  BY SemIsAddress DEF Addresses
<1>3. MAXINT \in Nat \ {0}
  BY AslAssumption
<1>4. \A d, e \in Waiting : s_semAdd[d] = s_semAdd[e] => d = e
  BY DEF Addresses
<1> QED BY <1>1, <1>2, <1>3, <1>4

\* Two descriptors have the same next only if they are one.
LEMMA NextApart ==
  ASSUME AslInv, NEW d \in Waiting \cup {semdZero}, NEW e \in Waiting \cup {semdZero},
         s_next[d] = s_next[e]
  PROVE  d = e
<1>1. SUFFICES ASSUME d # e PROVE FALSE
  OBVIOUS
<1>2. /\ s_semAdd[d] \in Int /\ s_semAdd[e] \in Int /\ s_semAdd[d] # s_semAdd[e]
      /\ d = semdZero => s_semAdd[d] < s_semAdd[e]
      /\ e = semdZero => s_semAdd[e] < s_semAdd[d]
  BY <1>1, ListAddress DEF AslInv, Dummies
<1>3. /\ s_semAdd[d] < s_semAdd[s_next[d]] /\ s_semAdd[e] < s_semAdd[s_next[d]]
      /\ \A x \in Waiting : s_semAdd[d] < s_semAdd[x] => s_semAdd[s_next[d]] <= s_semAdd[x]
      /\ \A x \in Waiting : s_semAdd[e] < s_semAdd[x] => s_semAdd[s_next[d]] <= s_semAdd[x]
      /\ s_next[d] \in Waiting \cup {semdMax}
  BY DEF AslInv, AslSorted
<1>4. s_semAdd[s_next[d]] \in Int
  BY <1>3, ListAddress, AslAssumption DEF AslInv, Dummies
<1> QED BY <1>2, <1>3, <1>4

\* The address the search looks for.
Sought(s) == IF s = NULL THEN MAXINT ELSE s

\* The search ends, in front of the first descriptor not below what it seeks.
LEMMA SearchStops ==
  ASSUME AslInv, NEW s \in Sem \cup {NULL}
  PROVE  /\ searchASL(s) \in Waiting \cup {semdZero}
         /\ s_semAdd[searchASL(s)] < Sought(s)
         /\ s_next[searchASL(s)] \in Waiting \cup {semdMax}
         /\ Sought(s) <= s_semAdd[s_next[searchASL(s)]]
<1> DEFINE a == Sought(s)
           X == {d \in Waiting \cup {semdZero} : s_semAdd[d] < a}
           P == Passed(a)
<1>1. a \in Int /\ 0 < a /\ a <= MAXINT /\ MAXINT \in Int
  BY SemIsAddress, AslAssumption DEF Sought
<1> HIDE DEF a
<1>2. \A d \in Waiting \cup {semdZero} :
         /\ s_next[d] \in Waiting \cup {semdMax}
         /\ s_semAdd[s_next[d]] \in Int /\ s_semAdd[d] < s_semAdd[s_next[d]]
         /\ 0 <= s_semAdd[s_next[d]]
         /\ s_semAdd[s_next[d]] < a => s_next[d] \in Waiting
  <2>1. \A d \in Waiting \cup {semdZero} :
           s_next[d] \in Waiting \cup {semdMax} /\ s_semAdd[d] < s_semAdd[s_next[d]]
    BY DEF AslInv, AslSorted
  <2>2. s_semAdd[semdMax] = MAXINT
    BY DEF AslInv, Dummies
  <2>3. \A d \in Waiting : s_semAdd[d] \in Int /\ 0 < s_semAdd[d]
    BY ListAddress DEF AslInv
  <2> QED BY <1>1, <2>1, <2>2, <2>3
<1>3. \A d \in Waiting \cup {semdZero} : NextBelow(d, a) <=> s_semAdd[s_next[d]] < a
  <2>1. \A d \in Waiting \cup {semdZero} : s_next[d] \in Semd
    BY <1>2, DummiesApart
  <2> QED BY <1>1, <1>2, <2>1 DEF NextBelow
<1>4. P \subseteq X
  <2>1. X \in SUBSET (Semd \ {semdMax})
    BY DummiesApart
  <2>2. semdActive_h \in X
    BY <1>1 DEF semdActive_h, AslInv, Dummies
  <2>3. \A e \in X : NextBelow(e, a) => s_next[e] \in X
    BY <1>2, <1>3
  <2> HIDE DEF X
  <2> QED BY <2>1, <2>2, <2>3 DEF Passed
<1>5. semdZero \in P
  BY DummiesApart DEF Passed, semdActive_h
<1>6. \A d \in P : NextBelow(d, a) => s_next[d] \in P
  <2>1. \A d \in P : NextBelow(d, a) => s_next[d] \in Semd \ {semdMax}
    BY <1>2, <1>3, <1>4, DummiesApart
  <2> QED BY <2>1 DEF Passed
<1>7. \E d \in P : ~NextBelow(d, a)
  <2>1. SUFFICES ASSUME \A d \in P : s_next[d] \in P PROVE FALSE
    BY <1>6
  <2>2. \A d, e \in P : s_next[d] = s_next[e] => d = e
    BY <1>4, NextApart
  <2>3. IsFiniteSet(P)
    BY DummiesApart, FS_Subset DEF Passed
  <2>4. PICK f : f = [d \in P |-> s_next[d]]
    OBVIOUS
  <2> HIDE DEF P
  <2>5. f \in Injection(P, P)
    BY <2>1, <2>2, <2>4 DEF Injection, IsInjective
  <2>6. f \in Surjection(P, P)
    BY <2>3, <2>5, FS_Injection
  <2>7. PICK d \in P : f[d] = semdZero
    BY <2>6, <1>5 DEF Surjection
  <2>8. s_next[d] = semdZero
    BY <2>4, <2>7
  <2> QED BY <2>8, <1>2, <1>4, DummiesApart
<1>8. searchASL(s) \in P /\ ~NextBelow(searchASL(s), a)
  BY <1>7 DEF searchASL, a, Sought
<1> HIDE DEF P
<1> QED BY <1>1, <1>2, <1>3, <1>4, <1>8 DEF a

\* When a process waits on s its descriptor is the one the search stops before;
\* when none does, s lies between the addresses there.
LEMMA SearchFinds ==
  ASSUME AslInv, NEW s \in Sem
  PROVE  LET b == searchASL(s)
         IN  /\ b \in Waiting \cup {semdZero}
             /\ Active(s) <=> s_next[b] \in Waiting /\ s_semAdd[s_next[b]] = s
             /\ Active(s) <=> \E d \in Waiting : s_semAdd[d] = s
             /\ ~Active(s) => s_semAdd[b] < s /\ s < s_semAdd[s_next[b]]
<1> DEFINE b == searchASL(s)
<1>1. s # NULL /\ s \in Int /\ s < MAXINT /\ Sought(s) = s
  BY SemIsAddress DEF Sought
<1>2. /\ b \in Waiting \cup {semdZero} /\ s_semAdd[b] < s
      /\ s_next[b] \in Waiting \cup {semdMax} /\ s <= s_semAdd[s_next[b]]
  BY <1>1, SearchStops
<1>3. s_semAdd[semdMax] = MAXINT /\ MAXINT \in Int
  BY AslAssumption DEF AslInv, Dummies
<1> HIDE DEF b
<1>4. s_semAdd[s_next[b]] \in Int
  BY <1>2, <1>3, ListAddress DEF AslInv
<1>5. \A e \in Waiting : s_semAdd[b] < s_semAdd[e] => s_semAdd[s_next[b]] <= s_semAdd[e]
  BY <1>2 DEF AslInv, AslSorted
<1>6. ASSUME NEW e \in Waiting, s_semAdd[e] = s
      PROVE  s_semAdd[s_next[b]] = s
  BY <1>1, <1>2, <1>4, <1>5, <1>6
<1>7. s_semAdd[s_next[b]] = s => s_next[b] \in Waiting
  BY <1>1, <1>2, <1>3
<1> QED BY <1>1, <1>2, <1>4, <1>6, <1>7 DEF Active, b

\* A block that waits on nothing: the search runs to the last dummy.
LEMMA SearchForNull ==
  ASSUME AslInv
  PROVE  s_semAdd[s_next[searchASL(NULL)]] # NULL
<1>1. /\ s_next[searchASL(NULL)] \in Waiting \cup {semdMax}
      /\ MAXINT <= s_semAdd[s_next[searchASL(NULL)]]
  BY SearchStops DEF Sought
<1>2. MAXINT \in Int /\ NULL \notin Int
  BY AslAssumption, PcbAssumption
<1> QED BY <1>1, <1>2, ListAddress DEF AslInv, Dummies

\* A descriptor taken for s goes in where the search stopped.
LEMMA ListInsert ==
  ASSUME AslInv, s_next \in [Semd -> Semd \cup {NULL, ZERO}],
         s_semAdd \in [Semd -> Sem \cup {NULL, 0, MAXINT}],
         NEW s \in Sem, NEW b \in Waiting \cup {semdZero},
         s_semAdd[b] < s, s < s_semAdd[s_next[b]],
         NEW d \in Spare, Waiting' = Waiting \cup {d},
         s_next' = [s_next EXCEPT ![d] = s_next[b], ![b] = d],
         s_semAdd' = [s_semAdd EXCEPT ![d] = s]
  PROVE  AslInv'
<1>1. d \in Semd /\ d \notin Waiting /\ d # semdZero /\ d # semdMax /\ b # d /\ b \in Semd
  BY DummiesApart, PcbAssumption DEF Spare, Semd, semdZero, semdMax
<1>2. /\ s_semAdd'[d] = s
      /\ \A x \in Waiting \cup {semdZero, semdMax} : s_semAdd'[x] = s_semAdd[x]
      /\ s_next'[d] = s_next[b] /\ s_next'[b] = d
      /\ \A x \in Waiting \cup {semdZero} : x # b => s_next'[x] = s_next[x]
  BY <1>1, DummiesApart
<1>3. Dummies'
  BY <1>2 DEF AslInv, Dummies, semdZero, semdMax
<1>4. s \in Int /\ 0 < s /\ s < MAXINT /\ MAXINT \in Int
  BY SemIsAddress, AslAssumption
<1>5. /\ \A x \in Waiting \cup {semdZero} :
            /\ s_next[x] \in Waiting \cup {semdMax}
            /\ s_semAdd[x] \in Int /\ s_semAdd[s_next[x]] \in Int
            /\ s_semAdd[x] < s_semAdd[s_next[x]]
            /\ \A e \in Waiting :
                  s_semAdd[x] < s_semAdd[e] => s_semAdd[s_next[x]] <= s_semAdd[e]
      /\ \A x, e \in Waiting \cup {semdZero} : s_semAdd[x] = s_semAdd[e] => x = e
  <2>1. s_semAdd[semdMax] \in Int
    BY <1>4 DEF AslInv, Dummies
  <2>2. \A x \in Waiting \cup {semdZero} : s_semAdd[x] \in Int
    BY ListAddress DEF AslInv
  <2> QED BY <2>1, <2>2, ListAddress DEF AslInv, AslSorted
<1>6. \A e \in Waiting : s_semAdd[e] # s
  BY <1>4, <1>5
<1>7. Addresses'
  BY <1>2, <1>6 DEF AslInv, Addresses
<1>8. semdZero' = semdZero /\ semdMax' = semdMax
  BY DEF semdZero, semdMax
<1>9. ASSUME NEW x \in Waiting \cup {semdZero, d}
      PROVE  /\ s_next'[x] \in Waiting \cup {d, semdMax}
             /\ s_semAdd'[x] < s_semAdd'[s_next'[x]]
             /\ \A e \in Waiting \cup {d} :
                   s_semAdd'[x] < s_semAdd'[e] => s_semAdd'[s_next'[x]] <= s_semAdd'[e]
  <2>1. CASE x = d
    <3>1. s_semAdd'[s_next[b]] = s_semAdd[s_next[b]] /\ s_next[b] \in Waiting \cup {semdMax}
      BY <1>2, <1>5
    <3>2. \A e \in Waiting : s < s_semAdd[e] => s_semAdd[s_next[b]] <= s_semAdd[e]
      BY <1>4, <1>5
    <3>3. /\ s_next'[d] = s_next[b] /\ s_semAdd'[d] = s /\ ~(s < s)
          /\ \A e \in Waiting : s_semAdd'[e] = s_semAdd[e]
      BY <1>2, <1>4
    <3>4. \A e \in Waiting \cup {d} :
             s < s_semAdd'[e] => s_semAdd[s_next[b]] <= s_semAdd'[e]
      BY <3>2, <3>3
    <3> QED BY <2>1, <3>1, <3>3, <3>4, ZenonT(60)
  <2>2. CASE x = b
    BY <2>2, <1>1, <1>2, <1>4, <1>5
  <2>3. CASE x # d /\ x # b
    <3>1. s_next'[x] = s_next[x] /\ s_semAdd'[x] = s_semAdd[x]
          /\ s_semAdd'[s_next[x]] = s_semAdd[s_next[x]]
      BY <2>3, <1>2, <1>5
    <3>2. s_semAdd[x] < s => s_semAdd[s_next[x]] <= s
      <4>1. x \in Waiting \cup {semdZero} /\ s_semAdd[x] # s_semAdd[b]
        BY <2>3, <1>5
      <4>2. CASE s_semAdd[x] < s_semAdd[b]
        <5>1. b \in Waiting
          BY <4>1, <4>2, ListAddress DEF AslInv, Dummies
        <5> QED BY <5>1, <4>1, <4>2, <1>4, <1>5
      <4>3. CASE s_semAdd[b] < s_semAdd[x]
        <5>1. x \in Waiting
          BY <4>1, <4>3, ListAddress DEF AslInv, Dummies
        <5> QED BY <5>1, <4>3, <1>4, <1>5
      <4> QED BY <4>1, <4>2, <4>3, <1>5
    <3>3. /\ s_next[x] \in Waiting \cup {semdMax} /\ s_semAdd[x] < s_semAdd[s_next[x]]
          /\ \A e \in Waiting :
                s_semAdd[x] < s_semAdd[e] => s_semAdd[s_next[x]] <= s_semAdd[e]
      BY <2>3, <1>5
    <3> QED BY <3>1, <3>2, <3>3, <1>2, ZenonT(60)
  <2> QED BY <2>1, <2>2, <2>3
<1>10. AslSorted'
  BY <1>8, <1>9 DEF AslSorted
<1> QED BY <1>3, <1>7, <1>10 DEF AslInv

\* The descriptor behind b, with nobody waiting any more, goes out.
LEMMA ListDelete ==
  ASSUME AslInv, s_next \in [Semd -> Semd \cup {NULL, ZERO}],
         s_semAdd \in [Semd -> Sem \cup {NULL, 0, MAXINT}],
         NEW b \in Waiting \cup {semdZero}, NEW d \in Waiting, d = s_next[b],
         NEW v, NEW w, Waiting' = Waiting \ {d},
         s_next' = [s_next EXCEPT ![b] = s_next[d], ![d] = v],
         s_semAdd' = [s_semAdd EXCEPT ![d] = w]
  PROVE  AslInv'
<1>1. d \in Semd /\ d # semdZero /\ d # semdMax /\ b \in Semd
  BY DummiesApart
<1>2. /\ \A x \in Waiting \cup {semdZero} :
            /\ s_next[x] \in Waiting \cup {semdMax}
            /\ s_semAdd[x] \in Int /\ s_semAdd[s_next[x]] \in Int
            /\ s_semAdd[x] < s_semAdd[s_next[x]]
            /\ \A e \in Waiting :
                  s_semAdd[x] < s_semAdd[e] => s_semAdd[s_next[x]] <= s_semAdd[e]
      /\ \A x, e \in Waiting \cup {semdZero} : s_semAdd[x] = s_semAdd[e] => x = e
  <2>1. s_semAdd[semdMax] \in Int
    BY AslAssumption DEF AslInv, Dummies
  <2>2. \A x \in Waiting \cup {semdZero} : s_semAdd[x] \in Int
    BY ListAddress DEF AslInv
  <2> QED BY <2>1, <2>2, ListAddress DEF AslInv, AslSorted
<1>3. b # d
  BY <1>2
<1>4. /\ \A x \in (Waiting \cup {semdZero, semdMax}) \ {d} : s_semAdd'[x] = s_semAdd[x]
      /\ s_next'[b] = s_next[d]
      /\ \A x \in (Waiting \cup {semdZero}) \ {b, d} : s_next'[x] = s_next[x]
  BY <1>1, <1>3, DummiesApart
<1>5. Dummies'
  BY <1>1, <1>4 DEF AslInv, Dummies, semdZero, semdMax
<1>6. Addresses'
  BY <1>4 DEF AslInv, Addresses
<1>7. \A x \in Waiting \cup {semdZero} : x # b => s_next[x] # d
  BY NextApart
<1>8. semdZero' = semdZero /\ semdMax' = semdMax
  BY DEF semdZero, semdMax
<1>9. ASSUME NEW x \in (Waiting \cup {semdZero}) \ {d}
      PROVE  /\ s_next'[x] \in (Waiting \ {d}) \cup {semdMax}
             /\ s_semAdd'[x] < s_semAdd'[s_next'[x]]
             /\ \A e \in Waiting \ {d} :
                   s_semAdd'[x] < s_semAdd'[e] => s_semAdd'[s_next'[x]] <= s_semAdd'[e]
  <2>1. CASE x = b
    <3>1. s_next[d] # d /\ s_next[d] \in Waiting \cup {semdMax}
      BY <1>2
    <3>2. s_semAdd'[s_next[d]] = s_semAdd[s_next[d]] /\ s_semAdd'[b] = s_semAdd[b]
      BY <3>1, <1>3, <1>4
    <3>3. s_semAdd[b] < s_semAdd[s_next[d]]
      BY <1>2
    <3>4. \A e \in Waiting \ {d} :
             s_semAdd[b] < s_semAdd[e] => s_semAdd[s_next[d]] <= s_semAdd[e]
      BY <1>2
    <3> QED BY <2>1, <3>1, <3>2, <3>3, <3>4, <1>4, ZenonT(60)
  <2>2. CASE x # b
    <3>1. s_next'[x] = s_next[x] /\ s_semAdd'[x] = s_semAdd[x]
          /\ s_semAdd'[s_next[x]] = s_semAdd[s_next[x]] /\ s_next[x] # d
      BY <2>2, <1>1, <1>2, <1>4, <1>7
    <3> QED BY <3>1, <2>2, <1>2, <1>4, ZenonT(60)
  <2> QED BY <2>1, <2>2
<1>10. AslSorted'
  BY <1>1, <1>8, <1>9 DEF AslSorted
<1> QED BY <1>5, <1>6, <1>10 DEF AslInv

-----------------------------------------------------------------------------
(***************************************************************************)
(* The inductive invariant of the queues and the semaphores.               *)
(***************************************************************************)
QueueType ==
  /\ pcb_FREE_h \in Proc \cup {NULL}
  /\ pcb_next \in [Proc -> Ptr] /\ pcb_prev \in [Proc -> Ptr]
  /\ s_next \in [Semd -> Semd \cup {NULL, ZERO}]
  /\ s_semAdd \in [Semd -> Sem \cup {NULL, 0, MAXINT}]
  /\ s_procQ \in [Semd -> Ptr]
  /\ semdFree_h \in 1 .. MAXPROC \cup {NULL}
  /\ pcb_semAdd \in [Proc -> Sem \cup {NULL, ZERO}]
  /\ readyQueue \in Proc \cup {NULL}
  /\ where \in [Proc -> {FREE, HELD, READY} \cup Sem]

\* TypeOK and the shapes of the queues depend on each other: that the top of a
\* stack is a block, or the head of a queue, is what the shapes say.
QueueInv == /\ QueueType
            /\ FreeStackExact /\ QueuesAreRings
            /\ Dummies /\ AslSorted /\ DescriptorsExact

LEMMA PlacesApart ==
  /\ FREE \notin Sem /\ HELD \notin Sem /\ READY \notin Sem
  /\ FREE # HELD /\ FREE # READY /\ HELD # READY
<1>1. \A s \in Sem : s \in Int
  BY SemIsAddress
<1>2. FREE \notin Int /\ HELD \notin Int /\ READY \notin Int
  BY Phase1Assumption
<1> QED BY <1>1, <1>2, Phase1Assumption

\* Who is where after a call returned p to its caller.
LEMMA AtReturned ==
  ASSUME QueueType, NEW p \in Proc, NEW w, Returned(p, w)
  PROVE  /\ where' = [where EXCEPT ![p] = w]
         /\ \A v : {q \in Proc : where'[q] = v} =
                      IF v = w THEN At(v) \cup {p} ELSE At(v) \ {p}
<1>1. \A q \in Proc : where'[q] = IF q = p THEN w ELSE where[q]
  BY DEF Returned
<1>2. where' = [where EXCEPT ![p] = w]
  BY DEF Returned, QueueType
<1> QED BY <1>1, <1>2 DEF At

\* A semaphore somebody waits on has one descriptor, with a ring of the waiting.
LEMMA WaitingRing ==
  ASSUME QueueInv
  PROVE  /\ AslInv
         /\ \A d \in Waiting : /\ s_semAdd[d] \in Sem /\ At(s_semAdd[d]) # {}
                               /\ Ring(s_procQ[d], pcb_next, pcb_prev, At(s_semAdd[d]))
         /\ \A s \in Sem : At(s) # {} <=> \E d \in Waiting : s_semAdd[d] = s
<1>1. \A s \in Sem : At(s) # {} <=> s \in {s_semAdd[d] : d \in Waiting}
  BY DEF QueueInv, DescriptorsExact, At
<1>2. \A d \in Waiting : s_semAdd[d] \in Sem
  BY DEF QueueInv, DescriptorsExact
<1>3. Addresses
  BY <1>2 DEF QueueInv, DescriptorsExact, Addresses
<1> QED BY <1>1, <1>2, <1>3 DEF QueueInv, AslInv, QueuesAreRings

\* A call that moves a block between the pool, its caller and the ready queue
\* leaves the semaphores alone.
LEMMA SemaphoresSame ==
  ASSUME QueueInv, NEW p \in Proc, NEW w \in {FREE, HELD, READY}, Returned(p, w),
         where[p] \notin Sem, UNCHANGED aslVars,
         \A q \in Proc : where[q] \in Sem =>
            pcb_next'[q] = pcb_next[q] /\ pcb_prev'[q] = pcb_prev[q],
         \A q \in Proc \ {p} : pcb_semAdd'[q] = pcb_semAdd[q],
         w # FREE => pcb_semAdd'[p] = NULL
  PROVE  /\ Dummies' /\ AslSorted' /\ DescriptorsExact'
         /\ \A d \in Waiting' : Ring(s_procQ[d], pcb_next, pcb_prev, At(s_semAdd[d]))'
<1>1. /\ Waiting' = Waiting /\ Spare' = Spare
      /\ semdZero' = semdZero /\ semdMax' = semdMax
      /\ s_next' = s_next /\ s_semAdd' = s_semAdd /\ s_procQ' = s_procQ
      /\ semdFree_h' = semdFree_h
  BY DEF Waiting, Spare, semdZero, semdMax, aslVars
<1>2. Dummies' /\ AslSorted'
  BY <1>1 DEF QueueInv, Dummies, AslSorted
<1>3. w \notin Sem /\ \A q \in Proc : where'[q] = IF q = p THEN w ELSE where[q]
  BY PlacesApart DEF Returned
<1>4. {where'[q] : q \in Proc} \cap Sem = {where[q] : q \in Proc} \cap Sem
  BY <1>3
<1>5. \A q \in Proc : where'[q] # FREE =>
         pcb_semAdd'[q] = IF where'[q] \in Sem THEN where'[q] ELSE NULL
  BY <1>3 DEF QueueInv, DescriptorsExact
<1>6. DescriptorsExact'
  BY <1>1, <1>4, <1>5 DEF QueueInv, DescriptorsExact
<1>7. ASSUME NEW d \in Waiting
      PROVE  Ring(s_procQ[d], pcb_next', pcb_prev', At(s_semAdd[d])')
  <2>1. At(s_semAdd[d])' = At(s_semAdd[d])
    <3>1. s_semAdd[d] \in Sem
      BY WaitingRing
    <3> QED BY <3>1, <1>1, <1>3 DEF At
  <2>2. \A q \in At(s_semAdd[d]) : pcb_next'[q] = pcb_next[q] /\ pcb_prev'[q] = pcb_prev[q]
    BY WaitingRing DEF At
  <2>3. Ring(s_procQ[d], pcb_next, pcb_prev, At(s_semAdd[d]))
    BY WaitingRing
  <2> QED BY <2>1, <2>2, <2>3, RingSame
<1> QED BY <1>1, <1>2, <1>6, <1>7 DEF Ring

-----------------------------------------------------------------------------
LEMMA QueueAlloc == QueueInv /\ Alloc => QueueInv'
<1> SUFFICES ASSUME QueueInv, Alloc PROVE QueueInv'
  OBVIOUS
<1>1. PICK p \in Proc : allocPcb(p) /\ Returned(p, HELD)
                        /\ pcb_semAdd' = [pcb_semAdd EXCEPT ![p] = NULL]
  BY DEF Alloc
<1>2. /\ pcb_FREE_h = p /\ pcb_FREE_h' = pcb_next[p]
      /\ pcb_next' = [pcb_next EXCEPT ![p] = NULL]
      /\ pcb_prev' = [pcb_prev EXCEPT ![p] = NULL]
      /\ UNCHANGED aslVars /\ readyQueue' = readyQueue
  BY <1>1 DEF allocPcb, Alloc
<1>3. QueueType /\ Chain(pcb_FREE_h, pcb_next, At(FREE))
      /\ Ring(readyQueue, pcb_next, pcb_prev, At(READY))
  BY DEF QueueInv, FreeStackExact, QueuesAreRings
<1>4. p \in At(FREE) /\ NULL \notin At(FREE)
  BY <1>2, <1>3, NullIsNoBlock DEF Chain, At
<1>5. where[p] = FREE /\ where[p] \notin Sem
  BY <1>4, PlacesApart DEF At
<1>6. /\ where' = [where EXCEPT ![p] = HELD]
      /\ At(FREE)' = At(FREE) \ {p} /\ At(READY)' = At(READY)
  BY <1>1, <1>3, <1>5, AtReturned, PlacesApart DEF At
<1>7. \A q \in Proc : q # p => pcb_next'[q] = pcb_next[q] /\ pcb_prev'[q] = pcb_prev[q]
                               /\ pcb_semAdd'[q] = pcb_semAdd[q]
  BY <1>1, <1>2, <1>3 DEF QueueType
<1>8. QueueType'
  <2>1. pcb_FREE_h' \in Proc \cup {NULL}
    BY <1>2, <1>3, <1>4 DEF Chain, At
  <2> QED BY <1>1, <1>2, <1>3, <1>6, <2>1 DEF QueueType, aslVars, Ptr
<1>9. FreeStackExact'
  <2>1. \A q \in At(FREE) \ {p} : pcb_next'[q] = pcb_next[q]
    BY <1>7 DEF At
  <2>2. Chain(pcb_next[p], pcb_next', At(FREE) \ {p})
    BY <1>2, <1>3, <1>4, <2>1, NullIsNoBlock, ChainPop
  <2> QED BY <1>2, <1>6, <2>2 DEF FreeStackExact, Chain
<1>10. Ring(readyQueue, pcb_next, pcb_prev, At(READY))'
  <2>1. \A q \in At(READY) : pcb_next'[q] = pcb_next[q] /\ pcb_prev'[q] = pcb_prev[q]
    BY <1>5, <1>7, PlacesApart DEF At
  <2>2. Ring(readyQueue, pcb_next', pcb_prev', At(READY))
    BY <1>3, <2>1, RingSame
  <2> QED BY <1>2, <1>6, <2>2 DEF Ring
<1>11. pcb_semAdd'[p] = NULL
  BY <1>1, <1>3 DEF QueueType
<1>12. /\ Dummies' /\ AslSorted' /\ DescriptorsExact'
       /\ \A d \in Waiting' : Ring(s_procQ[d], pcb_next, pcb_prev, At(s_semAdd[d]))'
  BY <1>1, <1>2, <1>5, <1>7, <1>11, SemaphoresSame
<1> QED BY <1>8, <1>9, <1>10, <1>12 DEF QueueInv, QueuesAreRings

LEMMA QueueFree == ASSUME NEW p \in Proc, QueueInv, Free(p) PROVE QueueInv'
<1>2. /\ pcb_FREE_h' = p /\ Returned(p, FREE)
      /\ pcb_next' = [pcb_next EXCEPT ![p] = pcb_FREE_h]
      /\ pcb_prev' = pcb_prev /\ pcb_semAdd' = pcb_semAdd
      /\ UNCHANGED aslVars /\ readyQueue' = readyQueue
  BY DEF freePcb, Free
<1>3. QueueType /\ Chain(pcb_FREE_h, pcb_next, At(FREE))
      /\ Ring(readyQueue, pcb_next, pcb_prev, At(READY))
  BY DEF QueueInv, FreeStackExact, QueuesAreRings
<1>5. where[p] = HELD /\ where[p] \notin Sem /\ p \notin At(FREE) /\ p \notin At(READY)
  BY PlacesApart DEF At, Free
<1>6. /\ where' = [where EXCEPT ![p] = FREE]
      /\ At(FREE)' = At(FREE) \cup {p} /\ At(READY)' = At(READY)
  BY <1>2, <1>3, <1>5, AtReturned, PlacesApart DEF At
<1>7. pcb_next'[p] = pcb_FREE_h /\ \A q \in Proc : q # p => pcb_next'[q] = pcb_next[q]
  BY <1>2, <1>3 DEF QueueType
<1>8. QueueType'
  BY <1>2, <1>3, <1>6 DEF QueueType, aslVars, Ptr
<1>9. FreeStackExact'
  <2>1. \A q \in At(FREE) : pcb_next'[q] = pcb_next[q]
    BY <1>5, <1>7 DEF At
  <2>2. NULL \notin At(FREE) /\ p # NULL
    BY NullIsNoBlock DEF At
  <2>3. Chain(p, pcb_next', At(FREE) \cup {p})
    BY <1>3, <1>5, <1>7, <2>1, <2>2, ChainPush
  <2> QED BY <1>2, <1>6, <2>3 DEF FreeStackExact, Chain
<1>10. Ring(readyQueue, pcb_next, pcb_prev, At(READY))'
  <2>1. \A q \in At(READY) : pcb_next'[q] = pcb_next[q] /\ pcb_prev'[q] = pcb_prev[q]
    BY <1>2, <1>5, <1>7 DEF At
  <2>2. Ring(readyQueue, pcb_next', pcb_prev', At(READY))
    BY <1>3, <2>1, RingSame
  <2> QED BY <1>2, <1>6, <2>2 DEF Ring
<1>12. /\ Dummies' /\ AslSorted' /\ DescriptorsExact'
       /\ \A d \in Waiting' : Ring(s_procQ[d], pcb_next, pcb_prev, At(s_semAdd[d]))'
  <2>1. \A q \in Proc : where[q] \in Sem =>
           pcb_next'[q] = pcb_next[q] /\ pcb_prev'[q] = pcb_prev[q]
    BY <1>2, <1>5, <1>7
  <2> QED BY <1>2, <1>5, <2>1, SemaphoresSame
<1> QED BY <1>8, <1>9, <1>10, <1>12 DEF QueueInv, QueuesAreRings

LEMMA QueueInsert == ASSUME NEW p \in Proc, QueueInv, Insert(p) PROVE QueueInv'
<1> DEFINE in == insertProcQ(readyQueue, p)
<1>2. /\ Returned(p, READY) /\ where[p] = HELD
      /\ readyQueue' = in.tail /\ pcb_next' = in.next /\ pcb_prev' = in.prev
      /\ pcb_FREE_h' = pcb_FREE_h /\ pcb_semAdd' = pcb_semAdd /\ UNCHANGED aslVars
  BY DEF Insert
<1>3. QueueType /\ Chain(pcb_FREE_h, pcb_next, At(FREE))
      /\ Ring(readyQueue, pcb_next, pcb_prev, At(READY))
  BY DEF QueueInv, FreeStackExact, QueuesAreRings
<1>4. p \notin At(READY) /\ p \notin At(FREE) /\ where[p] \notin Sem
      /\ At(READY) \in SUBSET Proc
  BY <1>2, PlacesApart DEF At
<1>5. /\ Ring(in.tail, in.next, in.prev, At(READY) \cup {p})
      /\ \A q \in Proc \ (At(READY) \cup {p}) :
            in.next[q] = pcb_next[q] /\ in.prev[q] = pcb_prev[q]
      /\ in.tail = p /\ in.next \in [Proc -> Ptr] /\ in.prev \in [Proc -> Ptr]
  BY <1>3, <1>4, RingInsert DEF QueueType
<1> HIDE DEF in
<1>6. /\ where' = [where EXCEPT ![p] = READY]
      /\ At(FREE)' = At(FREE) /\ At(READY)' = At(READY) \cup {p}
  BY <1>2, <1>3, <1>4, AtReturned, PlacesApart DEF At
<1>8. QueueType'
  BY <1>2, <1>3, <1>5, <1>6 DEF QueueType, aslVars
<1>9. FreeStackExact'
  <2>1. \A q \in At(FREE) : pcb_next'[q] = pcb_next[q]
    BY <1>2, <1>4, <1>5, PlacesApart DEF At
  <2>2. NULL \notin At(FREE)
    BY NullIsNoBlock DEF At
  <2>3. Chain(pcb_FREE_h, pcb_next', At(FREE))
    BY <1>3, <2>1, <2>2, ChainSame
  <2> QED BY <1>2, <1>6, <2>3 DEF FreeStackExact, Chain
<1>10. Ring(readyQueue, pcb_next, pcb_prev, At(READY))'
  BY <1>2, <1>5, <1>6 DEF Ring
<1>12. /\ Dummies' /\ AslSorted' /\ DescriptorsExact'
       /\ \A d \in Waiting' : Ring(s_procQ[d], pcb_next, pcb_prev, At(s_semAdd[d]))'
  <2>1. \A q \in Proc : where[q] \in Sem =>
           pcb_next'[q] = pcb_next[q] /\ pcb_prev'[q] = pcb_prev[q]
    BY <1>2, <1>4, <1>5, PlacesApart DEF At
  <2>2. pcb_semAdd[p] = NULL
    BY <1>2, PlacesApart DEF QueueInv, DescriptorsExact
  <2> QED BY <1>2, <1>4, <2>1, <2>2, SemaphoresSame
<1> QED BY <1>8, <1>9, <1>10, <1>12 DEF QueueInv, QueuesAreRings

\* A call that changes none of the queues' variables.
LEMMA QueueStutter ==
  ASSUME QueueInv,
         UNCHANGED <<pcb_FREE_h, pcb_next, pcb_prev, aslVars, pcb_semAdd, readyQueue, where>>
  PROVE  QueueInv'
<1>1. /\ s_next' = s_next /\ s_semAdd' = s_semAdd /\ s_procQ' = s_procQ
      /\ semdFree_h' = semdFree_h
  BY DEF aslVars
<1>2. /\ Waiting' = Waiting /\ Spare' = Spare /\ \A w : At(w)' = At(w)
      /\ semdZero' = semdZero /\ semdMax' = semdMax
  BY <1>1 DEF Waiting, Spare, At, semdZero, semdMax
<1>3. QueueType'
  BY <1>1 DEF QueueInv, QueueType
<1>4. FreeStackExact'
  BY DEF QueueInv, FreeStackExact, Chain, At
<1>5. QueuesAreRings'
  BY <1>1, <1>2 DEF QueueInv, QueuesAreRings, Ring, At
<1>6. Dummies' /\ AslSorted'
  BY <1>1, <1>2 DEF QueueInv, Dummies, AslSorted
<1>7. DescriptorsExact'
  BY <1>1, <1>2 DEF QueueInv, DescriptorsExact, Chain
<1> QED BY <1>3, <1>4, <1>5, <1>6, <1>7 DEF QueueInv

\* removeProcQ and outProcQ on the ready queue: p comes off it, or nothing is done.
LEMMA QueueTook ==
  ASSUME NEW p, QueueInv, TookReady(outProcQ(readyQueue, p))
  PROVE  QueueInv'
<1> DEFINE out == outProcQ(readyQueue, p)
<1>1. /\ Returned(out.found, HELD)
      /\ readyQueue' = out.tail /\ pcb_next' = out.next /\ pcb_prev' = out.prev
      /\ pcb_FREE_h' = pcb_FREE_h /\ pcb_semAdd' = pcb_semAdd /\ UNCHANGED aslVars
  BY DEF TookReady
<1>2. QueueType /\ Chain(pcb_FREE_h, pcb_next, At(FREE))
      /\ Ring(readyQueue, pcb_next, pcb_prev, At(READY))
      /\ At(READY) \in SUBSET Proc
  BY DEF QueueInv, FreeStackExact, QueuesAreRings, At
<1>3. CASE p \notin At(READY)
  <2>1. out.tail = readyQueue /\ out.next = pcb_next /\ out.prev = pcb_prev
        /\ out.found = NULL
    BY <1>2, <1>3, RingNotFound
  <2> HIDE DEF out
  <2>2. where' = where
    BY <1>1, <1>2, <2>1, NullIsNoBlock DEF Returned, QueueType
  <2>3. /\ pcb_next' = pcb_next /\ pcb_prev' = pcb_prev /\ readyQueue' = readyQueue
        /\ s_next' = s_next /\ s_semAdd' = s_semAdd /\ s_procQ' = s_procQ
        /\ semdFree_h' = semdFree_h /\ pcb_FREE_h' = pcb_FREE_h /\ pcb_semAdd' = pcb_semAdd
    BY <1>1, <2>1 DEF aslVars
  <2> QED BY <2>2, <2>3, QueueStutter DEF aslVars
<1>4. CASE p \in At(READY)
  <2>1. p \in Proc /\ where[p] = READY /\ p \notin At(FREE) /\ where[p] \notin Sem
    BY <1>4, PlacesApart DEF At
  <2>2. /\ Ring(out.tail, out.next, out.prev, At(READY) \ {p})
        /\ \A q \in Proc \ At(READY) :
              out.next[q] = pcb_next[q] /\ out.prev[q] = pcb_prev[q]
        /\ out.found = p /\ out.tail \in At(READY) \cup {NULL}
        /\ out.next \in [Proc -> Ptr] /\ out.prev \in [Proc -> Ptr]
    <3>1. pcb_next \in [Proc -> Ptr] /\ pcb_prev \in [Proc -> Ptr]
      BY <1>2 DEF QueueType
    <3>2. PICK M \in SUBSET Proc : M = At(READY)
      BY <1>2
    <3> USE DEF out
    <3>9. p \in M /\ Ring(readyQueue, pcb_next, pcb_prev, M)
      BY <1>2, <1>4, <3>2
    <3>3. /\ Ring(out.tail, out.next, out.prev, M \ {p})
          /\ \A q \in Proc \ M : out.next[q] = pcb_next[q] /\ out.prev[q] = pcb_prev[q]
          /\ out.found = p
          /\ out.tail \in M \cup {NULL} /\ (out.tail = NULL <=> M = {p})
          /\ out.next \in [Proc -> Ptr] /\ out.prev \in [Proc -> Ptr]
      BY <3>1, <3>9, RingOut, Zenon
    <3> QED BY <3>2, <3>3
  <2> HIDE DEF out
  <2>3. Returned(p, HELD)
    BY <1>1, <2>2
  <2>4. /\ where' = [where EXCEPT ![p] = HELD]
        /\ At(FREE)' = At(FREE) /\ At(READY)' = At(READY) \ {p}
    BY <1>2, <2>1, <2>3, AtReturned, PlacesApart DEF At
  <2>5. QueueType'
    BY <1>1, <1>2, <2>2, <2>4 DEF QueueType, aslVars, At
  <2>6. FreeStackExact'
    <3>1. \A q \in At(FREE) : pcb_next'[q] = pcb_next[q]
      BY <1>1, <2>2, PlacesApart DEF At
    <3>2. NULL \notin At(FREE)
      BY NullIsNoBlock DEF At
    <3>3. Chain(pcb_FREE_h, pcb_next', At(FREE))
      BY <1>2, <3>1, <3>2, ChainSame
    <3> QED BY <1>1, <2>4, <3>3 DEF FreeStackExact, Chain
  <2>7. Ring(readyQueue, pcb_next, pcb_prev, At(READY))'
    BY <1>1, <2>2, <2>4 DEF Ring
  <2>8. /\ Dummies' /\ AslSorted' /\ DescriptorsExact'
        /\ \A d \in Waiting' : Ring(s_procQ[d], pcb_next, pcb_prev, At(s_semAdd[d]))'
    <3>1. \A q \in Proc : where[q] \in Sem =>
             pcb_next'[q] = pcb_next[q] /\ pcb_prev'[q] = pcb_prev[q]
      BY <1>1, <2>2, PlacesApart DEF At
    <3>2. pcb_semAdd[p] = NULL
      BY <2>1, PlacesApart DEF QueueInv, DescriptorsExact
    <3> QED BY <1>1, <2>1, <2>3, <3>1, <3>2, SemaphoresSame
  <2> QED BY <2>5, <2>6, <2>7, <2>8 DEF QueueInv, QueuesAreRings
<1> QED BY <1>3, <1>4

-----------------------------------------------------------------------------
\* What insertBlocked and takeOff have in common: p moves between its caller and
\* the queue of s, where M then waits, behind descriptor d; the list is in order.
SemaphoreStep(p, s, w, d, M) ==
  /\ Returned(p, w) /\ where[p] \in {HELD, s}
  /\ pcb_FREE_h' = pcb_FREE_h /\ readyQueue' = readyQueue
  /\ pcb_next' \in [Proc -> Ptr] /\ pcb_prev' \in [Proc -> Ptr]
  /\ \A q \in Proc : q # p /\ where[q] # s =>
        pcb_next'[q] = pcb_next[q] /\ pcb_prev'[q] = pcb_prev[q]
  /\ M = {q \in Proc : where'[q] = s}
  /\ Ring(s_procQ'[d], pcb_next', pcb_prev', M)
  /\ IF M = {} THEN d \notin Waiting' ELSE d \in Waiting' /\ s_semAdd'[d] = s
  /\ Waiting' \ {d} = Waiting \ {d} /\ (d \in Waiting => s_semAdd[d] = s)
  /\ \A e \in Waiting \ {d} : /\ s_semAdd'[e] = s_semAdd[e] /\ s_semAdd[e] # s
                             /\ s_procQ'[e] = s_procQ[e]
  /\ AslInv' /\ Chain(semdFree_h', s_next', Spare')
  /\ s_next' \in [Semd -> Semd \cup {NULL, ZERO}]
  /\ s_semAdd' \in [Semd -> Sem \cup {NULL, 0, MAXINT}]
  /\ s_procQ' \in [Semd -> Ptr] /\ semdFree_h' \in 1 .. MAXPROC \cup {NULL}
  /\ pcb_semAdd' = [pcb_semAdd EXCEPT ![p] = IF w = s THEN s ELSE NULL]

LEMMA SemaphoreMove ==
  ASSUME QueueInv, NEW p \in Proc, NEW s \in Sem, NEW w \in {HELD, s},
         NEW d \in 1 .. MAXPROC, NEW M, SemaphoreStep(p, s, w, d, M)
  PROVE  QueueInv'
<1> USE DEF SemaphoreStep
<1>1. QueueType /\ Chain(pcb_FREE_h, pcb_next, At(FREE))
      /\ Ring(readyQueue, pcb_next, pcb_prev, At(READY))
  BY DEF QueueInv, FreeStackExact, QueuesAreRings
<1>2. /\ where' = [where EXCEPT ![p] = w]
      /\ \A v : {q \in Proc : where'[q] = v} =
                   IF v = w THEN At(v) \cup {p} ELSE At(v) \ {p}
  BY <1>1, AtReturned
<1>3. s # FREE /\ s # READY /\ s # HELD /\ w # FREE /\ w # READY
  BY PlacesApart
<1>4. At(FREE)' = At(FREE) /\ At(READY)' = At(READY)
      /\ \A v \in Sem \ {s} : {q \in Proc : where'[q] = v} = At(v)
  BY <1>2, <1>3, PlacesApart DEF At
<1>5. QueueType'
  BY <1>1, <1>2 DEF QueueType
<1>6. FreeStackExact'
  <2>1. \A q \in At(FREE) : pcb_next'[q] = pcb_next[q]
    BY <1>3, PlacesApart DEF At
  <2>2. NULL \notin At(FREE)
    BY NullIsNoBlock DEF At
  <2>3. Chain(pcb_FREE_h, pcb_next', At(FREE))
    BY <1>1, <2>1, <2>2, ChainSame
  <2>4. Chain(pcb_FREE_h', pcb_next', At(FREE)')
    BY <1>4, <2>3
  <2> QED BY <2>4 DEF FreeStackExact, Chain
<1>7. Ring(readyQueue, pcb_next, pcb_prev, At(READY))'
  <2>1. \A q \in At(READY) : pcb_next'[q] = pcb_next[q] /\ pcb_prev'[q] = pcb_prev[q]
    BY <1>3, PlacesApart DEF At
  <2>2. Ring(readyQueue, pcb_next', pcb_prev', At(READY))
    BY <1>1, <2>1, RingSame
  <2>3. Ring(readyQueue', pcb_next', pcb_prev', At(READY)')
    BY <1>4, <2>2
  <2> QED BY <2>3 DEF Ring
<1>8. ASSUME NEW e \in Waiting'
      PROVE  Ring(s_procQ[e], pcb_next, pcb_prev, At(s_semAdd[e]))'
  <2>1. CASE e = d
    <3>1. s_semAdd'[e] = s
      BY <1>8, <2>1
    <3> QED BY <2>1, <3>1 DEF Ring, At
  <2>2. CASE e # d
    <3>1. e \in Waiting /\ s_semAdd'[e] = s_semAdd[e] /\ s_procQ'[e] = s_procQ[e]
          /\ s_semAdd[e] \in Sem \ {s}
      BY <1>8, <2>2, WaitingRing
    <3>2. Ring(s_procQ[e], pcb_next, pcb_prev, At(s_semAdd[e]))
      BY <3>1, WaitingRing
    <3>3. \A q \in At(s_semAdd[e]) : pcb_next'[q] = pcb_next[q] /\ pcb_prev'[q] = pcb_prev[q]
      BY <3>1, PlacesApart DEF At
    <3>4. Ring(s_procQ[e], pcb_next', pcb_prev', At(s_semAdd[e]))
      BY <3>2, <3>3, RingSame
    <3>5. At(s_semAdd[e])' = At(s_semAdd[e])
      BY <1>4, <3>1 DEF At
    <3>6. Ring(s_procQ'[e], pcb_next', pcb_prev', At(s_semAdd[e])')
      BY <3>1, <3>4, <3>5
    <3> QED BY <3>6 DEF Ring
  <2> QED BY <2>1, <2>2
<1>9. DescriptorsExact'
  <2>1. \A v \in Sem : At(v) # {} <=> \E e \in Waiting : s_semAdd[e] = v
    BY WaitingRing
  <2>2. \A v \in Sem : {q \in Proc : where'[q] = v} # {}
                       <=> \E e \in Waiting' : s_semAdd'[e] = v
    <3>1. \A v \in Sem \ {s} : {q \in Proc : where'[q] = v} # {}
                               <=> \E e \in Waiting' : s_semAdd'[e] = v
      <4>1. \A e \in Waiting' : s_semAdd'[e] # s => e \in Waiting \ {d}
        BY DEF At
      <4>2. \A e \in Waiting \ {d} : e \in Waiting' /\ s_semAdd'[e] = s_semAdd[e]
        OBVIOUS
      <4>3. \A e \in Waiting : s_semAdd[e] \in Sem /\ (e = d => s_semAdd[e] = s)
        BY WaitingRing
      <4> QED BY <1>4, <2>1, <4>1, <4>2, <4>3
    <3>2. {q \in Proc : where'[q] = s} # {} <=> \E e \in Waiting' : s_semAdd'[e] = s
      BY DEF At
    <3> QED BY <3>1, <3>2
  <2>3. {s_semAdd'[e] : e \in Waiting'} \subseteq Sem
    BY DEF AslInv, Addresses
  <2>4. {s_semAdd'[e] : e \in Waiting'} = {where'[q] : q \in Proc} \cap Sem
    BY <2>2, <2>3
  <2>5. \A q \in Proc : where'[q] # FREE =>
           pcb_semAdd'[q] = IF where'[q] \in Sem THEN where'[q] ELSE NULL
    BY <1>1, <1>2, <1>3, PlacesApart DEF QueueInv, DescriptorsExact, QueueType
  <2> QED BY <2>4, <2>5 DEF DescriptorsExact, AslInv, Addresses, Chain
<1> QED BY <1>5, <1>6, <1>7, <1>8, <1>9 DEF QueueInv, QueuesAreRings, AslInv

\* insertBlocked, with the descriptor the semaphore has, or with one off the stack.
BlockStep(p, s, d, M) ==
  /\ SemaphoreStep(p, s, s, d, M)
  /\ s_procQ'[d] = p
  /\ pcb_next' = insertProcQ(IF d \in Waiting THEN s_procQ[d] ELSE NULL, p).next

LEMMA BlockIsStep ==
  ASSUME NEW s \in Sem, NEW p \in Proc, QueueInv, Block(s, p)
  PROVE  \E d \in 1 .. MAXPROC : \E M : BlockStep(p, s, d, M)
<1> DEFINE b == searchASL(s)
<1>1. /\ where[p] = HELD /\ Returned(p, s) /\ insertBlocked(s, p)
      /\ pcb_FREE_h' = pcb_FREE_h /\ readyQueue' = readyQueue
  BY DEF Block
<1>2. /\ QueueType /\ AslInv /\ Chain(semdFree_h, s_next, Spare)
  BY WaitingRing DEF QueueInv, DescriptorsExact
<1>3. /\ b \in Waiting \cup {semdZero}
      /\ Active(s) <=> s_next[b] \in Waiting /\ s_semAdd[s_next[b]] = s
      /\ Active(s) <=> \E d \in Waiting : s_semAdd[d] = s
      /\ ~Active(s) => s_semAdd[b] < s /\ s < s_semAdd[s_next[b]]
  BY <1>2, SearchFinds
<1>4. PICK d : d = IF Active(s) THEN s_next[b] ELSE semdFree_h
  OBVIOUS
<1>5. PICK tp : tp = IF Active(s) THEN s_procQ[d] ELSE NULL
  OBVIOUS
<1> DEFINE in == insertProcQ(tp, p)
<1>6. /\ Active(s) \/ semdFree_h # NULL
      /\ IF Active(s)
         THEN UNCHANGED <<s_next, s_semAdd, semdFree_h>>
         ELSE /\ semdFree_h' = s_next[d]
              /\ s_next' = [s_next EXCEPT ![d] = s_next[b], ![b] = d]
              /\ s_semAdd' = [s_semAdd EXCEPT ![d] = s]
      /\ s_procQ' = [s_procQ EXCEPT ![d] = in.tail]
      /\ pcb_next' = in.next /\ pcb_prev' = in.prev
      /\ pcb_semAdd' = [pcb_semAdd EXCEPT ![p] = s]
  BY <1>1, <1>4, <1>5 DEF insertBlocked, Active
<1> HIDE DEF b
<1>7. NULL \notin Spare /\ semdMax \notin Spare /\ semdZero \notin Spare
      /\ Spare \in SUBSET (1 .. MAXPROC) /\ 1 .. MAXPROC \subseteq Semd
  BY PcbAssumption DEF Spare, Semd, semdMax, semdZero
<1>8. ~Active(s) => d \in Spare
  BY <1>2, <1>4, <1>6, <1>7, ChainTop DEF Chain
<1>9. d \in 1 .. MAXPROC /\ d \in Semd /\ (Active(s) => d \in Waiting /\ s_semAdd[d] = s)
  BY <1>3, <1>4, <1>7, <1>8 DEF Waiting
<1>10. Ring(tp, pcb_next, pcb_prev, At(s))
  <2>1. CASE Active(s)
    BY <2>1, <1>5, <1>9, WaitingRing
  <2>2. CASE ~Active(s)
    <3>1. At(s) = {}
      BY <2>2, <1>3, WaitingRing
    <3>2. Ring(NULL, pcb_next, pcb_prev, {})
      BY DEF Ring
    <3> QED BY <2>2, <3>1, <3>2, <1>5
  <2> QED BY <2>1, <2>2
<1>11. p \in Proc \ At(s) /\ At(s) \in SUBSET Proc
  BY <1>1, PlacesApart DEF At
<1>12. /\ Ring(in.tail, in.next, in.prev, At(s) \cup {p})
       /\ \A q \in Proc \ (At(s) \cup {p}) :
             in.next[q] = pcb_next[q] /\ in.prev[q] = pcb_prev[q]
       /\ in.tail = p /\ in.next \in [Proc -> Ptr] /\ in.prev \in [Proc -> Ptr]
  BY <1>2, <1>10, <1>11, RingInsert DEF QueueType
<1> HIDE DEF in
<1>13. /\ where' = [where EXCEPT ![p] = s] /\ At(s)' = At(s) \cup {p}
  BY <1>1, <1>2, AtReturned DEF At
<1>14. s_procQ' = [s_procQ EXCEPT ![d] = p] /\ s_procQ' \in [Semd -> Ptr]
       /\ s_procQ'[d] = p /\ \A e \in Semd \ {d} : s_procQ'[e] = s_procQ[e]
  BY <1>2, <1>6, <1>9, <1>12 DEF QueueType, Ptr
<1>15. Waiting' = Waiting \cup {d} /\ Spare' = Spare \ {d}
  BY <1>7, <1>9, <1>14 DEF Waiting, Spare
<1>16. /\ AslInv' /\ Chain(semdFree_h', s_next', Spare')
       /\ s_next' \in [Semd -> Semd \cup {NULL, ZERO}]
       /\ s_semAdd' \in [Semd -> Sem \cup {NULL, 0, MAXINT}]
       /\ semdFree_h' \in 1 .. MAXPROC \cup {NULL}
       /\ s_semAdd'[d] = s /\ \A e \in Waiting \ {d} : s_semAdd'[e] = s_semAdd[e]
  <2>1. CASE Active(s)
    <3>1. /\ Waiting' = Waiting /\ Spare' = Spare /\ s_next' = s_next
          /\ s_semAdd' = s_semAdd /\ semdFree_h' = semdFree_h
      BY <2>1, <1>6, <1>9, <1>15 DEF Spare
    <3>2. AslInv'
      BY <1>2, <3>1 DEF AslInv, Dummies, Addresses, AslSorted, semdZero, semdMax
    <3> QED BY <1>2, <1>9, <2>1, <3>1, <3>2 DEF QueueType
  <2>2. CASE ~Active(s)
    <3>1. /\ semdFree_h' = s_next[d] /\ d = semdFree_h /\ d \in Spare /\ d # NULL
          /\ s_next' = [s_next EXCEPT ![d] = s_next[b], ![b] = d]
          /\ s_semAdd' = [s_semAdd EXCEPT ![d] = s]
          /\ s_semAdd[b] < s /\ s < s_semAdd[s_next[b]]
      BY <2>2, <1>3, <1>4, <1>6, <1>7, <1>8
    <3>2. AslInv'
      BY <3>1, <1>2, <1>3, <1>15, ListInsert DEF QueueType
    <3>3. b \notin Spare /\ b \in Semd /\ s_next[b] \in Semd
      BY <1>2, <1>3, <1>7, DummiesApart DEF Spare, AslInv, AslSorted
    <3>4. \A x \in Spare \ {d} : s_next'[x] = s_next[x]
      BY <3>1, <3>3, <1>2, <1>7 DEF QueueType
    <3>5. Chain(s_next[semdFree_h], s_next', Spare \ {semdFree_h})
      BY <3>1, <3>4, <1>2, <1>7, ChainPop
    <3>6. s_next[d] \in 1 .. MAXPROC \cup {NULL}
      BY <3>1, <1>2, <1>7 DEF Chain
    <3>7. s_next' \in [Semd -> Semd \cup {NULL, ZERO}]
      BY <3>1, <3>3, <1>2, <1>9 DEF QueueType
    <3>8. s_semAdd' \in [Semd -> Sem \cup {NULL, 0, MAXINT}]
      BY <3>1, <1>2, <1>9 DEF QueueType
    <3>9. s_semAdd'[d] = s /\ \A e \in Waiting \ {d} : s_semAdd'[e] = s_semAdd[e]
      BY <3>1, <1>2, <1>9, DummiesApart DEF QueueType
    <3> QED BY <3>1, <3>2, <3>5, <3>6, <3>7, <3>8, <3>9, <1>15
  <2> QED BY <2>1, <2>2
<1>17. \A e \in Waiting \ {d} : /\ s_semAdd'[e] = s_semAdd[e] /\ s_semAdd[e] # s
                                /\ s_procQ'[e] = s_procQ[e]
  <2>1. \A e \in Waiting : s_semAdd[e] = s => e = d
    BY <1>2, <1>3, <1>9 DEF AslInv, Addresses
  <2> QED BY <2>1, <1>14, <1>16, DummiesApart
<1>18. PICK M : M = {q \in Proc : where'[q] = s}
  OBVIOUS
<1>19. M = At(s) \cup {p} /\ Ring(s_procQ'[d], pcb_next', pcb_prev', M)
  BY <1>6, <1>12, <1>13, <1>14, <1>18 DEF At
<1>20. d \in Waiting => s_semAdd[d] = s
  BY <1>8, <1>9 DEF Spare
<1>21. \A q \in Proc : q # p /\ where[q] # s =>
          pcb_next'[q] = pcb_next[q] /\ pcb_prev'[q] = pcb_prev[q]
  BY <1>6, <1>12 DEF At
<1>22. M # {} /\ d \in Waiting' /\ Waiting' \ {d} = Waiting \ {d}
  BY <1>15, <1>19
<1>23. SemaphoreStep(p, s, s, d, M)
  BY <1>1, <1>6, <1>12, <1>14, <1>16, <1>17, <1>18, <1>19, <1>20, <1>21, <1>22
     DEF SemaphoreStep
<1>24. tp = IF d \in Waiting THEN s_procQ[d] ELSE NULL
  BY <1>5, <1>8, <1>9 DEF Spare
<1>25. pcb_next' = insertProcQ(IF d \in Waiting THEN s_procQ[d] ELSE NULL, p).next
  BY <1>6, <1>24 DEF in
<1> QED BY <1>9, <1>14, <1>23, <1>25 DEF BlockStep

LEMMA QueueBlock ==
  ASSUME NEW s \in Sem, NEW p \in Proc, QueueInv, Block(s, p)
  PROVE  QueueInv'
BY BlockIsStep, SemaphoreMove DEF BlockStep

\* removeBlocked and outBlocked: p goes back to its caller, and the descriptor to
\* the stack when p was the last to wait.
TakesOff(s, p) ==
  /\ Active(s)
  /\ takeOff(searchASL(s), outProcQ(s_procQ[s_next[searchASL(s)]], p))
  /\ Returned(p, HELD) /\ pcb_FREE_h' = pcb_FREE_h /\ readyQueue' = readyQueue

TakeOffStep(p, s, d, M) ==
  /\ SemaphoreStep(p, s, HELD, d, M)
  /\ d \in Waiting
  /\ s_procQ'[d] = outProcQ(s_procQ[d], p).tail
  /\ pcb_next' = outProcQ(s_procQ[d], p).next

LEMMA TakeOffIsStep ==
  ASSUME NEW s \in Sem, NEW p \in At(s), QueueInv, TakesOff(s, p)
  PROVE  \E d \in 1 .. MAXPROC : \E M : TakeOffStep(p, s, d, M)
<1> USE DEF TakesOff
<1> DEFINE b == searchASL(s)
<1>1. /\ QueueType /\ AslInv /\ Chain(semdFree_h, s_next, Spare)
      /\ p \in Proc /\ where[p] = s
  BY WaitingRing DEF QueueInv, DescriptorsExact, At
<1>2. PICK d : d = s_next[b]
  OBVIOUS
<1>3. b \in Waiting \cup {semdZero} /\ d \in Waiting /\ s_semAdd[d] = s
  BY <1>1, <1>2, SearchFinds
<1> DEFINE out == outProcQ(s_procQ[d], p)
<1>4. /\ s_procQ' = [s_procQ EXCEPT ![d] = out.tail]
      /\ pcb_next' = out.next /\ pcb_prev' = out.prev
      /\ IF out.tail = NULL
         THEN /\ s_next' = [[s_next EXCEPT ![b] = s_next[d]] EXCEPT ![d] = semdFree_h]
              /\ semdFree_h' = d
              /\ s_semAdd' = [s_semAdd EXCEPT ![d] = NULL]
         ELSE UNCHANGED <<s_next, s_semAdd, semdFree_h>>
      /\ pcb_semAdd' = [pcb_semAdd EXCEPT ![out.found] = NULL]
  BY <1>2 DEF takeOff, freeSemd
<1> HIDE DEF b
<1>5. PICK M0 \in SUBSET Proc : M0 = At(s)
  BY DEF At
<1>6. p \in M0 /\ Ring(s_procQ[d], pcb_next, pcb_prev, M0)
      /\ pcb_next \in [Proc -> Ptr] /\ pcb_prev \in [Proc -> Ptr]
  BY <1>1, <1>3, <1>5, WaitingRing DEF QueueType
<1>7. /\ Ring(out.tail, out.next, out.prev, M0 \ {p})
      /\ \A q \in Proc \ M0 : out.next[q] = pcb_next[q] /\ out.prev[q] = pcb_prev[q]
      /\ out.found = p
      /\ out.tail \in M0 \cup {NULL} /\ (out.tail = NULL <=> M0 = {p})
      /\ out.next \in [Proc -> Ptr] /\ out.prev \in [Proc -> Ptr]
  BY <1>6, RingOut, Zenon
<1> HIDE DEF out
<1>8. d \in 1 .. MAXPROC /\ d \in Semd /\ d \notin Spare
      /\ Spare \subseteq 1 .. MAXPROC /\ 1 .. MAXPROC \subseteq Semd
      /\ NULL \notin Spare /\ d # NULL
  BY <1>3, PcbAssumption DEF Waiting, Spare, Semd
<1>9. /\ s_procQ'[d] = out.tail /\ s_procQ' \in [Semd -> Ptr]
      /\ \A e \in Semd \ {d} : s_procQ'[e] = s_procQ[e]
  BY <1>1, <1>4, <1>7, <1>8 DEF QueueType, Ptr
<1>10. PICK M : M = {q \in Proc : where'[q] = s}
  OBVIOUS
<1>11. M = M0 \ {p} /\ Ring(s_procQ'[d], pcb_next', pcb_prev', M)
  <2>1. s # HELD
    BY PlacesApart
  <2>2. M = At(s) \ {p}
    BY <2>1, <1>1, <1>10, AtReturned
  <2> QED BY <2>2, <1>4, <1>5, <1>7, <1>9
<1>12. \A q \in Proc : q # p /\ where[q] # s =>
          pcb_next'[q] = pcb_next[q] /\ pcb_prev'[q] = pcb_prev[q]
  BY <1>4, <1>5, <1>7 DEF At
<1>13. /\ IF M = {} THEN d \notin Waiting' ELSE d \in Waiting' /\ s_semAdd'[d] = s
       /\ Waiting' \ {d} = Waiting \ {d} /\ Spare' \ {d} = Spare
       /\ \A e \in Waiting \ {d} : s_semAdd'[e] = s_semAdd[e]
       /\ AslInv' /\ Chain(semdFree_h', s_next', Spare')
       /\ s_next' \in [Semd -> Semd \cup {NULL, ZERO}]
       /\ s_semAdd' \in [Semd -> Sem \cup {NULL, 0, MAXINT}]
       /\ semdFree_h' \in 1 .. MAXPROC \cup {NULL}
  <2>1. CASE out.tail = NULL
    <3>1. M = {} /\ d \notin Waiting'
      BY <2>1, <1>7, <1>9, <1>11, NullIsNoBlock DEF Waiting
    <3>2. Waiting' = Waiting \ {d} /\ Spare' = Spare \cup {d}
      BY <3>1, <1>3, <1>8, <1>9 DEF Waiting, Spare
    <3>3. /\ s_next' = [s_next EXCEPT ![b] = s_next[d], ![d] = semdFree_h]
          /\ semdFree_h' = d /\ s_semAdd' = [s_semAdd EXCEPT ![d] = NULL]
      BY <2>1, <1>4
    <3>4. AslInv'
      BY <3>2, <3>3, <1>1, <1>2, <1>3, ListDelete DEF QueueType
    <3>5. b \in Semd /\ b \notin Spare /\ s_next[d] \in Semd
      BY <1>1, <1>3, DummiesApart, PcbAssumption
         DEF AslInv, AslSorted, Spare, semdZero
    <3>6. s_next'[d] = semdFree_h /\ \A x \in Spare : s_next'[x] = s_next[x]
      BY <3>3, <3>5, <1>1, <1>8 DEF QueueType
    <3>7. Chain(d, s_next', Spare \cup {d})
      BY <3>6, <1>1, <1>8, ChainPush
    <3>8. s_next' \in [Semd -> Semd \cup {NULL, ZERO}]
      BY <3>3, <3>5, <1>1, <1>8 DEF QueueType
    <3>9. s_semAdd' \in [Semd -> Sem \cup {NULL, 0, MAXINT}]
          /\ \A e \in Waiting \ {d} : s_semAdd'[e] = s_semAdd[e]
      BY <3>3, <1>1, <1>8, DummiesApart DEF QueueType
    <3> QED BY <3>1, <3>2, <3>3, <3>4, <3>7, <3>8, <3>9, <1>8
  <2>2. CASE out.tail # NULL
    <3>1. M # {} /\ out.tail \in Proc
      BY <2>2, <1>6, <1>7, <1>11
    <3>2. Waiting' = Waiting /\ Spare' = Spare
      BY <3>1, <1>3, <1>8, <1>9 DEF Waiting, Spare
    <3>3. s_next' = s_next /\ s_semAdd' = s_semAdd /\ semdFree_h' = semdFree_h
      BY <2>2, <1>4
    <3>4. AslInv'
      BY <1>1, <3>2, <3>3 DEF AslInv, Dummies, Addresses, AslSorted, semdZero, semdMax
    <3> QED BY <3>1, <3>2, <3>3, <3>4, <1>1, <1>3, <1>8 DEF QueueType
  <2> QED BY <2>1, <2>2
<1>14. \A e \in Waiting \ {d} : /\ s_semAdd'[e] = s_semAdd[e] /\ s_semAdd[e] # s
                                /\ s_procQ'[e] = s_procQ[e]
  <2>1. \A e \in Waiting : s_semAdd[e] = s => e = d
    BY <1>1, <1>3 DEF AslInv, Addresses
  <2> QED BY <2>1, <1>9, <1>13, DummiesApart
<1>15. pcb_semAdd' = [pcb_semAdd EXCEPT ![p] = IF HELD = s THEN s ELSE NULL]
  BY <1>4, <1>7, PlacesApart
<1>16. SemaphoreStep(p, s, HELD, d, M)
  BY <1>1, <1>3, <1>4, <1>7, <1>9, <1>10, <1>11, <1>12, <1>13, <1>14, <1>15
     DEF SemaphoreStep
<1>17. s_procQ'[d] = outProcQ(s_procQ[d], p).tail /\ pcb_next' = outProcQ(s_procQ[d], p).next
  BY <1>4, <1>9 DEF out
<1> QED BY <1>3, <1>8, <1>16, <1>17 DEF TakeOffStep

LEMMA QueueTakeOff ==
  ASSUME NEW s \in Sem, NEW p \in At(s), QueueInv, TakesOff(s, p)
  PROVE  QueueInv'
<1>1. PICK d \in 1 .. MAXPROC : \E M : SemaphoreStep(p, s, HELD, d, M)
  BY TakeOffIsStep DEF TakeOffStep
<1>2. p \in Proc
  BY DEF At
<1> QED BY <1>1, <1>2, SemaphoreMove

LEMMA WakeTakesOff ==
  ASSUME NEW s \in Sem, QueueInv, Wake(s)
  PROVE  \E p \in At(s) : p = headBlocked(s) /\ TakesOff(s, p)
<1>1. PICK d : d = s_next[searchASL(s)]
  OBVIOUS
<1>2. PICK p : p = headProcQ(s_procQ[d])
  OBVIOUS
<1>3. /\ Active(s) /\ takeOff(searchASL(s), outProcQ(s_procQ[d], p))
      /\ Returned(p, HELD) /\ pcb_FREE_h' = pcb_FREE_h /\ readyQueue' = readyQueue
  BY <1>1, <1>2 DEF Wake, removeBlocked, removeProcQ, Active
<1>4. d \in Waiting /\ s_semAdd[d] = s
  BY <1>1, <1>3, WaitingRing, SearchFinds
<1>5. p \in At(s)
  <2>1. At(s) # {} /\ Ring(s_procQ[d], pcb_next, pcb_prev, At(s))
    BY <1>4, WaitingRing
  <2>2. At(s) \in SUBSET Proc
    BY DEF At
  <2> QED BY <2>1, <2>2, <1>2, RingHead
<1> QED BY <1>1, <1>2, <1>3, <1>5 DEF TakesOff, headBlocked

LEMMA QueueWake == ASSUME NEW s \in Sem, QueueInv, Wake(s) PROVE QueueInv'
BY WakeTakesOff, QueueTakeOff

LEMMA UnblockTakesOff ==
  ASSUME NEW p \in Proc, QueueInv, Unblock(p)
  PROVE  \E s \in Sem : p \in At(s) /\ TakesOff(s, p)
<1>1. PICK s : s = pcb_semAdd[p]
  OBVIOUS
<1>2. /\ where[p] # FREE /\ s_semAdd[s_next[searchASL(s)]] = s
      /\ takeOff(searchASL(s), outProcQ(s_procQ[s_next[searchASL(s)]], p))
      /\ Returned(p, HELD) /\ pcb_FREE_h' = pcb_FREE_h /\ readyQueue' = readyQueue
  BY <1>1 DEF Unblock, outBlocked
<1>3. s = IF where[p] \in Sem THEN where[p] ELSE NULL
  BY <1>1, <1>2 DEF QueueInv, DescriptorsExact
<1>4. s # NULL
  BY <1>2, WaitingRing, SearchForNull
<1>5. s \in Sem /\ p \in At(s)
  BY <1>3, <1>4 DEF At
<1> QED BY <1>2, <1>5 DEF Active, TakesOff

LEMMA QueueUnblock == ASSUME NEW p \in Proc, QueueInv, Unblock(p) PROVE QueueInv'
BY UnblockTakesOff, QueueTakeOff

\* Initially every block is in the pool, and every descriptor on its stack.
LEMMA StackOfAll ==
  ASSUME NEW next, \A x \in Proc : next[x] = IF x = 1 THEN NULL ELSE x - 1
  PROVE  Chain(MAXPROC, next, Proc)
<1>1. MAXPROC \in Nat /\ MAXPROC > 0 /\ NULL \notin Int /\ Proc = 1 .. MAXPROC
  BY PcbAssumption DEF Proc
<1>2. /\ \A x \in Proc : next[x] \in Proc \cup {NULL} /\ next[x] # MAXPROC
      /\ \A x, y \in Proc : next[x] = next[y] /\ next[x] # NULL => x = y
  BY <1>1
<1>3. ASSUME NEW S \in SUBSET Proc, MAXPROC \in S,
             \A x \in S : next[x] # NULL => next[x] \in S
      PROVE  S = Proc
  <2>1. SUFFICES ASSUME NEW z \in Proc, z \notin S PROVE FALSE
    OBVIOUS
  <2> DEFINE Above == {x \in Proc : z < x /\ x \in S}
             f == [x \in Above |-> x - 1]
  <2>2. \A x \in S : x > 1 => x - 1 \in S
    BY <1>1, <1>3
  <2>3. MAXPROC \in Above
    BY <1>1, <1>3, <2>1
  <2>4. \A x \in Above : x - 1 \in Above
    BY <1>1, <2>1, <2>2
  <2>5. IsFiniteSet(Above)
    BY <1>1, FS_Interval, FS_Subset
  <2>6. Above \subseteq Int /\ \A x \in Above : x <= MAXPROC
    BY <1>1
  <2> HIDE DEF Above
  <2>7. f \in Injection(Above, Above)
    <3>1. f \in [Above -> Above]
      BY <2>4
    <3>2. \A x, y \in Above : f[x] = f[y] => x = y
      BY <2>6
    <3> QED BY <3>1, <3>2 DEF Injection, IsInjective
  <2>8. f \in Surjection(Above, Above)
    BY <2>5, <2>7, FS_Injection
  <2>9. PICK x \in Above : f[x] = MAXPROC
    BY <2>3, <2>8 DEF Surjection
  <2> QED BY <2>6, <2>9, <1>1
<1> QED BY <1>1, <1>2, <1>3 DEF Chain

LEMMA QueueInit == Init => QueueInv
<1> SUFFICES ASSUME Init PROVE QueueInv
  OBVIOUS
<1>1. /\ pcb_FREE_h = MAXPROC
      /\ pcb_next = [p \in Proc |-> IF p = 1 THEN NULL ELSE p - 1]
      /\ pcb_prev = [p \in Proc |-> ZERO]
      /\ semdFree_h = MAXPROC
      /\ s_next = [d \in Semd |-> IF d = semdZero THEN semdMax
                                  ELSE IF d = 1 THEN NULL
                                  ELSE IF d = semdMax THEN ZERO ELSE d - 1]
      /\ s_semAdd = [d \in Semd |-> IF d = semdMax THEN MAXINT ELSE 0]
      /\ s_procQ = [d \in Semd |-> IF d \in {semdZero, semdMax} THEN NULL ELSE ZERO]
      /\ pcb_semAdd = [p \in Proc |-> ZERO]
      /\ readyQueue = NULL /\ where = [p \in Proc |-> FREE]
  BY DEF Init, initPcbs, initASL
<1>2. /\ MAXPROC \in Nat /\ MAXPROC > 0 /\ NULL \notin Int
      /\ Proc = 1 .. MAXPROC /\ Semd = 1 .. (MAXPROC + 2)
      /\ semdZero = MAXPROC + 1 /\ semdMax = MAXPROC + 2 /\ ZERO = 0
      /\ MAXINT \in Int /\ 0 < MAXINT
  BY PcbAssumption, AslAssumption DEF Proc, Semd, semdZero, semdMax, ZERO
<1>3. \A d \in 1 .. MAXPROC : s_procQ[d] = ZERO
  BY <1>1, <1>2
<1>4. Waiting = {} /\ Spare = Proc
  BY <1>2, <1>3, NullIsNoBlock DEF Waiting, Spare
<1>5. QueueType
  <2>1. \A x \in Proc : x # 1 => x - 1 \in Proc
    BY <1>2
  <2>2. \A d \in Semd : d # 1 => d - 1 \in Semd
    BY <1>2
  <2>3. MAXPROC \in Proc /\ Proc \subseteq Semd /\ semdMax \in Semd
    BY <1>2
  <2>4. s_next \in [Semd -> Semd \cup {NULL, ZERO}]
    BY <1>1, <2>2, <2>3
  <2>5. pcb_next \in [Proc -> Ptr]
    BY <1>1, <2>1 DEF Ptr
  <2> QED BY <1>1, <1>2, <2>3, <2>4, <2>5 DEF QueueType, Ptr
<1>6. At(FREE) = Proc /\ At(READY) = {}
  BY <1>1, PlacesApart DEF At
<1>7. FreeStackExact
  BY <1>1, <1>6, StackOfAll DEF FreeStackExact
<1>8. QueuesAreRings
  BY <1>1, <1>4, <1>6 DEF QueuesAreRings, Ring
<1>9. Dummies /\ AslSorted
  BY <1>1, <1>2, <1>4 DEF Dummies, AslSorted
<1>10. DescriptorsExact
  <2>1. \A x \in Proc : s_next[x] = IF x = 1 THEN NULL ELSE x - 1
    BY <1>1, <1>2
  <2>2. Chain(semdFree_h, s_next, Spare)
    BY <2>1, <1>1, <1>4, StackOfAll
  <2>3. \A q \in Proc : where[q] = FREE /\ where[q] \notin Sem
    BY <1>1, PlacesApart
  <2> QED BY <2>2, <2>3, <1>4 DEF DescriptorsExact
<1> QED BY <1>5, <1>7, <1>8, <1>9, <1>10 DEF QueueInv

LEMMA QueueNext == QueueInv /\ [Next]_vars => QueueInv'
<1> SUFFICES ASSUME QueueInv, [Next]_vars PROVE QueueInv'
  OBVIOUS
<1>1. CASE Alloc
  BY <1>1, QueueAlloc
<1>2. ASSUME NEW p \in Proc, Free(p) PROVE QueueInv'
  BY <1>2, QueueFree
<1>3. CASE Queues
  <2>1. CASE Remove
    BY <2>1, QueueTook DEF Remove, removeProcQ
  <2>2. ASSUME NEW p \in Proc, Insert(p) PROVE QueueInv'
    BY <2>2, QueueInsert
  <2>3. ASSUME NEW p \in Proc, Out(p) PROVE QueueInv'
    BY <2>3, QueueTook DEF Out
  <2>4. ASSUME NEW p \in Proc, Unblock(p) PROVE QueueInv'
    BY <2>4, QueueUnblock
  <2>5. ASSUME NEW s \in Sem, Wake(s) PROVE QueueInv'
    BY <2>5, QueueWake
  <2>6. ASSUME NEW s \in Sem, NEW p \in Proc, Block(s, p) PROVE QueueInv'
    BY <2>6, QueueBlock
  <2> QED BY <1>3, <2>1, <2>2, <2>3, <2>4, <2>5, <2>6 DEF Queues
<1>4. CASE Tree
  <2>1. UNCHANGED <<pcb_FREE_h, pcb_next, pcb_prev, aslVars, pcb_semAdd, readyQueue, where>>
    BY <1>4 DEF Tree, Adopt, OutChild, RemoveChild, removeChild, insertChild, outChild,
       linkVars
  <2> QED BY <2>1, QueueStutter
<1>5. CASE UNCHANGED vars
  BY <1>5, QueueStutter DEF vars, linkVars
<1> QED BY <1>1, <1>2, <1>3, <1>4, <1>5 DEF Next

\* QueueInv always holds.
THEOREM QueueInvariance == Spec => []QueueInv
BY QueueInit, QueueNext, PTL DEF Spec

\* The pool is one stack of exactly the blocks that are nobody's: none is lost,
\* none is handed out twice.
THEOREM FreeStackExactCorrect == Spec => []FreeStackExact
<1>1. QueueInv => FreeStackExact
  BY DEF QueueInv
<1> QED BY <1>1, QueueInvariance, PTL

\* The ready queue and every semaphore's queue are rings over the blocks their
\* callers put there, so that outProcQ's search always ends.
THEOREM QueuesAreRingsCorrect == Spec => []QueuesAreRings
<1>1. QueueInv => QueuesAreRings
  BY DEF QueueInv
<1> QED BY <1>1, QueueInvariance, PTL

\* The active list is strictly sorted from dummy to dummy, whichever semaphore
\* gets or loses its descriptor.
THEOREM AslSortedCorrect == Spec => []AslSorted
<1>1. QueueInv => AslSorted
  BY DEF QueueInv
<1> QED BY <1>1, QueueInvariance, PTL

\* A semaphore has a descriptor exactly while a process waits on it, and every
\* other descriptor is on the free stack.
THEOREM DescriptorsExactCorrect == Spec => []DescriptorsExact
<1>1. QueueInv => DescriptorsExact
  BY DEF QueueInv
<1> QED BY <1>1, QueueInvariance, PTL

\* insertBlocked never has to refuse: as long as the caller holds a block, fewer
\* semaphores than there are descriptors have somebody waiting.
DescriptorLeft ==
  \A s \in Sem, p \in At(HELD) : Active(s) \/ semdFree_h \in Spare

THEOREM DescriptorLeftCorrect == Spec => []DescriptorLeft
<1>1. ASSUME QueueInv PROVE DescriptorLeft
  <2>1. SUFFICES ASSUME NEW p \in At(HELD) PROVE semdFree_h \in Spare
    BY DEF DescriptorLeft
  <2>2. Chain(semdFree_h, s_next, Spare) /\ NULL \notin Spare
    BY <1>1, PcbAssumption DEF QueueInv, DescriptorsExact, Spare
  <2>3. Spare # {}
    <3>1. SUFFICES ASSUME Spare = {} PROVE FALSE
      OBVIOUS
    <3>2. Waiting = Proc
      BY <3>1 DEF Spare, Waiting, Proc
    <3> DEFINE f == [d \in Proc |-> CHOOSE q \in Proc : where[q] = s_semAdd[d]]
    <3>3. \A d \in Proc : f[d] \in Proc /\ where[f[d]] = s_semAdd[d] /\ s_semAdd[d] \in Sem
      <4>1. \A d \in Proc : s_semAdd[d] \in Sem /\ \E q \in Proc : where[q] = s_semAdd[d]
        BY <1>1, <3>2, WaitingRing DEF At
      <4> QED BY <4>1
    <3>4. \A d, e \in Proc : f[d] = f[e] => d = e
      BY <1>1, <3>2, <3>3 DEF QueueInv, DescriptorsExact
    <3>5. f \in Injection(Proc, Proc)
      BY <3>3, <3>4 DEF Injection, IsInjective
    <3>6. IsFiniteSet(Proc)
      BY PcbAssumption, FS_Interval DEF Proc
    <3>7. f \in Surjection(Proc, Proc)
      BY <3>5, <3>6, FS_Injection
    <3> HIDE DEF f
    <3>8. PICK d \in Proc : f[d] = p
      BY <3>7 DEF Surjection, At
    <3>9. where[p] \in Sem /\ where[p] = HELD
      BY <3>3, <3>8 DEF At
    <3> QED BY <3>9, PlacesApart
  <2> QED BY <2>2, <2>3, ChainTop
<1> QED BY <1>1, QueueInvariance, PTL

-----------------------------------------------------------------------------
(***************************************************************************)
(* The families.                                                           *)
(***************************************************************************)

\* C is one list from top, linked both ways: SiblingsLinked for one parent.
Family(top, next, prev, C) ==
  /\ IF C = {} THEN top \in {NULL, ZERO} ELSE Chain(top, next, C)
  /\ \A p \in C : IF p = top THEN prev[p] = NULL
                  ELSE prev[p] \in C /\ next[prev[p]] = p

LEMMA FamilySame ==
  ASSUME NEW C \in SUBSET Proc, NEW top, NEW next, NEW prev, NEW next2, NEW prev2,
         Family(top, next, prev, C),
         \A x \in C : next2[x] = next[x] /\ prev2[x] = prev[x]
  PROVE  Family(top, next2, prev2, C)
<1>1. C # {} => Chain(top, next2, C)
  BY NullIsNoBlock, ChainSame DEF Family
<1>2. \A p \in C : IF p = top THEN prev2[p] = NULL
                   ELSE prev2[p] \in C /\ next2[prev2[p]] = p
  BY DEF Family
<1> QED BY <1>1, <1>2 DEF Family

\* insertChild: a new first child.
LEMMA FamilyAdd ==
  ASSUME NEW C \in SUBSET Proc, NEW p \in Proc \ C, NEW top, top # ZERO,
         NEW next, NEW prev, NEW next2, NEW prev2, Family(top, next, prev, C),
         next2[p] = top, prev2[p] = NULL,
         \A x \in C : /\ next2[x] = next[x]
                      /\ prev2[x] = IF x = top THEN p ELSE prev[x]
  PROVE  Family(p, next2, prev2, C \cup {p})
<1>1. Chain(top, next, C) /\ NULL \notin C /\ p # NULL
  <2>1. C = {} => Chain(NULL, next, C) /\ top = NULL
    BY DEF Chain, Family
  <2> QED BY <2>1, NullIsNoBlock DEF Family
<1>2. Chain(p, next2, C \cup {p})
  BY <1>1, ChainPush
<1>3. \A x \in C : prev2[x] \in C \cup {p} /\ next2[prev2[x]] = x
  BY DEF Family
<1> QED BY <1>2, <1>3 DEF Family

\* The first child goes: the next one, if any, becomes the first.
LEMMA FamilyFirst ==
  ASSUME NEW C \in SUBSET Proc, NEW p \in C, NEW next, NEW prev, NEW next2, NEW prev2,
         Family(p, next, prev, C),
         \A x \in C \ {p} : /\ next2[x] = next[x]
                            /\ prev2[x] = IF x = next[p] THEN NULL ELSE prev[x]
  PROVE  Family(next[p], next2, prev2, C \ {p})
<1>1. Chain(p, next, C) /\ NULL \notin C /\ p # NULL
  BY NullIsNoBlock DEF Family
<1>2. Chain(next[p], next2, C \ {p})
  BY <1>1, ChainPop
<1>3. C \ {p} = {} => next[p] = NULL
  BY <1>1, <1>2, ChainTop
<1>4. ASSUME NEW x \in C \ {p}, x # next[p]
      PROVE  prev2[x] \in C \ {p} /\ next2[prev2[x]] = x
  <2>1. prev2[x] = prev[x] /\ prev[x] \in C /\ next[prev[x]] = x
    BY <1>4 DEF Family
  <2> QED BY <2>1, <1>4
<1> QED BY <1>2, <1>3, <1>4 DEF Family

\* Another child goes: its two neighbours, or the one it has, are linked.
LEMMA FamilyLater ==
  ASSUME NEW C \in SUBSET Proc, NEW p \in C, NEW top, p # top,
         NEW next, NEW prev, NEW next2, NEW prev2, Family(top, next, prev, C),
         \A x \in C \ {p} : /\ next2[x] = IF x = prev[p] THEN next[p] ELSE next[x]
                            /\ prev2[x] = IF x = next[p] THEN prev[p] ELSE prev[x]
  PROVE  Family(top, next2, prev2, C \ {p})
<1>1. Chain(top, next, C) /\ NULL \notin C /\ p # NULL
  BY NullIsNoBlock DEF Family
<1>2. PICK b \in C : b = prev[p] /\ next[b] = p
  BY DEF Family
<1>3. top \in C \ {p}
  BY <1>1, ChainTop
<1>4. b # p
  BY <1>1, <1>2, ChainNoLoop
<1>5. Chain(top, next2, C \ {p})
  <2>1. /\ next[b] # NULL /\ next2[b] = next[next[b]]
        /\ \A x \in C \ {b, next[b]} : next2[x] = next[x]
    BY <1>1, <1>2, <1>4
  <2> QED BY <2>1, <1>1, <1>2, ChainRemove
<1>6. ASSUME NEW x \in C \ {p}
      PROVE  IF x = top THEN prev2[x] = NULL
             ELSE prev2[x] \in C \ {p} /\ next2[prev2[x]] = x
  <2>1. CASE x = next[p]
    BY <2>1, <1>1, <1>2, <1>3, <1>4 DEF Chain
  <2>2. CASE x # next[p] /\ x = top
    BY <2>2 DEF Family
  <2>3. CASE x # next[p] /\ x # top
    <3>1. prev2[x] = prev[x] /\ prev[x] \in C /\ next[prev[x]] = x
      BY <2>3 DEF Family
    <3>2. prev[x] # p /\ prev[x] # b
      BY <3>1, <2>3, <1>2
    <3> QED BY <3>1, <3>2, <2>3, <1>2
  <2> QED BY <2>1, <2>2, <2>3
<1> QED BY <1>3, <1>5, <1>6 DEF Family

TreeType ==
  /\ pcb_child \in [Proc -> Ptr] /\ pcb_parent \in [Proc -> Ptr]
  /\ pcb_prevSib \in [Proc -> Ptr] /\ pcb_nextSib \in [Proc -> Ptr]

\* A free block is in no family; one that never had a parent keeps no stale link
\* that outChild could take for a sibling.
OutsideFamilies ==
  \A p \in Proc :
     IF where[p] = FREE THEN pcb_parent[p] \notin Proc /\ Children(p) = {}
     ELSE pcb_child[p] # ZERO /\ (pcb_parent[p] = ZERO => pcb_prevSib[p] = NULL)

TreeInv == TreeType /\ SiblingsLinked /\ OutsideFamilies

LEMMA SiblingsAreFamilies ==
  SiblingsLinked <=>
    \A r \in Proc : Family(pcb_child[r], pcb_nextSib, pcb_prevSib, Children(r))
BY DEF SiblingsLinked, Family

LEMMA SiblingsAreFamiliesNext ==
  SiblingsLinked' <=>
    \A r \in Proc : Family(pcb_child'[r], pcb_nextSib', pcb_prevSib',
                           {p \in Proc : pcb_parent'[p] = r})
BY DEF SiblingsLinked, Family, Children, Chain

\* A call that leaves the tree alone and neither allocates nor frees.
LEMMA TreeStutter ==
  ASSUME TreeInv, UNCHANGED treeVars,
         \A p \in Proc : where'[p] = FREE <=> where[p] = FREE
  PROVE  TreeInv'
<1>1. /\ pcb_child' = pcb_child /\ pcb_parent' = pcb_parent
      /\ pcb_prevSib' = pcb_prevSib /\ pcb_nextSib' = pcb_nextSib
      /\ \A r : Children(r)' = Children(r)
  BY DEF treeVars, Children
<1>2. TreeType' /\ OutsideFamilies'
  BY <1>1 DEF TreeInv, TreeType, OutsideFamilies
<1>3. SiblingsLinked'
  BY <1>1, SiblingsAreFamilies, SiblingsAreFamiliesNext DEF TreeInv, Children
<1> QED BY <1>2, <1>3 DEF TreeInv

\* What comes off the ready queue was on it.
LEMMA TookKeepsFree ==
  ASSUME NEW p, QueueInv, TookReady(outProcQ(readyQueue, p))
  PROVE  \A q \in Proc : where'[q] = FREE <=> where[q] = FREE
<1>1. PICK M \in SUBSET Proc : M = At(READY)
  BY DEF At
<1>2. PICK x : x = outProcQ(readyQueue, p).found
  OBVIOUS
<1>3. x = NULL \/ (x = p /\ p \in M)
  <2>1. Ring(readyQueue, pcb_next, pcb_prev, M)
    BY <1>1 DEF QueueInv, QueuesAreRings
  <2>2. OnQueue(readyQueue, p) <=> p \in M
    BY <2>1, RingFound
  <2> QED BY <2>2, <1>2 DEF outProcQ
<1>4. \A q \in Proc : where'[q] = IF q = x THEN HELD ELSE where[q]
  BY <1>2 DEF TookReady, Returned
<1> QED BY <1>1, <1>3, <1>4, NullIsNoBlock, PlacesApart DEF At

\* Calls on queues move allocated blocks only.
LEMMA QueuesKeepFree ==
  ASSUME QueueInv, Queues
  PROVE  UNCHANGED treeVars /\ \A p \in Proc : where'[p] = FREE <=> where[p] = FREE
<1>1. UNCHANGED treeVars
  BY DEF Queues, Remove, Insert, Out, TookReady, Unblock, Wake, Block
<1>3. CASE Remove
  BY <1>1, <1>3, TookKeepsFree DEF Remove, removeProcQ
<1>4. ASSUME NEW p \in Proc, Insert(p) \/ Unblock(p)
      PROVE  \A q \in Proc : where'[q] = FREE <=> where[q] = FREE
  BY <1>4, PlacesApart DEF Insert, Unblock, Returned
<1>5. ASSUME NEW p \in Proc, Out(p)
      PROVE  \A q \in Proc : where'[q] = FREE <=> where[q] = FREE
  BY <1>5, TookKeepsFree DEF Out
<1>6. ASSUME NEW s \in Sem, NEW p \in Proc, Block(s, p)
      PROVE  \A q \in Proc : where'[q] = FREE <=> where[q] = FREE
  BY <1>6, PlacesApart DEF Block, Returned
<1>7. ASSUME NEW s \in Sem, Wake(s)
      PROVE  \A q \in Proc : where'[q] = FREE <=> where[q] = FREE
  <2>1. PICK d : d = s_next[searchASL(s)]
    OBVIOUS
  <2>2. Active(s) /\ Returned(headProcQ(s_procQ[d]), HELD)
    BY <1>7, <2>1 DEF Wake, removeBlocked, Active
  <2>3. d \in Waiting /\ s_semAdd[d] = s
    BY <2>1, <2>2, WaitingRing, SearchFinds
  <2>4. PICK M \in SUBSET Proc : M = At(s)
    BY DEF At
  <2>5. M # {} /\ Ring(s_procQ[d], pcb_next, pcb_prev, M)
    BY <2>3, <2>4, WaitingRing
  <2>6. headProcQ(s_procQ[d]) \in M
    BY <2>5, RingHead
  <2> QED BY <2>2, <2>4, <2>6, PlacesApart DEF At, Returned
<1> QED BY <1>1, <1>3, <1>4, <1>5, <1>6, <1>7 DEF Queues

LEMMA TreeAlloc == QueueInv /\ TreeInv /\ Alloc => TreeInv'
<1> SUFFICES ASSUME QueueInv, TreeInv, Alloc PROVE TreeInv'
  OBVIOUS
<1>1. PICK p \in Proc : allocPcb(p) /\ Returned(p, HELD)
  BY DEF Alloc
<1>2. /\ pcb_child' = [pcb_child EXCEPT ![p] = NULL]
      /\ pcb_prevSib' = [pcb_prevSib EXCEPT ![p] = NULL]
      /\ pcb_nextSib' = [pcb_nextSib EXCEPT ![p] = NULL]
      /\ pcb_parent' = pcb_parent
      /\ \A q \in Proc : where'[q] = IF q = p THEN HELD ELSE where[q]
  BY <1>1 DEF allocPcb, Returned
<1>3. where[p] = FREE
  <2>1. Chain(pcb_FREE_h, pcb_next, At(FREE)) /\ pcb_FREE_h = p
    BY <1>1 DEF QueueInv, FreeStackExact, allocPcb
  <2> QED BY <2>1, NullIsNoBlock DEF Chain, At
<1>4. pcb_parent[p] \notin Proc /\ Children(p) = {}
  BY <1>3 DEF TreeInv, OutsideFamilies
<1>5. TreeType /\ \A r \in Proc : Family(pcb_child[r], pcb_nextSib, pcb_prevSib, Children(r))
  BY SiblingsAreFamilies DEF TreeInv
<1>6. /\ pcb_child'[p] = NULL /\ pcb_prevSib'[p] = NULL
      /\ \A q \in Proc \ {p} : /\ pcb_child'[q] = pcb_child[q]
                               /\ pcb_prevSib'[q] = pcb_prevSib[q]
                               /\ pcb_nextSib'[q] = pcb_nextSib[q]
  BY <1>2, <1>5 DEF TreeType
<1>7. TreeType'
  BY <1>2, <1>5 DEF TreeType, Ptr
<1>8. ASSUME NEW r \in Proc
      PROVE  Family(pcb_child'[r], pcb_nextSib', pcb_prevSib',
                    {q \in Proc : pcb_parent'[q] = r})
  <2>1. PICK C \in SUBSET Proc : C = Children(r) /\ C = {q \in Proc : pcb_parent'[q] = r}
    BY <1>2 DEF Children
  <2>2. p \notin C
    BY <2>1, <1>4 DEF Children
  <2>3. Family(pcb_child[r], pcb_nextSib, pcb_prevSib, C)
    BY <2>1, <1>5
  <2>4. Family(pcb_child[r], pcb_nextSib', pcb_prevSib', C)
    BY <2>2, <2>3, <1>6, FamilySame
  <2>5. CASE r = p
    BY <2>1, <2>5, <1>4, <1>6 DEF Family
  <2>6. CASE r # p
    BY <2>1, <2>4, <2>6, <1>6
  <2> QED BY <2>5, <2>6
<1>9. OutsideFamilies'
  <2>1. \A q : Children(q)' = Children(q)
    BY <1>2 DEF Children
  <2>2. NULL # ZERO /\ HELD # FREE
    BY PcbAssumption, PlacesApart DEF ZERO
  <2> QED BY <2>1, <2>2, <1>2, <1>6 DEF TreeInv, OutsideFamilies
<1> QED BY <1>7, <1>8, <1>9, SiblingsAreFamiliesNext DEF TreeInv

LEMMA TreeFree == ASSUME NEW p \in Proc, TreeInv, Free(p) PROVE TreeInv'
<1>1. /\ where[p] # FREE /\ pcb_child[p] = NULL /\ pcb_parent[p] \notin Proc
      /\ UNCHANGED treeVars
      /\ \A q \in Proc : where'[q] = IF q = p THEN FREE ELSE where[q]
  BY PlacesApart DEF Free, Alone, freePcb, Returned
<1>2. /\ pcb_child' = pcb_child /\ pcb_parent' = pcb_parent
      /\ pcb_prevSib' = pcb_prevSib /\ pcb_nextSib' = pcb_nextSib
      /\ \A r : Children(r)' = Children(r)
  BY <1>1 DEF treeVars, Children
<1>3. Children(p) = {}
  <2>1. SUFFICES ASSUME Children(p) # {} PROVE FALSE
    OBVIOUS
  <2>2. Chain(NULL, pcb_nextSib, Children(p)) /\ NULL \notin Children(p)
    BY <1>1, <2>1, NullIsNoBlock DEF TreeInv, SiblingsLinked, Children
  <2> QED BY <2>1, <2>2, ChainTop
<1>4. TreeType'
  BY <1>2 DEF TreeInv, TreeType
<1>5. SiblingsLinked'
  BY <1>2, SiblingsAreFamilies, SiblingsAreFamiliesNext DEF TreeInv, Children
<1>6. OutsideFamilies'
  BY <1>1, <1>2, <1>3 DEF TreeInv, OutsideFamilies
<1> QED BY <1>4, <1>5, <1>6 DEF TreeInv

LEMMA TreeAdopt ==
  ASSUME NEW r \in Proc, NEW p \in Proc, TreeInv, Adopt(r, p)
  PROVE  TreeInv'
<1>1. PICK top : top = pcb_child[r]
  OBVIOUS
<1>2. /\ r # p /\ where[r] # FREE /\ where[p] # FREE
      /\ pcb_child[p] = NULL /\ pcb_parent[p] \notin Proc
      /\ pcb_child' = [pcb_child EXCEPT ![r] = p]
      /\ pcb_parent' = [pcb_parent EXCEPT ![p] = r]
      /\ pcb_nextSib' = [pcb_nextSib EXCEPT ![p] = top]
      /\ where' = where
      /\ pcb_prevSib' = [IF top = NULL THEN pcb_prevSib
                         ELSE [pcb_prevSib EXCEPT ![top] = p] EXCEPT ![p] = NULL]
  BY <1>1 DEF Adopt, Alone, insertChild
<1>3. TreeType /\ \A q \in Proc : Family(pcb_child[q], pcb_nextSib, pcb_prevSib, Children(q))
  BY SiblingsAreFamilies DEF TreeInv
<1>4. top # ZERO /\ top \in Children(r) \cup {NULL} /\ top \in Ptr
  <2>1. top # ZERO
    BY <1>1, <1>2 DEF TreeInv, OutsideFamilies
  <2>2. top \in Children(r) \cup {NULL}
    BY <1>1, <1>3, <2>1 DEF Family, Chain
  <2> QED BY <1>1, <1>3, <2>1, <2>2 DEF TreeType
<1>5. /\ pcb_child'[r] = p /\ \A q \in Proc \ {r} : pcb_child'[q] = pcb_child[q]
      /\ pcb_parent'[p] = r /\ \A q \in Proc \ {p} : pcb_parent'[q] = pcb_parent[q]
      /\ pcb_nextSib'[p] = top /\ \A q \in Proc \ {p} : pcb_nextSib'[q] = pcb_nextSib[q]
  BY <1>2, <1>3 DEF TreeType
<1>6. /\ pcb_prevSib'[p] = NULL /\ pcb_prevSib' \in [Proc -> Ptr]
      /\ \A q \in Proc \ {p} : pcb_prevSib'[q] = IF q = top THEN p ELSE pcb_prevSib[q]
  <2>1. PICK shifted : shifted = IF top = NULL THEN pcb_prevSib
                                 ELSE [pcb_prevSib EXCEPT ![top] = p]
    OBVIOUS
  <2>2. /\ shifted \in [Proc -> Ptr]
        /\ \A q \in Proc : shifted[q] = IF q = top THEN p ELSE pcb_prevSib[q]
    BY <1>3, <1>4, <2>1, NullIsNoBlock DEF TreeType, Ptr, Children
  <2>3. pcb_prevSib' = [shifted EXCEPT ![p] = NULL]
    BY <1>2, <2>1
  <2> QED BY <2>2, <2>3 DEF Ptr
<1>7. TreeType'
  BY <1>2, <1>3, <1>4, <1>6 DEF TreeType, Ptr
<1>8. ASSUME NEW q \in Proc
      PROVE  Family(pcb_child'[q], pcb_nextSib', pcb_prevSib',
                    {x \in Proc : pcb_parent'[x] = q})
  <2>1. PICK C \in SUBSET Proc : C = Children(q)
    BY DEF Children
  <2>2. p \notin C /\ Family(pcb_child[q], pcb_nextSib, pcb_prevSib, C)
    BY <1>2, <1>3, <2>1 DEF Children
  <2>3. CASE q = r
    <3>1. \A x \in C : /\ pcb_nextSib'[x] = pcb_nextSib[x]
                       /\ pcb_prevSib'[x] = IF x = top THEN p ELSE pcb_prevSib[x]
      BY <1>5, <1>6, <2>2
    <3>2. Family(p, pcb_nextSib', pcb_prevSib', C \cup {p})
      BY <1>1, <1>4, <1>5, <1>6, <2>2, <2>3, <3>1, FamilyAdd
    <3>3. {x \in Proc : pcb_parent'[x] = q} = C \cup {p}
      BY <1>5, <2>1, <2>3 DEF Children
    <3> QED BY <1>5, <2>3, <3>2, <3>3
  <2>4. CASE q # r
    <3>1. top \notin C
      BY <1>4, <2>1, <2>4, NullIsNoBlock DEF Children
    <3>2. \A x \in C : /\ pcb_nextSib'[x] = pcb_nextSib[x]
                       /\ pcb_prevSib'[x] = pcb_prevSib[x]
      BY <1>5, <1>6, <2>2, <3>1
    <3>3. Family(pcb_child[q], pcb_nextSib', pcb_prevSib', C)
      BY <2>2, <3>2, FamilySame
    <3>4. {x \in Proc : pcb_parent'[x] = q} = C
      BY <1>2, <1>5, <2>1, <2>4 DEF Children
    <3> QED BY <1>5, <2>4, <3>3, <3>4
  <2> QED BY <2>3, <2>4
<1>9. OutsideFamilies'
  <2>1. ASSUME NEW q \in Proc, where[q] = FREE
        PROVE  pcb_parent'[q] \notin Proc /\ Children(q)' = {}
    <3>1. q # p /\ q # r /\ pcb_parent[q] \notin Proc /\ Children(q) = {}
      BY <1>2, <2>1 DEF TreeInv, OutsideFamilies
    <3> QED BY <1>5, <3>1 DEF Children
  <2>2. ASSUME NEW q \in Proc, where[q] # FREE
        PROVE  pcb_child'[q] # ZERO /\ (pcb_parent'[q] = ZERO => pcb_prevSib'[q] = NULL)
    <3>1. pcb_child[q] # ZERO /\ (pcb_parent[q] = ZERO => pcb_prevSib[q] = NULL)
      BY <2>2 DEF TreeInv, OutsideFamilies
    <3>2. pcb_child'[q] # ZERO
      BY <1>5, <3>1, NullIsNoBlock
    <3>3. q = top => pcb_parent[q] = r
      BY <1>4, NullIsNoBlock DEF Children
    <3> QED BY <1>5, <1>6, <3>1, <3>2, <3>3, NullIsNoBlock
  <2> QED BY <2>1, <2>2, <1>2 DEF OutsideFamilies
<1> QED BY <1>7, <1>8, <1>9, SiblingsAreFamiliesNext DEF TreeInv

LEMMA OutOfNoFamily ==
  ASSUME NEW p \in Proc \cup {NULL}, ~(p \in Proc /\ pcb_parent[p] \in Proc),
         TreeInv, outChild(p), p \in Proc => where[p] # FREE
  PROVE  UNCHANGED treeVars
<1>1. p \in Proc => pcb_parent[p] \in {NULL, ZERO}
                    /\ (pcb_parent[p] = ZERO => pcb_prevSib[p] = NULL)
  BY DEF TreeInv, TreeType, OutsideFamilies, Ptr
<1>2. ~(p # NULL /\ IsChild(p))
  BY <1>1 DEF IsChild, FirstChild, MiddleChild, LastChild
<1> QED BY <1>2 DEF outChild

\* What outChild does to p, child of r, whose children are C, the first of them
\* top; n and b are its neighbours.
UnlinkStep(p, r, C, top, n, b) ==
  /\ r = pcb_parent[p] /\ C = Children(r) /\ top = pcb_child[r]
  /\ n = pcb_nextSib[p] /\ b = pcb_prevSib[p] /\ p \in C
  /\ Chain(top, pcb_nextSib, C) /\ top \in C
  /\ IF p = top THEN b = NULL ELSE b \in C /\ pcb_nextSib[b] = p
  /\ n \in C \cup {NULL} /\ n # p /\ NULL \notin C
  /\ pcb_child' = [pcb_child EXCEPT ![r] = IF p = top THEN n ELSE top]
  /\ pcb_nextSib' = IF b = NULL THEN pcb_nextSib ELSE [pcb_nextSib EXCEPT ![b] = n]
  /\ pcb_prevSib' = IF n = NULL THEN pcb_prevSib ELSE [pcb_prevSib EXCEPT ![n] = b]
  /\ pcb_parent' = [pcb_parent EXCEPT ![p] = NULL]

LEMMA UnlinkIsStep ==
  ASSUME NEW p \in Proc, pcb_parent[p] \in Proc, TreeInv, outChild(p)
  PROVE  \E r \in Proc : \E C \in SUBSET Proc : \E top, n, b :
           UnlinkStep(p, r, C, top, n, b)
<1>1. PICK r \in Proc : r = pcb_parent[p]
  OBVIOUS
<1>2. PICK C \in SUBSET Proc : C = Children(r)
  BY DEF Children
<1>3. PICK top : top = pcb_child[r]
  OBVIOUS
<1>4. PICK n : n = pcb_nextSib[p]
  OBVIOUS
<1>5. PICK b : b = pcb_prevSib[p]
  OBVIOUS
<1>6. p \in C /\ p \in Proc /\ TreeType
      /\ \A q \in Proc : Family(pcb_child[q], pcb_nextSib, pcb_prevSib, Children(q))
  BY <1>1, <1>2, SiblingsAreFamilies DEF TreeInv, Children
<1>7. /\ Chain(top, pcb_nextSib, C) /\ top \in C
      /\ IF p = top THEN b = NULL ELSE b \in C /\ pcb_nextSib[b] = p
      /\ n \in C \cup {NULL} /\ n # p /\ NULL \notin C
  <2>1. Family(top, pcb_nextSib, pcb_prevSib, C)
    BY <1>1, <1>2, <1>3, <1>6
  <2>2. Chain(top, pcb_nextSib, C) /\ NULL \notin C
    BY <2>1, <1>6, NullIsNoBlock DEF Family
  <2>3. top \in C /\ n \in C \cup {NULL}
    BY <2>2, <1>4, <1>6, ChainTop DEF Chain
  <2>4. IF p = top THEN b = NULL ELSE b \in C /\ pcb_nextSib[b] = p
    BY <2>1, <1>5, <1>6 DEF Family
  <2>5. n # p
    BY <2>2, <1>4, <1>6, ChainNoLoop
  <2> QED BY <2>2, <2>3, <2>4, <2>5
<1>8. Unlink(p) /\ pcb_parent' = [pcb_parent EXCEPT ![p] = NULL]
      /\ (FirstChild(p) <=> p = top)
  <2>1. FirstChild(p) <=> p = top
    BY <1>1, <1>3 DEF FirstChild
  <2>2. p # NULL /\ IsChild(p)
    BY <2>1, <1>1, <1>4, <1>5, <1>6, <1>7, NullIsNoBlock
       DEF IsChild, MiddleChild, LastChild
  <2> QED BY <2>1, <2>2 DEF outChild
<1>9. /\ pcb_child' = [pcb_child EXCEPT ![r] = IF p = top THEN n ELSE top]
      /\ pcb_nextSib' = IF b = NULL THEN pcb_nextSib ELSE [pcb_nextSib EXCEPT ![b] = n]
      /\ pcb_prevSib' = IF n = NULL THEN pcb_prevSib ELSE [pcb_prevSib EXCEPT ![n] = b]
  <2>1. pcb_child = [pcb_child EXCEPT ![r] = top]
    BY <1>3, <1>6 DEF TreeType
  <2>2. CASE OnlyChild(p)
    BY <2>2, <1>1, <1>4, <1>5, <1>8 DEF Unlink, OnlyChild, MiddleChild, LastChild
  <2>3. CASE FirstChild(p) /\ ~OnlyChild(p)
    BY <2>3, <1>1, <1>4, <1>5, <1>7, <1>8 DEF Unlink, OnlyChild, MiddleChild, LastChild
  <2>4. CASE MiddleChild(p)
    BY <2>1, <2>4, <1>1, <1>4, <1>5, <1>8 DEF Unlink, OnlyChild, MiddleChild, LastChild
  <2>5. CASE LastChild(p)
    BY <2>1, <2>5, <1>1, <1>4, <1>5, <1>8 DEF Unlink, OnlyChild, MiddleChild, LastChild
  <2> QED BY <2>2, <2>3, <2>4, <2>5, <1>8 DEF Unlink
<1> QED BY <1>1, <1>2, <1>3, <1>4, <1>5, <1>6, <1>7, <1>8, <1>9, ZenonT(60) DEF UnlinkStep

\* outChild, also the one removeChild makes: p leaves its family, if it has one.
LEMMA TreeOut ==
  ASSUME NEW p, p \in Proc => where[p] # FREE, p \in Proc \cup {NULL},
         TreeInv, outChild(p), where' = where
  PROVE  TreeInv'
<1>1. CASE ~(p \in Proc /\ pcb_parent[p] \in Proc)
  BY <1>1, OutOfNoFamily, TreeStutter
<1>2. CASE p \in Proc /\ pcb_parent[p] \in Proc
  <2>1. PICK r \in Proc : \E C \in SUBSET Proc : \E top, n, b :
           UnlinkStep(p, r, C, top, n, b)
    BY <1>2, UnlinkIsStep
  <2>2. PICK C \in SUBSET Proc : \E top, n, b : UnlinkStep(p, r, C, top, n, b)
    BY <2>1
  <2>3. PICK top, n, b : UnlinkStep(p, r, C, top, n, b)
    BY <2>2
  <2>4. r = pcb_parent[p] /\ C = Children(r) /\ top = pcb_child[r]
    BY <2>3 DEF UnlinkStep
  <2>5. n = pcb_nextSib[p] /\ b = pcb_prevSib[p]
    BY <2>3 DEF UnlinkStep
  <2>6. p \in C /\ p \in Proc /\ TreeType
        /\ \A q \in Proc : Family(pcb_child[q], pcb_nextSib, pcb_prevSib, Children(q))
    BY <1>2, <2>3, SiblingsAreFamilies DEF TreeInv, UnlinkStep
  <2>7. /\ Chain(top, pcb_nextSib, C) /\ top \in C
        /\ IF p = top THEN b = NULL ELSE b \in C /\ pcb_nextSib[b] = p
        /\ n \in C \cup {NULL} /\ n # p /\ NULL \notin C
    BY <2>3 DEF UnlinkStep
  <2>8. pcb_parent' = [pcb_parent EXCEPT ![p] = NULL]
    BY <2>3 DEF UnlinkStep
  <2>9. /\ pcb_child' = [pcb_child EXCEPT ![r] = IF p = top THEN n ELSE top]
        /\ pcb_nextSib' = IF b = NULL THEN pcb_nextSib ELSE [pcb_nextSib EXCEPT ![b] = n]
        /\ pcb_prevSib' = IF n = NULL THEN pcb_prevSib ELSE [pcb_prevSib EXCEPT ![n] = b]
    BY <2>3 DEF UnlinkStep
  <2>10. /\ pcb_child'[r] = (IF p = top THEN n ELSE top)
         /\ \A q \in Proc \ {r} : pcb_child'[q] = pcb_child[q]
         /\ \A x \in Proc : pcb_nextSib'[x] = IF x = b THEN n ELSE pcb_nextSib[x]
         /\ \A x \in Proc : pcb_prevSib'[x] = IF x = n THEN b ELSE pcb_prevSib[x]
         /\ pcb_parent'[p] = NULL
         /\ \A q \in Proc \ {p} : pcb_parent'[q] = pcb_parent[q]
    BY <2>6, <2>7, <2>8, <2>9, NullIsNoBlock DEF TreeType
  <2>11. b \in C \cup {NULL} /\ n \in Ptr /\ b \in Ptr /\ top \in Ptr /\ NULL \in Ptr
    BY <2>7 DEF Ptr
  <2>12. TreeType'
    BY <2>6, <2>8, <2>9, <2>11 DEF TreeType
  <2>13. ASSUME NEW q \in Proc
         PROVE  Family(pcb_child'[q], pcb_nextSib', pcb_prevSib',
                       {x \in Proc : pcb_parent'[x] = q})
    <3>1. CASE q = r /\ p = top
      <4>1. Family(p, pcb_nextSib, pcb_prevSib, C)
        BY <3>1, <2>4, <2>6
      <4>2. \A x \in C \ {p} :
               /\ pcb_nextSib'[x] = pcb_nextSib[x]
               /\ pcb_prevSib'[x] = IF x = pcb_nextSib[p] THEN NULL ELSE pcb_prevSib[x]
        BY <3>1, <2>5, <2>7, <2>10
      <4>3. Family(n, pcb_nextSib', pcb_prevSib', C \ {p})
        BY <4>1, <4>2, <2>5, <2>6, FamilyFirst
      <4>4. {x \in Proc : pcb_parent'[x] = q} = C \ {p}
        BY <3>1, <2>4, <2>10, NullIsNoBlock DEF Children
      <4> QED BY <3>1, <4>3, <4>4, <2>10
    <3>2. CASE q = r /\ p # top
      <4>1. Family(top, pcb_nextSib, pcb_prevSib, C)
        BY <2>4, <2>6
      <4>2. \A x \in C \ {p} :
               /\ pcb_nextSib'[x] =
                     IF x = pcb_prevSib[p] THEN pcb_nextSib[p] ELSE pcb_nextSib[x]
               /\ pcb_prevSib'[x] =
                     IF x = pcb_nextSib[p] THEN pcb_prevSib[p] ELSE pcb_prevSib[x]
        BY <2>5, <2>10
      <4>3. Family(top, pcb_nextSib', pcb_prevSib', C \ {p})
        BY <3>2, <4>1, <4>2, <2>6, FamilyLater
      <4>4. {x \in Proc : pcb_parent'[x] = q} = C \ {p}
        BY <3>2, <2>4, <2>10, NullIsNoBlock DEF Children
      <4> QED BY <3>2, <4>3, <4>4, <2>10
    <3>3. CASE q # r
      <4>1. PICK D \in SUBSET Proc : D = Children(q)
        BY DEF Children
      <4>2. Family(pcb_child[q], pcb_nextSib, pcb_prevSib, D)
        BY <4>1, <2>6
      <4>3. \A x \in D : x \notin C
        BY <3>3, <4>1, <2>4 DEF Children
      <4>4. \A x \in D : pcb_nextSib'[x] = pcb_nextSib[x] /\ pcb_prevSib'[x] = pcb_prevSib[x]
        BY <4>3, <2>7, <2>10, <2>11, NullIsNoBlock
      <4>5. Family(pcb_child[q], pcb_nextSib', pcb_prevSib', D)
        BY <4>2, <4>4, FamilySame
      <4>6. {x \in Proc : pcb_parent'[x] = q} = D
        BY <3>3, <4>1, <2>4, <2>10, NullIsNoBlock DEF Children
      <4> QED BY <3>3, <4>5, <4>6, <2>10
    <3> QED BY <3>1, <3>2, <3>3
  <2>14. OutsideFamilies'
    <3>1. ASSUME NEW q \in Proc, where[q] = FREE
          PROVE  pcb_parent'[q] \notin Proc /\ Children(q)' = {}
      <4>1. q # p /\ pcb_parent[q] \notin Proc /\ Children(q) = {}
        BY <3>1, <2>6 DEF TreeInv, OutsideFamilies
      <4> QED BY <4>1, <2>10, NullIsNoBlock DEF Children
    <3>2. ASSUME NEW q \in Proc, where[q] # FREE
          PROVE  pcb_child'[q] # ZERO /\ (pcb_parent'[q] = ZERO => pcb_prevSib'[q] = NULL)
      <4>1. pcb_child[q] # ZERO /\ (pcb_parent[q] = ZERO => pcb_prevSib[q] = NULL)
        BY <3>2 DEF TreeInv, OutsideFamilies
      <4>2. NULL # ZERO /\ n # ZERO /\ top # ZERO
        BY <2>7, NullIsNoBlock, PcbAssumption DEF ZERO
      <4>3. q = n => pcb_parent[q] = r
        BY <2>4, <2>7, NullIsNoBlock DEF Children
      <4> QED BY <4>1, <4>2, <4>3, <2>10, NullIsNoBlock
    <3> QED BY <3>1, <3>2 DEF OutsideFamilies
  <2> QED BY <2>12, <2>13, <2>14, SiblingsAreFamiliesNext DEF TreeInv
<1> QED BY <1>1, <1>2

LEMMA TreeInit == Init => TreeInv
<1> SUFFICES ASSUME Init PROVE TreeInv
  OBVIOUS
<1>1. /\ pcb_child = [p \in Proc |-> ZERO] /\ pcb_parent = [p \in Proc |-> ZERO]
      /\ pcb_prevSib = [p \in Proc |-> ZERO] /\ pcb_nextSib = [p \in Proc |-> ZERO]
      /\ where = [p \in Proc |-> FREE]
  BY DEF Init, initPcbs
<1>2. \A r \in Proc : Children(r) = {}
  BY <1>1, NullIsNoBlock DEF Children
<1> QED BY <1>1, <1>2, NullIsNoBlock
        DEF TreeInv, TreeType, SiblingsLinked, OutsideFamilies, Ptr

LEMMA TreeNext == QueueInv /\ TreeInv /\ [Next]_vars => TreeInv'
<1> SUFFICES ASSUME QueueInv, TreeInv, [Next]_vars PROVE TreeInv'
  OBVIOUS
<1>1. CASE Alloc
  BY <1>1, TreeAlloc
<1>2. ASSUME NEW p \in Proc, Free(p) PROVE TreeInv'
  BY <1>2, TreeFree
<1>3. CASE Queues
  BY <1>3, QueuesKeepFree, TreeStutter
<1>4. CASE Tree
  <2>1. ASSUME NEW p \in Proc, OutChild(p) PROVE TreeInv'
    BY <2>1, TreeOut DEF OutChild
  <2>2. ASSUME NEW r \in Proc, RemoveChild(r) PROVE TreeInv'
    <3>1. PICK p : p = pcb_child[r]
      OBVIOUS
    <3>2. where[r] # FREE /\ outChild(p) /\ where' = where
      BY <2>2, <3>1 DEF RemoveChild, removeChild
    <3>3. PICK C \in SUBSET Proc : C = Children(r)
      BY DEF Children
    <3>4. p # ZERO /\ Family(p, pcb_nextSib, pcb_prevSib, C)
      BY <3>1, <3>2, <3>3, SiblingsAreFamilies DEF TreeInv, OutsideFamilies
    <3>5. p \in C \cup {NULL}
      BY <3>4 DEF Family, Chain
    <3>6. \A x \in C : where[x] # FREE
      BY <3>3 DEF TreeInv, OutsideFamilies, Children
    <3> QED BY <3>2, <3>5, <3>6, NullIsNoBlock, TreeOut
  <2>3. ASSUME NEW r \in Proc, NEW p \in Proc, Adopt(r, p) PROVE TreeInv'
    BY <2>3, TreeAdopt
  <2> QED BY <1>4, <2>1, <2>2, <2>3 DEF Tree
<1>5. CASE UNCHANGED vars
  BY <1>5, TreeStutter DEF vars
<1> QED BY <1>1, <1>2, <1>3, <1>4, <1>5 DEF Next

\* TreeInv always holds.
THEOREM TreeInvariance == Spec => []TreeInv
<1>1. Init => QueueInv /\ TreeInv
  BY QueueInit, TreeInit
<1>2. (QueueInv /\ TreeInv) /\ [Next]_vars => (QueueInv /\ TreeInv)'
  BY QueueNext, TreeNext
<1> QED BY <1>1, <1>2, PTL DEF Spec

\* The children of every block are one list linked both ways, although a removed
\* child keeps its links and an allocated block its old parent.
THEOREM SiblingsLinkedCorrect == Spec => []SiblingsLinked
<1>1. TreeInv => SiblingsLinked
  BY DEF TreeInv
<1> QED BY <1>1, TreeInvariance, PTL

\* No call of phase 1 makes a pointer point anywhere but at a block, a descriptor,
\* NULL or the zero a field started with.
THEOREM Phase1TypeCorrect == Spec => []TypeOK
<1>1. Init => trial \in Trials
  BY DEF Init
<1>2. trial \in Trials /\ [Next]_vars => (trial \in Trials)'
  BY DEF Next, vars, Alloc, Free, Queues, Tree, Remove, Insert, Out, TookReady, Unblock,
     Wake, Block, Adopt, OutChild, RemoveChild
<1>3. QueueInv /\ TreeInv /\ trial \in Trials => TypeOK
  BY DEF QueueInv, QueueType, TreeInv, TreeType, TypeOK
<1> QED BY <1>1, <1>2, <1>3, QueueInvariance, TreeInvariance, PTL DEF Spec
=============================================================================
