------------------------- MODULE Phase1ListsProofs -------------------------
(***************************************************************************)
(* Phase 1 implements Lists, for any number of blocks and any set of       *)
(* semaphores: what the pointers spell is a sequence, and every call does  *)
(* to the sequences what Lists says.                                       *)
(***************************************************************************)
EXTENDS Phase1Lists, Phase1Proofs, SequenceTheorems

-----------------------------------------------------------------------------
(***************************************************************************)
(* Paths: the sequence that links spell.                                   *)
(***************************************************************************)

\* s goes along f from x up to last, or to the end of the links, through every
\* member of M once.
Path(s, f, x, last, M) ==
  /\ s \in Seq(M)
  /\ \A i, j \in 1 .. Len(s) : s[i] = s[j] => i = j
  /\ \A y \in M : \E i \in 1 .. Len(s) : s[i] = y
  /\ IF s = <<>> THEN x \notin Proc ELSE s[1] = x
  /\ \A i \in 1 .. Len(s) - 1 : s[i] # last /\ f[s[i]] = s[i + 1]
  /\ s # <<>> => s[Len(s)] = last \/ f[s[Len(s)]] \notin Proc

\* Numbers from 0 on without a gap stop somewhere below a bound.
LEMMA NumbersStop ==
  ASSUME NEW m \in Nat, NEW P \in SUBSET (0 .. m), 0 \in P
  PROVE  \E n \in P : n + 1 \notin P
<1>1. SUFFICES ASSUME \A n \in P : n + 1 \in P PROVE FALSE
  OBVIOUS
<1>2. PICK f : f = [n \in P |-> n + 1]
  OBVIOUS
<1>3. f \in Injection(P, P)
  <2>1. f \in [P -> P]
    BY <1>1, <1>2
  <2>2. \A i, j \in P : f[i] = f[j] => i = j
    BY <1>2
  <2> QED BY <2>1, <2>2 DEF Injection, IsInjective
<1>4. IsFiniteSet(P)
  <2>1. IsFiniteSet(0 .. m)
    BY FS_Interval
  <2> QED BY <2>1, FS_Subset
<1>5. f \in Surjection(P, P)
  BY <1>3, <1>4, FS_Injection
<1>6. PICK n \in P : f[n] = 0
  BY <1>5 DEF Surjection
<1> QED BY <1>2, <1>6

LEMMA IntervalSize ==
  ASSUME NEW n \in Nat
  PROVE  IsFiniteSet(1 .. n) /\ Cardinality(1 .. n) = n
BY FS_Interval

\* A sequence of distinct blocks is no longer than there are blocks.
LEMMA DistinctFit ==
  ASSUME NEW s \in Seq(Proc), \A i, j \in 1 .. Len(s) : s[i] = s[j] => i = j
  PROVE  Len(s) \in 0 .. MAXPROC
<1>1. Len(s) \in Nat /\ \A i \in 1 .. Len(s) : s[i] \in Proc
  OBVIOUS
<1>2. PICK f : f = [i \in 1 .. Len(s) |-> s[i]]
  OBVIOUS
<1>3. f \in Injection(1 .. Len(s), Proc)
  BY <1>1, <1>2 DEF Injection, IsInjective
<1>4. /\ IsFiniteSet(Proc) /\ Cardinality(Proc) = MAXPROC
      /\ Cardinality(1 .. Len(s)) = Len(s)
  <2>1. MAXPROC \in Nat
    BY PcbAssumption
  <2> QED BY <1>1, <2>1, IntervalSize DEF Proc
<1>5. Cardinality(1 .. Len(s)) <= Cardinality(Proc)
  BY <1>3, <1>4, FS_Injection
<1> QED BY <1>1, <1>4, <1>5, PcbAssumption

\* Along finds the path there is.
LEMMA PathIsAlong ==
  ASSUME NEW M \in SUBSET Proc, NEW s, NEW f, NEW x, NEW last, Path(s, f, x, last, M)
  PROVE  Along(f, x, last) = s
<1> DEFINE n == Len(s)
           after(w) == IF w \in Proc \ {last} THEN f[w] ELSE NULL
           body(g) == [k \in 1 .. MAXPROC |->
                         IF k = 1 THEN x
                         ELSE LET w == g[k - 1]
                              IN  IF w \in Proc \ {last} THEN f[w] ELSE NULL]
           walk == CHOOSE g : g = body(g)
<1>1. /\ s \in Seq(Proc) /\ n \in Nat /\ n <= MAXPROC
      /\ \A i \in 1 .. n : s[i] \in Proc
      /\ s = [i \in 1 .. n |-> s[i]]
  <2>1. s \in Seq(Proc)
    BY DEF Path
  <2>2. n \in 0 .. MAXPROC
    BY <2>1, DistinctFit DEF Path
  <2> QED BY <2>1, <2>2
<1>2. PICK w : w = [k \in 1 .. MAXPROC |-> IF k <= n THEN s[k] ELSE IF k = 1 THEN x
                                           ELSE IF k = n + 1 THEN after(s[n]) ELSE NULL]
  OBVIOUS
<1>3. /\ n = 0 => x \notin Proc
      /\ n > 0 => s[1] = x /\ after(s[n]) \notin Proc
      /\ \A i \in 1 .. n - 1 : after(s[i]) = s[i + 1]
  <2>1. n = 0 <=> s = <<>>
    BY <1>1
  <2> QED BY <1>1, <2>1, NullIsNoBlock DEF Path
<1>4. /\ MAXPROC \in Nat /\ MAXPROC > 0 /\ w[1] = x
      /\ \A k \in 1 .. MAXPROC : w[k] \in Proc <=> k <= n
      /\ \A k \in 1 .. n : w[k] = s[k]
      /\ \A k \in 1 .. MAXPROC - 1 : w[k + 1] = after(w[k])
  <2> HIDE DEF after, n
  <2>1. MAXPROC \in Nat /\ MAXPROC > 0
    BY PcbAssumption
  <2>2. \A y : y \notin Proc => after(y) = NULL
    BY DEF after
  <2>3. w[1] = x
    BY <1>1, <1>2, <1>3, <2>1
  <2>4. \A k \in 1 .. n : w[k] = s[k] /\ w[k] \in Proc
    BY <1>1, <1>2, <2>1
  <2>5. \A k \in 1 .. MAXPROC : k > n => w[k] \notin Proc
    BY <1>1, <1>2, <1>3, <2>1, NullIsNoBlock
  <2>6. ASSUME NEW k \in 1 .. MAXPROC - 1
        PROVE  w[k + 1] = after(w[k])
    <3>1. CASE k < n
      <4>1. k \in 1 .. n - 1 /\ k \in 1 .. n /\ k + 1 \in 1 .. n
        BY <3>1, <1>1, <2>1
      <4>2. w[k] = s[k] /\ w[k + 1] = s[k + 1]
        BY <4>1, <2>4
      <4> QED BY <4>1, <4>2, <1>3
    <3>2. CASE k = n
      BY <3>2, <1>1, <1>2, <1>3, <2>1
    <3>3. CASE k > n
      <4>1. after(w[k]) = NULL
        BY <3>3, <2>1, <2>2, <2>5
      <4> QED BY <4>1, <3>3, <1>1, <1>2, <2>1, SMTT(30)
    <3> QED BY <3>1, <3>2, <3>3, <1>1
  <2> QED BY <1>1, <2>1, <2>3, <2>4, <2>5, <2>6
<1>5. w = body(w)
  <2>1. \A k \in 1 .. MAXPROC : w[k] = IF k = 1 THEN x ELSE after(w[k - 1])
    <3> SUFFICES ASSUME NEW k \in 1 .. MAXPROC, k # 1
                 PROVE  w[k] = after(w[k - 1])
      BY <1>4
    <3>1. k - 1 \in 1 .. MAXPROC - 1 /\ (k - 1) + 1 = k
      BY <1>4, SMTT(30)
    <3> HIDE DEF after
    <3> QED BY <3>1, <1>4
  <2> QED BY <2>1, <1>2
<1>6. walk = body(walk)
  BY <1>5
<1>7. \A k \in 1 .. MAXPROC : walk[k] = w[k]
  <2> HIDE DEF walk
  <2>1. walk[1] = x /\ \A k \in 1 .. MAXPROC - 1 : walk[k + 1] = after(walk[k])
    BY <1>4, <1>6
  <2> HIDE DEF body, after
  <2> DEFINE P == {k \in 0 .. MAXPROC : \A j \in 1 .. k : walk[j] = w[j]}
  <2>2. 0 \in P /\ P \in SUBSET (0 .. MAXPROC)
    BY <1>4
  <2>3. ASSUME NEW k \in P, k < MAXPROC PROVE k + 1 \in P
    <3>1. walk[k + 1] = w[k + 1]
      <4>1. CASE k = 0
        BY <4>1, <1>4, <2>1
      <4>2. CASE k # 0
        <5>1. k \in 1 .. MAXPROC - 1 /\ k \in 1 .. k
          BY <4>2, <2>2, <2>3, <1>4
        <5>2. walk[k] = w[k]
          BY <5>1
        <5> HIDE DEF P
        <5> QED BY <5>1, <5>2, <1>4, <2>1
      <4> QED BY <4>1, <4>2
    <3> QED BY <3>1, <2>3, <1>4
  <2> HIDE DEF P
  <2>4. MAXPROC \in P
    <3>1. PICK k \in P : k + 1 \notin P
      BY <2>2, <1>4, NumbersStop
    <3> QED BY <3>1, <2>2, <2>3, <1>4
  <2> QED BY <2>4 DEF P
<1>8. {j \in 1 .. MAXPROC : walk[j] \in Proc} = 1 .. n
  <2> HIDE DEF walk
  <2> QED BY <1>1, <1>4, <1>7
<1>9. Cardinality(1 .. n) = n
  BY <1>1, IntervalSize
<1>10. [k \in 1 .. n |-> walk[k]] = s
  <2> HIDE DEF walk
  <2>1. \A k \in 1 .. n : walk[k] = s[k]
    BY <1>1, <1>4, <1>7
  <2> QED BY <2>1, <1>1
<1>11. Along(f, x, last) =
         [k \in 1 .. Cardinality({j \in 1 .. MAXPROC : walk[j] \in Proc}) |-> walk[k]]
  BY DEF Along
<1> QED BY <1>8, <1>9, <1>10, <1>11

\* Links that lead no two nodes to one, and none to the first x.
Apart(f, x, last, M) ==
  /\ \A y, z \in M \ {last} : f[y] = f[z] /\ f[y] \in M => y = z
  /\ \A y \in M \ {last} : f[y] # x

\* s goes from x as far as it can: to last, or to where the links leave M.
Longest(s, f, x, last, M) ==
  /\ s \in Seq(M) /\ s # <<>> /\ s[1] = x
  /\ \A i, j \in 1 .. Len(s) : s[i] = s[j] => i = j
  /\ \A i \in 1 .. Len(s) - 1 : s[i] # last /\ f[s[i]] = s[i + 1]
  /\ s[Len(s)] = last \/ f[s[Len(s)]] \notin M

LEMMA LongestExists ==
  ASSUME NEW M \in SUBSET Proc, NEW x \in M, NEW f, NEW last, Apart(f, x, last, M)
  PROVE  \E s : Longest(s, f, x, last, M)
<1> DEFINE From(s) == /\ s \in Seq(M)
                      /\ s # <<>> => s[1] = x
                      /\ \A i, j \in 1 .. Len(s) : s[i] = s[j] => i = j
                      /\ \A i \in 1 .. Len(s) - 1 : s[i] # last /\ f[s[i]] = s[i + 1]
           P == {n \in 0 .. MAXPROC : \E s : From(s) /\ Len(s) = n}
<1>1. MAXPROC \in Nat
  BY PcbAssumption
<1>2. 0 \in P
  <2>1. From(<<>>) /\ Len(<<>>) = 0 /\ 0 \in 0 .. MAXPROC
    BY <1>1
  <2> HIDE DEF From
  <2> QED BY <2>1
<1>3. PICK n \in P : n + 1 \notin P
  <2> HIDE DEF P
  <2>1. P \in SUBSET (0 .. MAXPROC)
    BY DEF P
  <2> QED BY <2>1, <1>1, <1>2, NumbersStop
<1>4. PICK s : From(s) /\ Len(s) = n
  OBVIOUS
<1>5. ASSUME NEW t, From(t) PROVE Len(t) # n + 1
  <2>1. t \in Seq(Proc)
    BY <1>5, SeqMonotonic
  <2>2. Len(t) \in 0 .. MAXPROC
    BY <2>1, <1>5, DistinctFit
  <2> QED BY <1>3, <1>5, <2>2
<1>6. s # <<>>
  <2>1. SUFFICES ASSUME s = <<>> PROVE FALSE
    OBVIOUS
  <2>2. From(<<x>>) /\ Len(<<x>>) = 1
    OBVIOUS
  <2>3. n = 0
    BY <2>1, <1>4
  <2> HIDE DEF From
  <2> QED BY <2>2, <2>3, <1>5
<1>7. s[n] = last \/ f[s[n]] \notin M
  <2>1. SUFFICES ASSUME s[n] # last, f[s[n]] \in M PROVE FALSE
    OBVIOUS
  <2>2. PICK v \in M : v = f[s[n]]
    BY <2>1
  <2>3. /\ n \in Nat /\ n > 0 /\ s \in Seq(M) /\ Len(s) = n
        /\ \A i \in 1 .. n : s[i] \in M
    BY <1>4, <1>6
  <2>4. PICK t : t = Append(s, v)
    OBVIOUS
  <2>5. /\ t \in Seq(M) /\ Len(t) = n + 1 /\ t[n + 1] = v
        /\ \A i \in 1 .. n : t[i] = s[i]
    BY <2>3, <2>4
  <2>6. ASSUME NEW i \in 1 .. n PROVE s[i] # v
    <3>1. CASE i = 1
      BY <3>1, <2>1, <2>2, <2>3, <1>4, <1>6 DEF Apart
    <3>2. CASE i # 1
      <4>1. i - 1 \in 1 .. n - 1 /\ i - 1 \in 1 .. n /\ n \in 1 .. n /\ (i - 1) + 1 = i
        BY <3>2, <2>3
      <4>2. s[i - 1] # last /\ f[s[i - 1]] = s[i]
        BY <4>1, <1>4, <2>3
      <4>3. s[i - 1] # s[n]
        BY <4>1, <1>4, <2>3
      <4>4. s[i - 1] \in M \ {last} /\ s[n] \in M \ {last}
        BY <4>1, <4>2, <2>1, <2>3
      <4> QED BY <4>2, <4>3, <4>4, <2>2 DEF Apart
    <3> QED BY <3>1, <3>2
  <2>7. \A i, j \in 1 .. n + 1 : t[i] = t[j] => i = j
    BY <2>3, <2>5, <2>6, <1>4
  <2>8. \A i \in 1 .. n : t[i] # last /\ f[t[i]] = t[i + 1]
    BY <2>1, <2>2, <2>3, <2>5, <1>4
  <2>9. t[1] = x
    BY <2>3, <2>5, <1>4, <1>6
  <2>10. From(t)
    BY <2>3, <2>5, <2>7, <2>8, <2>9
  <2> QED BY <2>5, <2>10, <1>5
<1> QED BY <1>4, <1>6, <1>7 DEF Longest

\* A chain spells a path, and so does a ring from its head to its tail.
LEMMA ChainPath ==
  ASSUME NEW M \in SUBSET Proc, NEW top, NEW f, Chain(top, f, M)
  PROVE  \E s : Path(s, f, top, NULL, M)
<1>1. NULL \notin M /\ NULL \notin Proc
  BY NullIsNoBlock
<1>2. CASE M = {}
  <2>1. top = NULL
    BY <1>1, <1>2, ChainTop
  <2>2. Path(<<>>, f, top, NULL, M)
    BY <1>1, <1>2, <2>1 DEF Path
  <2> QED BY <2>2
<1>3. CASE M # {}
  <2>1. top \in M
    BY <1>1, <1>3, ChainTop
  <2>2. PICK s : Longest(s, f, top, NULL, M)
    <3>1. Apart(f, top, NULL, M)
      BY <1>1, <2>1 DEF Chain, Apart
    <3> QED BY <2>1, <3>1, LongestExists
  <2> USE DEF Longest
  <2>3. PICK n : n = Len(s)
    OBVIOUS
  <2>4. n \in Nat /\ n > 0 /\ \A i \in 1 .. n : s[i] \in M
    BY <2>2, <2>3
  <2>5. f[s[n]] = NULL
    BY <1>1, <2>2, <2>3, <2>4 DEF Chain
  <2>6. PICK T \in SUBSET M : T = {s[i] : i \in 1 .. n}
    BY <2>4
  <2>7. top \in T /\ \A y \in T : f[y] # NULL => f[y] \in T
    <3>1. ASSUME NEW i \in 1 .. n, f[s[i]] # NULL PROVE f[s[i]] \in T
      <4>1. i \in 1 .. n - 1 /\ i + 1 \in 1 .. n
        BY <3>1, <2>4, <2>5
      <4> QED BY <4>1, <2>2, <2>3, <2>6
    <3> QED BY <3>1, <2>2, <2>4, <2>6
  <2>8. T = M
    BY <2>7 DEF Chain
  <2>9. Path(s, f, top, NULL, M)
    BY <1>1, <2>2, <2>3, <2>5, <2>6, <2>8 DEF Path
  <2> QED BY <2>9
<1> QED BY <1>2, <1>3

LEMMA RingPath ==
  ASSUME NEW M \in SUBSET Proc, NEW tp \in M, NEW next, NEW prev, Ring(tp, next, prev, M)
  PROVE  \E s : Path(s, next, next[tp], tp, M) /\ s # <<>> /\ s[Len(s)] = tp
<1>1. \A y \in M : next[y] \in M /\ prev[next[y]] = y
  BY DEF Ring
<1>2. PICK s : Longest(s, next, next[tp], tp, M)
  <2>1. Apart(next, next[tp], tp, M)
    BY <1>1 DEF Apart
  <2> QED BY <1>1, <2>1, LongestExists
<1> USE DEF Longest
<1>3. PICK n : n = Len(s)
  OBVIOUS
<1>4. n \in Nat /\ n > 0 /\ \A i \in 1 .. n : s[i] \in M
  BY <1>2, <1>3
<1>5. s[n] = tp
  BY <1>1, <1>2, <1>3, <1>4
<1>6. PICK T \in SUBSET M : T = {s[i] : i \in 1 .. n}
  BY <1>4
<1>7. T # {} /\ \A y \in T : next[y] \in T
  <2>1. ASSUME NEW i \in 1 .. n PROVE next[s[i]] \in T
    <3>1. CASE i = n
      BY <3>1, <1>2, <1>4, <1>5, <1>6
    <3>2. CASE i # n
      <4>1. i \in 1 .. n - 1 /\ i + 1 \in 1 .. n
        BY <3>2, <1>4
      <4> QED BY <4>1, <1>2, <1>3, <1>6
    <3> QED BY <3>1, <3>2
  <2> QED BY <2>1, <1>4, <1>6
<1>8. T = M
  BY <1>7 DEF Ring
<1> QED BY <1>2, <1>3, <1>5, <1>6, <1>8, SMTT(30) DEF Path

-----------------------------------------------------------------------------
(***************************************************************************)
(* What one insertion or removal does to a path.                           *)
(***************************************************************************)

\* s with its i-th member taken out.
Without(s, i) == [k \in 1 .. Len(s) - 1 |-> IF k < i THEN s[k] ELSE s[k + 1]]

LEMMA PathIndex ==
  ASSUME NEW M, NEW s, NEW f, NEW x, NEW last, Path(s, f, x, last, M)
  PROVE  /\ Len(s) \in Nat /\ DOMAIN s = 1 .. Len(s) /\ s \in Seq(M)
         /\ \A i \in 1 .. Len(s) : s[i] \in M
         /\ L!Members(s) = M /\ (s = <<>> <=> M = {}) /\ (s = <<>> <=> Len(s) = 0)
<1>1. /\ Len(s) \in Nat /\ DOMAIN s = 1 .. Len(s) /\ s \in Seq(M)
      /\ \A i \in 1 .. Len(s) : s[i] \in M
      /\ s = <<>> <=> Len(s) = 0
  BY DEF Path
<1>2. L!Members(s) = M
  BY <1>1 DEF Path, L!Members
<1>3. s = <<>> <=> M = {}
  BY <1>1 DEF Path
<1> QED BY <1>1, <1>2, <1>3

\* Links outside M do not matter to a path through M.
LEMMA PathSame ==
  ASSUME NEW M, NEW s, NEW f, NEW f2, NEW x, NEW last, Path(s, f, x, last, M),
         \A y \in M : f2[y] = f[y]
  PROVE  Path(s, f2, x, last, M)
<1>1. PICK n : n = Len(s)
  OBVIOUS
<1>2. n \in Nat /\ (s = <<>> <=> n = 0) /\ \A i \in 1 .. n : s[i] \in M
  BY <1>1, PathIndex
<1>3. ASSUME NEW i \in 1 .. n - 1 PROVE s[i] # last /\ f2[s[i]] = s[i + 1]
  <2>1. i \in 1 .. n
    BY <1>2
  <2> QED BY <2>1, <1>1, <1>2 DEF Path
<1>4. s # <<>> => s[n] = last \/ f2[s[n]] \notin Proc
  <2>1. s # <<>> => n \in 1 .. n
    BY <1>2
  <2> QED BY <2>1, <1>1, <1>2 DEF Path
<1> QED BY <1>1, <1>3, <1>4 DEF Path

\* A new first node that leads to the old one.
LEMMA PathPush ==
  ASSUME NEW M \in SUBSET Proc, NEW p \in Proc \ M, NEW s, NEW f, NEW f2, NEW x,
         Path(s, f, x, NULL, M), f2[p] = x, \A y \in M : f2[y] = f[y]
  PROVE  Path(<<p>> \o s, f2, p, NULL, M \cup {p})
<1>1. PICK n : n = Len(s)
  OBVIOUS
<1>2. /\ n \in Nat /\ s \in Seq(M) /\ \A i \in 1 .. n : s[i] \in M
      /\ s = <<>> <=> n = 0
  BY <1>1, PathIndex
<1>3. PICK t : t = <<p>> \o s
  OBVIOUS
<1>4. /\ t \in Seq(M \cup {p}) /\ Len(t) = n + 1 /\ t[1] = p /\ t # <<>>
      /\ \A i \in 1 .. n : t[i + 1] = s[i]
  <2>1. s \in Seq(M \cup {p}) /\ <<p>> \in Seq(M \cup {p})
    BY <1>2, SeqMonotonic
  <2> QED BY <2>1, <1>1, <1>2, <1>3, ConcatProperties
<1>5. \A i \in 2 .. n + 1 : i - 1 \in 1 .. n /\ t[i] = s[i - 1]
  BY <1>2, <1>4
<1>6. \A i, j \in 1 .. n + 1 : t[i] = t[j] => i = j
  <2>1. \A i \in 2 .. n + 1 : t[i] # p
    BY <1>2, <1>5
  <2>2. \A i, j \in 1 .. n : s[i] = s[j] => i = j
    BY <1>1 DEF Path
  <2>3. ASSUME NEW i \in 2 .. n + 1, NEW j \in 2 .. n + 1, t[i] = t[j] PROVE i = j
    <3>1. i - 1 = j - 1
      BY <2>2, <2>3, <1>5
    <3> QED BY <3>1, <1>2
  <2> QED BY <1>2, <1>4, <2>1, <2>3
<1>7. \A y \in M \cup {p} : \E i \in 1 .. n + 1 : t[i] = y
  <2>1. ASSUME NEW y \in M PROVE \E i \in 1 .. n + 1 : t[i] = y
    <3>1. PICK i \in 1 .. n : s[i] = y
      BY <1>1 DEF Path
    <3>2. i + 1 \in 1 .. n + 1 /\ t[i + 1] = y
      BY <3>1, <1>2, <1>4
    <3> QED BY <3>2
  <2> QED BY <2>1, <1>2, <1>4
<1>8. \A i \in 1 .. n : t[i] # NULL /\ f2[t[i]] = t[i + 1]
  <2>1. ASSUME NEW i \in 1 .. n PROVE t[i] # NULL /\ f2[t[i]] = t[i + 1]
    <3>1. CASE i = 1
      BY <3>1, <1>1, <1>2, <1>4, NullIsNoBlock DEF Path
    <3>2. CASE i # 1
      <4>1. i - 1 \in 1 .. n - 1 /\ i - 1 \in 1 .. n /\ (i - 1) + 1 = i /\ i \in 2 .. n + 1
        BY <3>2, <1>2
      <4>2. f[s[i - 1]] = s[i] /\ s[i - 1] # NULL /\ s[i - 1] \in M
        BY <4>1, <1>1, <1>2 DEF Path
      <4> QED BY <4>1, <4>2, <1>4, <1>5
    <3> QED BY <3>1, <3>2
  <2> QED BY <2>1
<1>9. f2[t[n + 1]] \notin Proc
  <2>1. CASE n = 0
    BY <2>1, <1>1, <1>2, <1>4 DEF Path
  <2>2. CASE n # 0
    <3>1. n \in 1 .. n /\ t[n + 1] = s[n] /\ s[n] \in M /\ s[n] # NULL
      BY <2>2, <1>2, <1>4, NullIsNoBlock
    <3> QED BY <3>1, <2>2, <1>1, <1>2 DEF Path
  <2> QED BY <2>1, <2>2
<1> HIDE DEF Path
<1>10. Path(t, f2, p, NULL, M \cup {p})
  <2>1. Len(t) - 1 = n /\ n + 1 = Len(t)
    BY <1>2, <1>4
  <2> QED BY <2>1, <1>2, <1>4, <1>6, <1>7, <1>8, <1>9 DEF Path
<1> QED BY <1>3, <1>10

\* f2 is f around p; when p was the last node, the one in front of it is.
Bypass(f, f2, last, last2, p, M) ==
  /\ \A y \in M \ {p} : f2[y] = IF f[y] = p THEN f[p] ELSE f[y]
  /\ M = {p} => f[p] \notin Proc
  /\ IF last = p THEN M # {p} => f[last2] = p /\ last2 \in M \ {p} ELSE last2 = last

\* A node is taken out: what led to it leads to what it led to.
LEMMA PathOut ==
  ASSUME NEW M \in SUBSET Proc, NEW s, NEW f, NEW f2, NEW x, NEW last, NEW last2,
         Path(s, f, x, last, M), NEW i \in 1 .. Len(s), NEW p, p = s[i],
         Bypass(f, f2, last, last2, p, M)
  PROVE  Path(Without(s, i), f2, IF p = x THEN f[p] ELSE x, last2, M \ {p})
<1> USE DEF Bypass
<1>1. PICK n : n = Len(s)
  OBVIOUS
<1>2. /\ n \in Nat /\ s \in Seq(M) /\ i \in 1 .. n /\ n > 0
      /\ \A j \in 1 .. n : s[j] \in M
      /\ \A j, k \in 1 .. n : s[j] = s[k] => j = k
      /\ \A y \in M : \E j \in 1 .. n : s[j] = y
      /\ \A j \in 1 .. n - 1 : s[j] # last /\ f[s[j]] = s[j + 1]
      /\ s[1] = x /\ (s[n] = last \/ f[s[n]] \notin Proc)
  BY <1>1, PathIndex DEF Path
<1>0. n \in Nat /\ i \in 1 .. n /\ n > 0 /\ n \in Int /\ i \in Int
  BY <1>2
<1>3. PICK r : r = [k \in 1 .. n - 1 |-> IF k < i THEN s[k] ELSE s[k + 1]]
  OBVIOUS
<1>4. /\ r \in Seq(M \ {p}) /\ Len(r) = n - 1 /\ n - 1 \in Nat
      /\ \A k \in 1 .. n - 1 : r[k] = IF k < i THEN s[k] ELSE s[k + 1]
      /\ r = <<>> <=> n = 1
  <2>1. ASSUME NEW k \in 1 .. n - 1 PROVE r[k] \in M \ {p}
    <3>1. k \in 1 .. n /\ k + 1 \in 1 .. n /\ (k < i => k # i) /\ (~(k < i) => k + 1 # i)
      BY <1>2
    <3>2. s[k] \in M /\ s[k + 1] \in M /\ (k < i => s[k] # p) /\ (~(k < i) => s[k + 1] # p)
      BY <3>1, <1>2
    <3>3. r[k] = IF k < i THEN s[k] ELSE s[k + 1]
      BY <1>3
    <3> QED BY <3>2, <3>3
  <2>2. r \in [1 .. n - 1 -> M \ {p}] /\ n - 1 \in Nat
    BY <2>1, <1>2, <1>3
  <2>3. r \in Seq(M \ {p}) /\ Len(r) = n - 1
    BY <2>2
  <2>4. r = <<>> <=> Len(r) = 0
    BY <2>3, EmptySeq
  <2>5. r = <<>> <=> n = 1
    BY <2>3, <2>4, <1>0
  <2>6. \A k \in 1 .. n - 1 : r[k] = IF k < i THEN s[k] ELSE s[k + 1]
    BY <1>3
  <2> QED BY <2>2, <2>3, <2>5, <2>6
<1>5. ASSUME NEW j \in 1 .. n - 1, NEW k \in 1 .. n - 1, r[j] = r[k] PROVE j = k
  <2>1. j \in 1 .. n /\ j + 1 \in 1 .. n /\ k \in 1 .. n /\ k + 1 \in 1 .. n
    BY <1>0
  <2>2. PICK a \in 1 .. n : a = IF j < i THEN j ELSE j + 1
    BY <2>1
  <2>3. PICK b \in 1 .. n : b = IF k < i THEN k ELSE k + 1
    BY <2>1
  <2>4. r[j] = s[a] /\ r[k] = s[b]
    BY <2>2, <2>3, <1>4
  <2>5. s[a] = s[b]
    BY <2>4, <1>5
  <2>6. a = b
    BY <2>5, <1>2
  <2> QED BY <2>1, <2>2, <2>3, <2>6, <1>0
<1>6. \A y \in M \ {p} : \E k \in 1 .. n - 1 : r[k] = y
  <2>1. ASSUME NEW y \in M \ {p} PROVE \E k \in 1 .. n - 1 : r[k] = y
    <3>1. PICK j \in 1 .. n : s[j] = y
      BY <1>2
    <3>2. CASE j < i
      <4>1. j \in 1 .. n - 1
        BY <3>2, <1>2
      <4>2. r[j] = y
        BY <4>1, <3>1, <3>2, <1>4
      <4> QED BY <4>1, <4>2
    <3>3. CASE j > i
      <4>1. j - 1 \in 1 .. n - 1 /\ ~(j - 1 < i) /\ (j - 1) + 1 = j
        BY <3>1, <3>3, <1>2
      <4>2. r[j - 1] = y
        BY <4>1, <3>1, <1>4
      <4> QED BY <4>1, <4>2
    <3> QED BY <3>1, <3>2, <3>3, <2>1, <1>2
  <2> QED BY <2>1
<1>7. M = {p} <=> n = 1
  BY <1>2
<1>8. IF r = <<>> THEN (IF p = x THEN f[p] ELSE x) \notin Proc
      ELSE r[1] = IF p = x THEN f[p] ELSE x
  <2>1. CASE n = 1
    BY <2>1, <1>2, <1>4, <1>7
  <2>2. CASE n # 1
    <3>1. 1 \in 1 .. n /\ 1 \in 1 .. n - 1 /\ 2 \in 1 .. n
      BY <2>2, <1>2, SMTT(30)
    <3>2. p = x <=> i = 1
      BY <3>1, <1>2
    <3> QED BY <2>2, <3>1, <3>2, <1>2, <1>4, SMTT(30)
  <2> QED BY <2>1, <2>2
<1>9. last = p /\ n # 1 => i = n /\ last2 = s[n - 1]
  <2>1. SUFFICES ASSUME last = p, n # 1 PROVE i = n /\ last2 = s[n - 1]
    OBVIOUS
  <2>2. i = n
    BY <2>1, <1>2
  <2>3. PICK j \in 1 .. n : s[j] = last2 /\ j # n
    BY <2>1, <2>2, <1>2, <1>7
  <2>4. j \in 1 .. n - 1 /\ j + 1 \in 1 .. n /\ n \in 1 .. n /\ f[s[j]] = s[j + 1]
    BY <2>3, <1>2, SMTT(30)
  <2>5. s[j + 1] = s[n]
    BY <2>1, <2>2, <2>3, <2>4, <1>7
  <2>6. j + 1 = n
    BY <2>4, <2>5, <1>2
  <2> QED BY <2>2, <2>3, <2>4, <2>6, <1>2
<1>10. ASSUME NEW k \in 1 .. n - 2
       PROVE  r[k] # last2 /\ f2[r[k]] = r[k + 1]
  <2>1. /\ k \in 1 .. n - 1 /\ k \in 1 .. n /\ k + 1 \in 1 .. n - 1 /\ k + 1 \in 1 .. n
        /\ k + 2 \in 1 .. n /\ (k + 1) + 1 = k + 2 /\ k \in Nat /\ k # n - 1
    <3>1. n \in Nat /\ k \in Nat /\ 1 <= k /\ k <= n - 2
      BY <1>2, <1>10
    <3> QED BY <3>1
  <2>2. r[k] # last2
    <3>1. CASE last = p
      <4>1. n # 1
        BY <2>1, <1>2
      <4>2. i = n /\ last2 = s[n - 1]
        BY <3>1, <4>1, <1>9
      <4>3. n - 1 \in 1 .. n /\ k < i
        <5>1. i = n
          BY <4>2
        <5> QED BY <2>1, <4>1, <5>1, <1>0
      <4>4. r[k] = s[k]
        BY <2>1, <4>3, <1>4
      <4> QED BY <2>1, <4>2, <4>3, <4>4, <1>2
    <3>2. CASE last # p
      BY <3>2, <2>1, <1>2, <1>4, ZenonT(60)
    <3> QED BY <3>1, <3>2
  <2>3. CASE k < i - 1
    <3>1. k < i /\ k + 1 < i /\ k + 1 # i /\ k \in 1 .. n /\ k # i
      <4>1. i \in Int /\ k \in Int
        BY <2>1, <1>2
      <4> QED BY <4>1, <2>1, <2>3
    <3>2. r[k] = s[k] /\ r[k + 1] = s[k + 1] /\ s[k + 1] # p /\ s[k] \in M \ {p}
          /\ f[s[k]] = s[k + 1]
      BY <2>1, <3>1, <1>2, <1>4
    <3> QED BY <2>2, <3>2
  <2>4. CASE k = i - 1
    <3>1. /\ k < i /\ ~(k + 1 < i) /\ k + 1 = i /\ i \in 1 .. n - 1 /\ k \in 1 .. n
          /\ k # i /\ (k + 1) + 1 = i + 1
      BY <2>1, <2>4, <1>0
    <3>2. r[k] = s[k] /\ r[k + 1] = s[i + 1] /\ s[k] \in M \ {p}
          /\ f[s[k]] = p /\ f[p] = s[i + 1]
      BY <2>1, <3>1, <1>2, <1>4
    <3> QED BY <2>2, <3>2
  <2>5. CASE k > i - 1
    <3>1. ~(k < i) /\ ~(k + 1 < i) /\ k + 1 # i /\ k + 2 # i
      BY <2>1, <2>5, <1>2
    <3>2. r[k] = s[k + 1] /\ r[k + 1] = s[k + 2]
      BY <2>1, <3>1, <1>4
    <3>3. s[k + 1] \in M \ {p} /\ s[k + 2] # p
      BY <2>1, <3>1, <1>2
    <3>4. f[s[k + 1]] = s[k + 2]
      BY <2>1, <1>2
    <3> QED BY <2>2, <3>2, <3>3, <3>4
  <2> QED BY <2>1, <2>3, <2>4, <2>5, <1>2
<1>11. ASSUME n # 1
       PROVE  r[n - 1] = last2 \/ f2[r[n - 1]] \notin Proc
  <2>1. n - 1 \in 1 .. n - 1 /\ n - 1 \in 1 .. n /\ n \in 1 .. n /\ (n - 1) + 1 = n
    BY <1>2, <1>11
  <2>2. CASE i = n
    <3>1. r[n - 1] = s[n - 1] /\ s[n - 1] \in M \ {p} /\ f[s[n - 1]] = p
      BY <2>1, <2>2, <1>2, <1>4, SMTT(30)
    <3>2. CASE last = p
      BY <3>1, <3>2, <1>9, <1>11
    <3>3. CASE last # p
      BY <2>2, <3>1, <3>3, <1>2
    <3> QED BY <3>2, <3>3
  <2>3. CASE i # n
    <3>1. r[n - 1] = s[n] /\ s[n] \in M \ {p} /\ p \in Proc
      BY <2>1, <2>3, <1>2, <1>4, SMTT(30)
    <3>2. last # p
      BY <2>3, <1>9, <1>11
    <3> QED BY <3>1, <3>2, <1>2, ZenonT(60)
  <2> QED BY <2>2, <2>3
<1>12. Path(r, f2, IF p = x THEN f[p] ELSE x, last2, M \ {p})
  <2>1. r \in Seq(M \ {p}) /\ Len(r) = n - 1 /\ Len(r) - 1 = n - 2
    BY <1>2, <1>4
  <2>2. \A j, k \in 1 .. Len(r) : r[j] = r[k] => j = k
    BY <2>1, <1>5
  <2>3. \A y \in M \ {p} : \E k \in 1 .. Len(r) : r[k] = y
    BY <2>1, <1>6
  <2>4. \A k \in 1 .. Len(r) - 1 : r[k] # last2 /\ f2[r[k]] = r[k + 1]
    BY <2>1, <1>10
  <2>5. r # <<>> => r[Len(r)] = last2 \/ f2[r[Len(r)]] \notin Proc
    BY <2>1, <1>4, <1>11
  <2> QED BY <2>1, <2>2, <2>3, <2>4, <2>5, <1>8, Zenon DEF Path
<1>13. r = Without(s, i)
  BY <1>1, <1>3 DEF Without
<1> QED BY <1>12, <1>13

-----------------------------------------------------------------------------
(***************************************************************************)
(* outProcQ on sequences, for one block.                                   *)
(***************************************************************************)

LEMMA CardinalityThere == ASSUME NEW S PROVE L!Cardinality(S) = Cardinality(S)
BY DEF L!Cardinality, Cardinality

\* The places kept are all of 1 .. n: each has its own number for a rank.
LEMMA RankOfAll ==
  ASSUME NEW n \in Nat, NEW k \in 1 .. n
  PROVE  L!Rank(1 .. n, k) = k
<1>1. {j \in 1 .. n : j <= k} = 1 .. k /\ k \in Nat
  OBVIOUS
<1> QED BY <1>1, IntervalSize, CardinalityThere DEF L!Rank

\* All places but i: the ones behind it move up.
LEMMA RankBut ==
  ASSUME NEW n \in Nat, NEW i \in 1 .. n, NEW k \in (1 .. n) \ {i}
  PROVE  L!Rank((1 .. n) \ {i}, k) = IF k < i THEN k ELSE k - 1
<1>1. CASE k < i
  <2>1. {j \in (1 .. n) \ {i} : j <= k} = 1 .. k /\ k \in Nat
    BY <1>1
  <2> QED BY <1>1, <2>1, IntervalSize, CardinalityThere DEF L!Rank
<1>2. CASE ~(k < i)
  <2>1. {j \in (1 .. n) \ {i} : j <= k} = (1 .. k) \ {i} /\ k \in Nat /\ i \in 1 .. k
    BY <1>2
  <2>2. Cardinality((1 .. k) \ {i}) = k - 1
    BY <2>1, IntervalSize, FS_RemoveElement
  <2> QED BY <1>2, <2>1, <2>2, CardinalityThere DEF L!Rank
<1> QED BY <1>1, <1>2

\* A block that is not on the queue: outProcQ gives the queue back.
LEMMA OutOfNone ==
  ASSUME NEW S, NEW s \in Seq(S), NEW p, \A i \in 1 .. Len(s) : s[i] # p
  PROVE  L!outProcQ(s, {p}) = s
<1> DEFINE keep == L!Kept(s, {p})
<1>1. L!outProcQ(s, {p}) = [k \in 1 .. L!Cardinality(keep) |->
                              s[CHOOSE j \in keep : L!Rank(keep, j) = k]]
  BY DEF L!outProcQ
<1>2. PICK n \in Nat : n = Len(s)
  OBVIOUS
<1>3. s = [k \in 1 .. n |-> s[k]] /\ DOMAIN s = 1 .. n
  BY <1>2
<1>4. keep = 1 .. n
  BY <1>2, <1>3 DEF L!Kept
<1> HIDE DEF keep
<1>5. L!Cardinality(keep) = n
  BY <1>4, IntervalSize, CardinalityThere
<1>6. \A k \in 1 .. n : (CHOOSE j \in keep : L!Rank(keep, j) = k) = k
  <2>1. \A k \in 1 .. n : L!Rank(keep, k) = k
    BY <1>4, RankOfAll
  <2>2. ASSUME NEW k \in 1 .. n PROVE (CHOOSE j \in keep : L!Rank(keep, j) = k) = k
    <3>1. k \in keep /\ L!Rank(keep, k) = k /\ \A j \in keep : L!Rank(keep, j) = k => j = k
      BY <1>4, <2>1
    <3> QED BY <3>1
  <2> QED BY <2>2
<1>7. L!outProcQ(s, {p}) = [k \in 1 .. n |-> s[CHOOSE j \in keep : L!Rank(keep, j) = k]]
  BY <1>1, <1>5
<1> QED BY <1>3, <1>6, <1>7

\* A block that is on it once is what is missing from the result.
LEMMA OutOfOne ==
  ASSUME NEW S, NEW s \in Seq(S), NEW i \in 1 .. Len(s),
         \A j, k \in 1 .. Len(s) : s[j] = s[k] => j = k
  PROVE  L!outProcQ(s, {s[i]}) = Without(s, i)
<1> DEFINE keep == L!Kept(s, {s[i]})
<1>1. L!outProcQ(s, {s[i]}) = [k \in 1 .. L!Cardinality(keep) |->
                                 s[CHOOSE j \in keep : L!Rank(keep, j) = k]]
  BY DEF L!outProcQ
<1>2. PICK n \in Nat : n = Len(s)
  OBVIOUS
<1>3. DOMAIN s = 1 .. n /\ i \in 1 .. n
  BY <1>2
<1>4. keep = (1 .. n) \ {i}
  BY <1>2, <1>3 DEF L!Kept
<1> HIDE DEF keep
<1>5. L!Cardinality(keep) = n - 1
  BY <1>3, <1>4, IntervalSize, FS_RemoveElement, CardinalityThere
<1>6. \A j \in keep : L!Rank(keep, j) = IF j < i THEN j ELSE j - 1
  BY <1>3, <1>4, RankBut
<1>7. ASSUME NEW k \in 1 .. n - 1
      PROVE  (CHOOSE j \in keep : L!Rank(keep, j) = k) = IF k < i THEN k ELSE k + 1
  <2>1. PICK m : m = IF k < i THEN k ELSE k + 1
    OBVIOUS
  <2>2. m \in (1 .. n) \ {i} /\ (IF m < i THEN m ELSE m - 1) = k
    BY <2>1, <1>3
  <2>3. m \in keep /\ L!Rank(keep, m) = k
    BY <2>2, <1>4, <1>6
  <2>4. ASSUME NEW j \in keep, L!Rank(keep, j) = k PROVE j = m
    <3>1. j \in (1 .. n) \ {i} /\ (IF j < i THEN j ELSE j - 1) = k
      BY <2>4, <1>4, <1>6
    <3> QED BY <3>1, <2>1, <1>3
  <2>5. (CHOOSE j \in keep : L!Rank(keep, j) = k) = m
    BY <2>3, <2>4
  <2> QED BY <2>1, <2>5
<1>8. L!outProcQ(s, {s[i]}) =
        [k \in 1 .. n - 1 |-> s[CHOOSE j \in keep : L!Rank(keep, j) = k]]
  BY <1>1, <1>5
<1>9. ASSUME NEW k \in 1 .. n - 1
      PROVE  s[CHOOSE j \in keep : L!Rank(keep, j) = k] = IF k < i THEN s[k] ELSE s[k + 1]
  <2>1. PICK m : m = CHOOSE j \in keep : L!Rank(keep, j) = k
    OBVIOUS
  <2>2. m = IF k < i THEN k ELSE k + 1
    BY <2>1, <1>7
  <2>3. s[m] = IF k < i THEN s[k] ELSE s[k + 1]
    BY <2>2
  <2> QED BY <2>1, <2>3
<1> QED BY <1>2, <1>8, <1>9 DEF Without

-----------------------------------------------------------------------------
(***************************************************************************)
(* Queues: from the head, which the tail leads to, to the tail.            *)
(***************************************************************************)
Spells(s, tp, next, M) ==
  IF tp \in Proc THEN Path(s, next, next[tp], tp, M) ELSE s = <<>> /\ M = {}

LEMMA RingSpells ==
  ASSUME NEW M \in SUBSET Proc, NEW tp, NEW next, NEW prev, Ring(tp, next, prev, M)
  PROVE  \E s : Spells(s, tp, next, M)
<1>1. CASE M = {}
  <2>1. Spells(<<>>, tp, next, M)
    BY <1>1, NullIsNoBlock DEF Ring, Spells
  <2> QED BY <2>1
<1>2. CASE M # {}
  <2>1. tp \in M
    BY <1>2 DEF Ring
  <2> QED BY <2>1, RingPath DEF Spells
<1> QED BY <1>1, <1>2

LEMMA SpellsAlong ==
  ASSUME NEW M \in SUBSET Proc, NEW s, NEW tp, NEW next, Spells(s, tp, next, M)
  PROVE  (IF tp \in Proc THEN Along(next, next[tp], tp) ELSE <<>>) = s
BY PathIsAlong DEF Spells

\* A ring is spelt from its head to its tail, the head first.
LEMMA SpellsEnds ==
  ASSUME NEW M \in SUBSET Proc, NEW s, NEW tp, NEW next, NEW prev,
         Ring(tp, next, prev, M), Spells(s, tp, next, M)
  PROVE  /\ s \in Seq(M) /\ L!Members(s) = M /\ (s = <<>> <=> M = {})
         /\ \A i, j \in 1 .. Len(s) : s[i] = s[j] => i = j
         /\ M # {} => /\ tp \in M /\ s # <<>> /\ Path(s, next, next[tp], tp, M)
                      /\ s[1] = next[tp] /\ s[Len(s)] = tp
<1>1. CASE M = {}
  <2>1. s = <<>>
    BY <1>1, NullIsNoBlock DEF Ring, Spells
  <2> QED BY <1>1, <2>1 DEF L!Members
<1>2. CASE M # {}
  <2>1. tp \in M /\ Path(s, next, next[tp], tp, M)
    BY <1>2 DEF Ring, Spells
  <2>2. s # <<>> /\ Len(s) \in Nat /\ Len(s) # 0 /\ s \in Seq(M) /\ L!Members(s) = M
    BY <1>2, <2>1, PathIndex
  <2>3. s[Len(s)] \in M
    BY <2>2
  <2>4. next[s[Len(s)]] \in Proc
    BY <2>3 DEF Ring
  <2>5. s[1] = next[tp] /\ s[Len(s)] = tp
        /\ \A i, j \in 1 .. Len(s) : s[i] = s[j] => i = j
    BY <2>1, <2>2, <2>4 DEF Path
  <2> QED BY <1>2, <2>1, <2>2, <2>5
<1> QED BY <1>1, <1>2

\* insertProcQ appends.
LEMMA SpellsInsert ==
  ASSUME NEW M \in SUBSET Proc, NEW p \in Proc \ M, NEW s, NEW tp,
         pcb_next \in [Proc -> Ptr], pcb_prev \in [Proc -> Ptr],
         Ring(tp, pcb_next, pcb_prev, M), Spells(s, tp, pcb_next, M)
  PROVE  Spells(Append(s, p), p, insertProcQ(tp, p).next, M \cup {p})
<1>1. PICK next : next = insertProcQ(tp, p).next
  OBVIOUS
<1>2. PICK t : t = Append(s, p)
  OBVIOUS
<1>3. CASE M = {}
  <2>1. tp = NULL /\ s = <<>>
    BY <1>3, NullIsNoBlock DEF Ring, Spells
  <2>2. next = [pcb_next EXCEPT ![p] = p]
    BY <1>1, <2>1 DEF insertProcQ
  <2>3. next[p] = p /\ t = <<p>> /\ M \cup {p} = {p}
    BY <1>2, <1>3, <2>1, <2>2
  <2>4. Path(t, next, next[p], p, M \cup {p})
    BY <2>3 DEF Path
  <2> QED BY <1>1, <1>2, <2>4 DEF Spells
<1>4. CASE M # {}
  <2>1. /\ tp \in M /\ s \in Seq(M) /\ s # <<>> /\ s[1] = pcb_next[tp] /\ s[Len(s)] = tp
        /\ Path(s, pcb_next, pcb_next[tp], tp, M)
    BY <1>4, SpellsEnds
  <2>2. PICK n : n = Len(s)
    OBVIOUS
  <2>3. n \in Nat /\ n > 0 /\ \A i \in 1 .. n : s[i] \in M
    BY <2>1, <2>2
  <2>4. next = [pcb_next EXCEPT ![p] = pcb_next[tp], ![tp] = p]
    BY <1>1, <2>1, NullIsNoBlock DEF insertProcQ
  <2>5. /\ next[p] = pcb_next[tp] /\ next[tp] = p
        /\ \A y \in M \ {tp} : next[y] = pcb_next[y]
    BY <2>1, <2>4
  <2>6. /\ t \in Seq(M \cup {p}) /\ Len(t) = n + 1 /\ t[n + 1] = p /\ t # <<>>
        /\ \A i \in 1 .. n : t[i] = s[i]
    <3>1. s \in Seq(M \cup {p})
      BY <2>1, SeqMonotonic
    <3> QED BY <3>1, <1>2, <2>2, <2>3, AppendProperties
  <2>7. \A i, j \in 1 .. n + 1 : t[i] = t[j] => i = j
    BY <2>1, <2>2, <2>3, <2>6 DEF Path
  <2>8. \A y \in M \cup {p} : \E i \in 1 .. n + 1 : t[i] = y
    <3>1. ASSUME NEW y \in M PROVE \E i \in 1 .. n + 1 : t[i] = y
      <4>1. PICK i \in 1 .. n : s[i] = y
        BY <2>1, <2>2 DEF Path
      <4> QED BY <4>1, <2>3, <2>6
    <3> QED BY <3>1, <2>3, <2>6
  <2>9. \A i \in 1 .. n : t[i] # p /\ next[t[i]] = t[i + 1]
    <3>1. ASSUME NEW i \in 1 .. n PROVE t[i] # p /\ next[t[i]] = t[i + 1]
      <4>1. CASE i = n
        BY <4>1, <2>1, <2>2, <2>3, <2>5, <2>6
      <4>2. CASE i # n
        <5>1. i \in 1 .. n - 1 /\ i + 1 \in 1 .. n
          BY <4>2, <2>3
        <5>2. s[i] # tp /\ pcb_next[s[i]] = s[i + 1]
          BY <5>1, <2>1, <2>2 DEF Path
        <5> QED BY <5>1, <5>2, <2>3, <2>5, <2>6
      <4> QED BY <4>1, <4>2
    <3> QED BY <3>1
  <2>10. t[1] = next[p]
    BY <2>1, <2>3, <2>5, <2>6
  <2>11. Path(t, next, next[p], p, M \cup {p})
    BY <2>3, <2>6, <2>7, <2>8, <2>9, <2>10 DEF Path
  <2> QED BY <1>1, <1>2, <2>11 DEF Spells
<1> QED BY <1>3, <1>4

\* outProcQ takes the block out of the sequence, wherever it is.
LEMMA SpellsOut ==
  ASSUME NEW M \in SUBSET Proc, NEW p \in M, NEW s, NEW tp,
         pcb_next \in [Proc -> Ptr], pcb_prev \in [Proc -> Ptr],
         Ring(tp, pcb_next, pcb_prev, M), Spells(s, tp, pcb_next, M)
  PROVE  Spells(L!outProcQ(s, {p}), outProcQ(tp, p).tail, outProcQ(tp, p).next, M \ {p})
<1>1. OnQueue(tp, p)
  BY RingFound
<1>2. /\ tp \in M /\ s \in Seq(M) /\ s # <<>> /\ Path(s, pcb_next, pcb_next[tp], tp, M)
      /\ \A i, j \in 1 .. Len(s) : s[i] = s[j] => i = j
  <2>1. tp \in M
    BY DEF Ring
  <2>2. Path(s, pcb_next, pcb_next[tp], tp, M)
    BY <2>1 DEF Spells
  <2>3. s \in Seq(M) /\ s # <<>>
    BY <2>2, PathIndex
  <2> QED BY <2>1, <2>2, <2>3 DEF Path
<1>3. PICK i \in 1 .. Len(s) : s[i] = p
  BY <1>2 DEF Path
<1>4. L!outProcQ(s, {p}) = Without(s, i)
  BY <1>2, <1>3, OutOfOne
<1>5. CASE pcb_next[p] = p
  <2>1. M = {p}
    <3>1. {p} \in SUBSET M /\ {p} # {} /\ \A q \in {p} : pcb_next[q] \in {p}
      BY <1>5
    <3> QED BY <3>1 DEF Ring
  <2>2. outProcQ(tp, p).tail = NULL
    BY <1>1, <1>2, <1>5, <2>1 DEF outProcQ
  <2>3. Len(s) = 1
    <3>1. Len(s) \in Nat /\ Len(s) # 0 /\ \A j \in 1 .. Len(s) : s[j] \in M
      BY <1>2, EmptySeq
    <3>2. \A j \in 1 .. Len(s) : s[j] = p
      BY <3>1, <2>1
    <3>3. 1 \in 1 .. Len(s) /\ Len(s) \in 1 .. Len(s)
      BY <3>1
    <3> QED BY <3>2, <3>3, <1>2
  <2>4. Without(s, i) = <<>>
    BY <2>3 DEF Without
  <2> QED BY <1>4, <2>1, <2>2, <2>4, NullIsNoBlock DEF Spells
<1>6. CASE pcb_next[p] # p
  <2>1. PICK b \in M : b = pcb_prev[p] /\ pcb_next[b] = p /\ b # p
    BY <1>6 DEF Ring
  <2>2. PICK h \in M : h = pcb_next[p]
    BY DEF Ring
  <2>3. PICK next, tail : next = outProcQ(tp, p).next /\ tail = outProcQ(tp, p).tail
    OBVIOUS
  <2>4. next = [pcb_next EXCEPT ![b] = h] /\ tail = IF p = tp THEN b ELSE tp
    BY <1>1, <1>6, <2>1, <2>2, <2>3 DEF outProcQ
  <2>5. \A y \in M : pcb_next[y] = p <=> y = b
    BY <2>1 DEF Ring
  <2>6. \A y \in M \ {p} : next[y] = IF pcb_next[y] = p THEN pcb_next[p] ELSE pcb_next[y]
    BY <2>2, <2>4, <2>5
  <2>7. M # {p} /\ IF tp = p THEN pcb_next[tail] = p /\ tail \in M \ {p} ELSE tail = tp
    BY <2>1, <2>4
  <2>8. Path(Without(s, i), next,
             IF p = pcb_next[tp] THEN pcb_next[p] ELSE pcb_next[tp], tail, M \ {p})
    <3>1. Bypass(pcb_next, next, tp, tail, p, M)
      BY <2>6, <2>7 DEF Bypass
    <3> QED BY <1>2, <1>3, <3>1, PathOut
  <2>9. next[tail] = IF p = pcb_next[tp] THEN pcb_next[p] ELSE pcb_next[tp]
    BY <1>2, <1>6, <2>1, <2>2, <2>4, <2>5
  <2>10. tail \in Proc
    BY <1>2, <2>1, <2>4
  <2> QED BY <1>4, <2>3, <2>8, <2>9, <2>10 DEF Spells
<1> QED BY <1>5, <1>6

-----------------------------------------------------------------------------
(***************************************************************************)
(* What the pointers spell in one state.                                   *)
(***************************************************************************)

\* Where the tail of a queue is kept.
TailsKnown ==
  /\ TailOf(READY) = readyQueue
  /\ \A s \in Sem, d \in Waiting : s_semAdd[d] = s => TailOf(s) = s_procQ[d]
  /\ \A s \in Sem : (\A d \in Waiting : s_semAdd[d] # s) => TailOf(s) = NULL

\* The line of a queue: its blocks from the head to the tail, each once.
LinesSpelt ==
  \A q \in Queue : /\ At(q) \in SUBSET Proc
                   /\ Ring(TailOf(q), pcb_next, pcb_prev, At(q))
                   /\ Spells(Lines[q], TailOf(q), pcb_next, At(q))

LEMMA KnownTails == QueueInv => TailsKnown
<1> SUFFICES ASSUME QueueInv PROVE TailsKnown
  OBVIOUS
<1>1. TailOf(READY) = readyQueue
  BY DEF TailOf
<1>2. ASSUME NEW s \in Sem, NEW d \in Waiting, s_semAdd[d] = s
      PROVE  TailOf(s) = s_procQ[d]
  <2>1. \A e \in Waiting : s_semAdd[e] = s => e = d
    BY <1>2, WaitingRing DEF AslInv, Addresses
  <2>2. (CHOOSE e \in Waiting : s_semAdd[e] = s) = d
    BY <1>2, <2>1
  <2> QED BY <1>2, <2>2, PlacesApart DEF TailOf
<1>3. ASSUME NEW s \in Sem, \A d \in Waiting : s_semAdd[d] # s PROVE TailOf(s) = NULL
  BY <1>3, PlacesApart DEF TailOf
<1> QED BY <1>1, <1>2, <1>3 DEF TailsKnown

LEMMA SpeltLines == QueueInv => LinesSpelt
<1> SUFFICES ASSUME QueueInv, NEW q \in Queue
             PROVE  /\ At(q) \in SUBSET Proc
                    /\ Ring(TailOf(q), pcb_next, pcb_prev, At(q))
                    /\ Spells(Lines[q], TailOf(q), pcb_next, At(q))
  BY DEF LinesSpelt
<1>1. TailsKnown
  BY KnownTails
<1>2. PICK M \in SUBSET Proc : M = At(q)
  BY DEF At
<1>3. PICK tp : tp = TailOf(q)
  OBVIOUS
<1>4. Ring(tp, pcb_next, pcb_prev, M)
  <2>1. CASE q = READY
    BY <2>1, <1>1, <1>2, <1>3 DEF TailsKnown, QueueInv, QueuesAreRings
  <2>2. CASE q \in Sem /\ At(q) # {}
    <3>1. PICK d \in Waiting : s_semAdd[d] = q
      BY <2>2, WaitingRing
    <3> QED BY <3>1, <1>1, <1>2, <1>3, WaitingRing DEF TailsKnown
  <2>3. CASE q \in Sem /\ At(q) = {}
    <3>1. tp = NULL
      BY <2>3, <1>1, <1>3, WaitingRing DEF TailsKnown
    <3> QED BY <3>1, <2>3, <1>2 DEF Ring
  <2> QED BY <2>1, <2>2, <2>3 DEF Queue
<1>5. PICK s : Spells(s, tp, pcb_next, M)
  BY <1>4, RingSpells
<1>6. (IF tp \in Proc THEN Along(pcb_next, pcb_next[tp], tp) ELSE <<>>) = s
  BY <1>5, SpellsAlong
<1>7. Lines[q] = s
  BY <1>3, <1>6 DEF Lines, QueueOf
<1> QED BY <1>2, <1>3, <1>4, <1>5, <1>7

\* The stack holds the blocks of the pool.
LEMMA FreeBlocksAre == QueueInv => FreeBlocks = At(FREE)
<1> SUFFICES ASSUME QueueInv PROVE FreeBlocks = At(FREE)
  OBVIOUS
<1>1. PICK M \in SUBSET Proc : M = At(FREE)
  BY DEF At
<1>2. PICK s : Path(s, pcb_next, pcb_FREE_h, NULL, M)
  BY <1>1, ChainPath DEF QueueInv, FreeStackExact
<1>3. Along(pcb_next, pcb_FREE_h, NULL) = s
  BY <1>2, PathIsAlong
<1>4. {s[i] : i \in DOMAIN s} = M
  BY <1>2, PathIndex DEF L!Members
<1> QED BY <1>1, <1>3, <1>4 DEF FreeBlocks

\* The children of a block, the first child first.
KidsSpelt ==
  \A r \in Proc : /\ Children(r) \in SUBSET Proc
                  /\ Path(Kids[r], pcb_nextSib, pcb_child[r], NULL, Children(r))

LEMMA SpeltKids == TreeInv => KidsSpelt
<1> SUFFICES ASSUME TreeInv, NEW r \in Proc
             PROVE  /\ Children(r) \in SUBSET Proc
                    /\ Path(Kids[r], pcb_nextSib, pcb_child[r], NULL, Children(r))
  BY DEF KidsSpelt
<1>1. PICK C \in SUBSET Proc : C = Children(r)
  BY DEF Children
<1>2. Family(pcb_child[r], pcb_nextSib, pcb_prevSib, C)
  BY <1>1, SiblingsAreFamilies DEF TreeInv
<1>3. PICK s : Path(s, pcb_nextSib, pcb_child[r], NULL, C)
  <2>1. CASE C = {}
    <3>1. Path(<<>>, pcb_nextSib, pcb_child[r], NULL, C)
      BY <2>1, <1>2, NullIsNoBlock DEF Family, Path
    <3> QED BY <3>1
  <2>2. CASE C # {}
    BY <2>2, <1>2, ChainPath DEF Family
  <2> QED BY <2>1, <2>2
<1>4. Kids[r] = s
  BY <1>3, PathIsAlong DEF Kids
<1> QED BY <1>1, <1>3, <1>4

\* The same in the next state.
Spelt == TailsKnown /\ FreeBlocks = At(FREE)

LEMMA AreSpelt == (QueueInv => Spelt) /\ (QueueInv' => Spelt')
<1>1. QueueInv => Spelt
  BY KnownTails, FreeBlocksAre DEF Spelt
<1> QED BY <1>1, PTL

LEMMA NextLines ==
  ASSUME QueueInv'
  PROVE  TailsKnown' /\ FreeBlocks' = At(FREE)'
<1>1. Spelt'
  BY AreSpelt
<1> QED BY <1>1 DEF Spelt

LEMMA WaitingFirst ==
  ASSUME QueueInv, NEW s \in Sem, At(s) # {}
  PROVE  headBlocked(s) = Lines[s][1] /\ Lines[s] # <<>> /\ Lines[s] \in Seq(Proc)
<1>1. PICK d : d = s_next[searchASL(s)]
  OBVIOUS
<1>2. d \in Waiting /\ s_semAdd[d] = s
  BY <1>1, WaitingRing, SearchFinds
<1>3. PICK tp : tp = TailOf(s)
  OBVIOUS
<1>4. s_procQ[d] = tp
  BY <1>2, <1>3, KnownTails DEF TailsKnown
<1>5. PICK M \in SUBSET Proc : M = At(s)
  BY DEF At
<1>6. s \in Queue
  BY DEF Queue
<1>7. Ring(tp, pcb_next, pcb_prev, M) /\ Spells(Lines[s], tp, pcb_next, M)
  BY <1>3, <1>5, <1>6, SpeltLines DEF LinesSpelt
<1>8. tp \in M /\ Lines[s] # <<>> /\ Lines[s][1] = pcb_next[tp] /\ Lines[s] \in Seq(M)
  BY <1>5, <1>7, SpellsEnds, ZenonT(60)
<1>9. headBlocked(s) = pcb_next[tp]
  BY <1>1, <1>4, <1>8, NullIsNoBlock DEF headBlocked, headProcQ
<1> QED BY <1>8, <1>9, SeqMonotonic

\* headBlocked gives the block that has waited longest, whatever came on and went
\* off the queue since, from its middle or its ends.
THEOREM HeadBlockedFindsCorrect == Spec => []HeadBlockedFinds
<1>1. QueueInv => HeadBlockedFinds
  <2>1. SUFFICES ASSUME QueueInv, NEW s \in Sem, At(s) # {}
                 PROVE  headBlocked(s) = Head(QueueOf(TailOf(s)))
    BY DEF HeadBlockedFinds
  <2>2. QueueOf(TailOf(s)) = Lines[s]
    BY DEF Lines, Queue
  <2> QED BY <2>1, <2>2, WaitingFirst
<1> QED BY <1>1, QueueInvariance, PTL

-----------------------------------------------------------------------------
(***************************************************************************)
(* What one call does to the lines.                                        *)
(***************************************************************************)

\* What the next state's pointers spell is that queue's next line.
LEMMA LineIs ==
  ASSUME NEW q \in Queue, NEW M \in SUBSET Proc, NEW s, NEW tp, TailOf(q)' = tp,
         Spells(s, tp, pcb_next', M)
  PROVE  Lines'[q] = s
<1>1. (IF tp \in Proc THEN Along(pcb_next', pcb_next'[tp], tp) ELSE <<>>) = s
  BY SpellsAlong
<1>2. Lines'[q] = QueueOf(TailOf(q))'
  BY DEF Lines, Queue
<1>3. QueueOf(TailOf(q))' = IF tp \in Proc THEN Along(pcb_next', pcb_next'[tp], tp) ELSE <<>>
  BY DEF QueueOf, Along
<1> QED BY <1>1, <1>2, <1>3

\* A queue whose tail and links the call leaves alone.
LineStays(q) == /\ TailOf(q)' = TailOf(q)
                /\ \A y \in At(q) : pcb_next'[y] = pcb_next[y]

LEMMA StaysSame ==
  ASSUME QueueInv, NEW q \in Queue, LineStays(q)
  PROVE  Lines'[q] = Lines[q]
<1>1. PICK M \in SUBSET Proc : M = At(q)
  BY DEF At
<1>2. PICK tp : tp = TailOf(q)
  OBVIOUS
<1>3. Ring(tp, pcb_next, pcb_prev, M) /\ Spells(Lines[q], tp, pcb_next, M)
  BY <1>1, <1>2, SpeltLines DEF LinesSpelt
<1>4. \A y \in M : pcb_next'[y] = pcb_next[y]
  BY <1>1 DEF LineStays
<1>5. Spells(Lines[q], tp, pcb_next', M)
  <2>1. CASE tp \in Proc
    <3>1. tp \in M
      BY <2>1, <1>3, NullIsNoBlock DEF Ring
    <3>2. Path(Lines[q], pcb_next, pcb_next[tp], tp, M)
      BY <2>1, <1>3 DEF Spells
    <3>3. Path(Lines[q], pcb_next', pcb_next[tp], tp, M)
      BY <3>2, <1>4, PathSame
    <3> QED BY <3>1, <3>3, <1>4, <2>1 DEF Spells
  <2>2. CASE tp \notin Proc
    BY <2>2, <1>3 DEF Spells
  <2> QED BY <2>1, <2>2
<1> QED BY <1>2, <1>5, LineIs DEF LineStays

LEMMA LineInsert ==
  ASSUME QueueInv, NEW q \in Queue, NEW p \in Proc, p \notin At(q), TailOf(q)' = p,
         pcb_next' = insertProcQ(TailOf(q), p).next
  PROVE  Lines'[q] = Append(Lines[q], p)
<1>1. PICK M \in SUBSET Proc : M = At(q)
  BY DEF At
<1>2. PICK tp : tp = TailOf(q)
  OBVIOUS
<1>3. Ring(tp, pcb_next, pcb_prev, M) /\ Spells(Lines[q], tp, pcb_next, M)
  BY <1>1, <1>2, SpeltLines DEF LinesSpelt
<1>4. pcb_next \in [Proc -> Ptr] /\ pcb_prev \in [Proc -> Ptr]
  BY DEF QueueInv, QueueType
<1>5. Spells(Append(Lines[q], p), p, pcb_next', M \cup {p})
  BY <1>1, <1>2, <1>3, <1>4, SpellsInsert
<1> QED BY <1>5, LineIs

LEMMA LineOut ==
  ASSUME QueueInv, NEW q \in Queue, NEW p \in At(q),
         TailOf(q)' = outProcQ(TailOf(q), p).tail,
         pcb_next' = outProcQ(TailOf(q), p).next
  PROVE  Lines'[q] = L!outProcQ(Lines[q], {p}) /\ p \in L!Members(Lines[q])
<1>1. PICK M \in SUBSET Proc : M = At(q)
  BY DEF At
<1>2. PICK tp : tp = TailOf(q)
  OBVIOUS
<1>3. Ring(tp, pcb_next, pcb_prev, M) /\ Spells(Lines[q], tp, pcb_next, M)
  BY <1>1, <1>2, SpeltLines DEF LinesSpelt
<1>4. pcb_next \in [Proc -> Ptr] /\ pcb_prev \in [Proc -> Ptr]
  BY DEF QueueInv, QueueType
<1>5. PICK tail, s : tail = TailOf(q)' /\ s = Lines[q]
  OBVIOUS
<1>6. Spells(L!outProcQ(s, {p}), tail, pcb_next', M \ {p})
  <2>1. p \in M /\ Ring(tp, pcb_next, pcb_prev, M) /\ Spells(s, tp, pcb_next, M)
    BY <1>1, <1>3, <1>5
  <2>2. Spells(L!outProcQ(s, {p}), outProcQ(tp, p).tail, outProcQ(tp, p).next, M \ {p})
    BY <2>1, <1>4, SpellsOut
  <2> QED BY <2>2, <1>2, <1>5
<1>7. Lines'[q] = L!outProcQ(s, {p})
  BY <1>5, <1>6, LineIs
<1>8. p \in L!Members(s)
  BY <1>1, <1>3, <1>5, SpellsEnds
<1> QED BY <1>5, <1>7, <1>8

\* Where the tails are after insertBlocked, removeBlocked or outBlocked.
LEMMA StepTails ==
  ASSUME QueueInv, QueueInv', NEW p \in Proc, NEW s \in Sem, NEW w \in {HELD, s},
         NEW d \in 1 .. MAXPROC, NEW M, SemaphoreStep(p, s, w, d, M)
  PROVE  /\ TailOf(s) = (IF d \in Waiting THEN s_procQ[d] ELSE NULL)
         /\ TailOf(s)' = s_procQ'[d]
         /\ \A q \in Queue : q # s => LineStays(q)
<1> USE DEF SemaphoreStep
<1>1. TailsKnown /\ TailsKnown'
  BY KnownTails, NextLines
<1>2. TailOf(s) = (IF d \in Waiting THEN s_procQ[d] ELSE NULL)
  <2>1. CASE d \in Waiting
    BY <1>1, <2>1 DEF TailsKnown
  <2>2. CASE d \notin Waiting
    <3>1. \A e \in Waiting : s_semAdd[e] # s
      BY <2>2
    <3> QED BY <1>1, <2>2, <3>1 DEF TailsKnown
  <2> QED BY <2>1, <2>2
<1>3. \A e \in Waiting' : e # d => e \in Waiting /\ s_semAdd'[e] = s_semAdd[e]
                                   /\ s_semAdd'[e] # s /\ s_procQ'[e] = s_procQ[e]
  <2>1. \A e \in Waiting' : e # d => e \in Waiting \ {d}
    OBVIOUS
  <2> QED BY <2>1
<1>4. TailOf(s)' = s_procQ'[d]
  <2>1. CASE M = {}
    <3>1. s_procQ'[d] = NULL
      BY <2>1 DEF Ring
    <3>2. \A e \in Waiting' : s_semAdd'[e] # s
      BY <2>1, <1>3
    <3> QED BY <1>1, <3>1, <3>2 DEF TailsKnown
  <2>2. CASE M # {}
    BY <1>1, <2>2 DEF TailsKnown
  <2> QED BY <2>1, <2>2
<1>5. ASSUME NEW q \in Queue, q # s
      PROVE  LineStays(q)
  <2>1. TailOf(q)' = TailOf(q)
    <3>1. CASE q = READY
      BY <1>1, <3>1 DEF TailsKnown
    <3>2. CASE q \in Sem /\ \E e \in Waiting : s_semAdd[e] = q
      <4>1. PICK e \in Waiting : s_semAdd[e] = q
        BY <3>2
      <4>2. e \in Waiting \ {d}
        BY <4>1, <1>5
      <4>3. e \in Waiting' /\ s_semAdd'[e] = q /\ s_procQ'[e] = s_procQ[e]
        BY <4>1, <4>2
      <4> QED BY <1>1, <3>2, <4>1, <4>3 DEF TailsKnown
    <3>3. CASE q \in Sem /\ \A e \in Waiting : s_semAdd[e] # q
      <4>1. \A e \in Waiting' : s_semAdd'[e] # q
        BY <3>3, <1>3, <1>5
      <4> QED BY <1>1, <3>3, <4>1 DEF TailsKnown
    <3> QED BY <3>1, <3>2, <3>3 DEF Queue
  <2>2. q # HELD
    BY PlacesApart DEF Queue
  <2>3. \A y \in At(q) : y \in Proc /\ y # p /\ where[y] # s
    BY <1>5, <2>2 DEF At
  <2> QED BY <2>1, <2>3 DEF LineStays
<1> QED BY <1>2, <1>4, <1>5

\* A call on the ready queue, or on none, leaves the semaphores' tails.
LEMMA TailsStay ==
  ASSUME UNCHANGED aslVars, NEW q \in Sem
  PROVE  TailOf(q)' = TailOf(q)
<1>1. s_semAdd' = s_semAdd /\ s_procQ' = s_procQ /\ Waiting' = Waiting
  BY DEF aslVars, Waiting
<1> QED BY <1>1, PlacesApart DEF TailOf

LEMMA ReadyTail == TailOf(READY) = readyQueue /\ TailOf(READY)' = readyQueue'
BY DEF TailOf

\* The lines as a whole.
LEMMA OneLine ==
  ASSUME QueueInv, NEW q \in Queue, \A v \in Queue : v # q => LineStays(v)
  PROVE  Lines' = [Lines EXCEPT ![q] = Lines'[q]]
<1>1. \A v \in Queue : v # q => Lines'[v] = Lines[v]
  BY StaysSame
<1>2. DOMAIN Lines' = Queue /\ Lines' = [v \in Queue |-> Lines'[v]]
  BY DEF Lines, Queue
<1>3. Lines = [v \in Queue |-> Lines[v]]
  BY DEF Lines
<1> QED BY <1>1, <1>2, <1>3

LEMMA NoLine ==
  ASSUME QueueInv, \A v \in Queue : LineStays(v)
  PROVE  Lines' = Lines
<1>1. \A v \in Queue : Lines'[v] = Lines[v]
  BY StaysSame
<1>2. Lines' = [v \in Queue |-> Lines'[v]] /\ Lines = [v \in Queue |-> Lines[v]]
  BY DEF Lines, Queue
<1> QED BY <1>1, <1>2

LEMMA SameKids == ASSUME UNCHANGED treeVars PROVE Kids' = Kids
<1>1. pcb_child' = pcb_child /\ pcb_nextSib' = pcb_nextSib
  BY DEF treeVars
<1> QED BY <1>1 DEF Kids, Along

-----------------------------------------------------------------------------
(***************************************************************************)
(* Each call is the step of Lists, or changes nothing there.               *)
(***************************************************************************)
LEMMA LQueueIs == L!Queue = Queue
BY DEF L!Queue, Queue

\* The links a queue operation leaves alone.
LEMMA InsertElsewhere ==
  ASSUME NEW M \in SUBSET Proc, NEW p \in Proc \ M, NEW tp,
         pcb_next \in [Proc -> Ptr], pcb_prev \in [Proc -> Ptr],
         Ring(tp, pcb_next, pcb_prev, M)
  PROVE  \A y \in Proc \ (M \cup {p}) : insertProcQ(tp, p).next[y] = pcb_next[y]
<1> DEFINE in == insertProcQ(tp, p)
<1>1. /\ Ring(in.tail, in.next, in.prev, M \cup {p})
      /\ \A q \in Proc \ (M \cup {p}) :
            in.next[q] = pcb_next[q] /\ in.prev[q] = pcb_prev[q]
      /\ in.tail = p /\ in.next \in [Proc -> Ptr] /\ in.prev \in [Proc -> Ptr]
  BY RingInsert, Zenon
<1> HIDE DEF in
<1>2. \A y \in Proc \ (M \cup {p}) : in.next[y] = pcb_next[y]
  BY <1>1
<1> QED BY <1>2 DEF in

TakesOnly(out, p, M) ==
  out.found = p /\ \A y \in Proc \ M : out.next[y] = pcb_next[y]

LEMMA OutElsewhere ==
  ASSUME NEW M \in SUBSET Proc, NEW tp, NEW p \in M,
         pcb_next \in [Proc -> Ptr], pcb_prev \in [Proc -> Ptr],
         Ring(tp, pcb_next, pcb_prev, M)
  PROVE  TakesOnly(outProcQ(tp, p), p, M)
<1> DEFINE out == outProcQ(tp, p)
<1>1. /\ Ring(out.tail, out.next, out.prev, M \ {p})
      /\ \A q \in Proc \ M : out.next[q] = pcb_next[q] /\ out.prev[q] = pcb_prev[q]
      /\ out.found = p
      /\ out.tail \in M \cup {NULL} /\ (out.tail = NULL <=> M = {p})
      /\ out.next \in [Proc -> Ptr] /\ out.prev \in [Proc -> Ptr]
  BY RingOut, Zenon
<1> HIDE DEF out
<1>2. TakesOnly(out, p, M)
  BY <1>1 DEF TakesOnly
<1> QED BY <1>2 DEF out

LEMMA HeldReturned ==
  ASSUME QueueInv, NEW p \in Proc, NEW w, Returned(p, w)
  PROVE  /\ At(HELD)' = IF w = HELD THEN At(HELD) \cup {p} ELSE At(HELD) \ {p}
         /\ At(FREE)' = IF w = FREE THEN At(FREE) \cup {p} ELSE At(FREE) \ {p}
BY AtReturned DEF QueueInv, At

LEMMA AllocImplements ==
  ASSUME QueueInv, QueueInv', TreeInv, TreeInv', Alloc
  PROVE  \E p \in Proc : L!Alloc(p)
<1>1. PICK p \in Proc : allocPcb(p) /\ Returned(p, HELD)
  BY DEF Alloc
<1>2. p \in At(FREE)
  <2>1. Chain(pcb_FREE_h, pcb_next, At(FREE)) /\ pcb_FREE_h = p
    BY <1>1 DEF QueueInv, FreeStackExact, allocPcb
  <2> QED BY <2>1, NullIsNoBlock DEF Chain
<1>3. FreeBlocks' = FreeBlocks \ {p} /\ At(HELD)' = At(HELD) \cup {p} /\ p \in FreeBlocks
  BY <1>1, <1>2, HeldReturned, FreeBlocksAre, NextLines, PlacesApart
<1>4. Lines' = Lines
  <2>1. ASSUME NEW q \in Queue PROVE LineStays(q)
    <3>1. TailOf(q)' = TailOf(q)
      BY TailsStay, ReadyTail DEF Alloc, Queue
    <3>2. \A y \in At(q) : y \in Proc /\ y # p
      BY <1>2, PlacesApart DEF At, Queue
    <3>3. \A y \in Proc : y # p => pcb_next'[y] = pcb_next[y]
      BY <1>1 DEF allocPcb, QueueInv, QueueType
    <3> QED BY <3>1, <3>2, <3>3 DEF LineStays
  <2> QED BY <2>1, NoLine
<1>5. Kids' = Kids
  <2>1. /\ pcb_parent' = pcb_parent /\ pcb_child' = [pcb_child EXCEPT ![p] = NULL]
        /\ pcb_nextSib' = [pcb_nextSib EXCEPT ![p] = NULL]
    BY <1>1 DEF allocPcb
  <2>2. pcb_parent[p] \notin Proc /\ Children(p) = {}
    BY <1>2 DEF TreeInv, OutsideFamilies, At
  <2>3. ASSUME NEW r \in Proc PROVE Kids'[r] = Kids[r]
    <3>1. PICK C \in SUBSET Proc : C = Children(r)
      BY DEF Children
    <3>2. Path(Kids[r], pcb_nextSib, pcb_child[r], NULL, C)
      BY <3>1, SpeltKids DEF KidsSpelt
    <3>3. \A y \in C : pcb_nextSib'[y] = pcb_nextSib[y]
      BY <2>1, <2>2, <3>1 DEF Children, TreeInv, TreeType
    <3>4. Path(Kids[r], pcb_nextSib', pcb_child[r], NULL, C)
      BY <3>2, <3>3, PathSame
    <3>5. Path(Kids[r], pcb_nextSib', pcb_child'[r], NULL, C)
      <4>1. CASE r = p
        <5>1. C = {} /\ Kids[r] = <<>>
          BY <4>1, <2>2, <3>1, <3>2, PathIndex
        <5>2. pcb_child'[r] = NULL
          BY <4>1, <2>1 DEF TreeInv, TreeType
        <5> QED BY <5>1, <5>2, NullIsNoBlock DEF Path
      <4>2. CASE r # p
        BY <4>2, <2>1, <3>4 DEF TreeInv, TreeType
      <4> QED BY <4>1, <4>2
    <3>6. Along(pcb_nextSib', pcb_child'[r], NULL) = Kids[r]
      BY <3>5, PathIsAlong
    <3>7. Kids'[r] = Along(pcb_nextSib', pcb_child'[r], NULL)
      BY DEF Kids, Along
    <3> QED BY <3>6, <3>7
  <2>4. Kids' = [r \in Proc |-> Kids'[r]] /\ Kids = [r \in Proc |-> Kids[r]]
    BY DEF Kids
  <2> QED BY <2>3, <2>4
<1> QED BY <1>3, <1>4, <1>5 DEF L!Alloc

\* The members of a block's line of children, and a block that has none.
LEMMA KidsMembers ==
  ASSUME TreeInv, NEW r \in Proc
  PROVE  /\ L!Members(Kids[r]) = Children(r)
         /\ pcb_child[r] = NULL => Kids[r] = <<>>
         /\ pcb_child[r] # NULL /\ pcb_child[r] # ZERO =>
              Kids[r] # <<>> /\ Kids[r][1] = pcb_child[r]
<1>1. PICK C \in SUBSET Proc : C = Children(r)
  BY DEF Children
<1>2. PICK s : s = Kids[r]
  OBVIOUS
<1>3. Path(s, pcb_nextSib, pcb_child[r], NULL, C)
  BY <1>1, <1>2, SpeltKids DEF KidsSpelt
<1>4. L!Members(s) = C
  BY <1>3, PathIndex
<1>5. s # <<>> => s[1] = pcb_child[r] /\ s[1] \in C
  <2>1. s # <<>> => Len(s) \in Nat /\ Len(s) # 0 /\ \A i \in 1 .. Len(s) : s[i] \in C
    BY <1>3, PathIndex
  <2>2. s # <<>> => s[1] = pcb_child[r]
    BY <1>3 DEF Path
  <2> QED BY <2>1, <2>2
<1>6. s = <<>> => pcb_child[r] \notin Proc
  BY <1>3 DEF Path
<1>7. pcb_child[r] \in Ptr
  BY DEF TreeInv, TreeType
<1> QED BY <1>1, <1>2, <1>4, <1>5, <1>6, <1>7, NullIsNoBlock DEF Ptr

\* A block that is alone has no family in Lists either.
LEMMA AloneThere ==
  ASSUME TreeInv, NEW p \in Proc, Alone(p)
  PROVE  ~L!Parented(p) /\ Kids[p] = <<>>
BY KidsMembers DEF Alone, L!Parented, Children

LEMMA FreeImplements ==
  ASSUME QueueInv, QueueInv', TreeInv, NEW p \in Proc, Free(p)
  PROVE  L!Free(p)
<1>1. where[p] = HELD /\ Alone(p) /\ freePcb(p) /\ Returned(p, FREE)
  BY DEF Free
<1>2. /\ FreeBlocks' = FreeBlocks \cup {p} /\ At(HELD)' = At(HELD) \ {p} /\ p \in At(HELD)
  BY <1>1, HeldReturned, FreeBlocksAre, NextLines, PlacesApart DEF At
<1>3. Lines' = Lines
  <2>1. ASSUME NEW q \in Queue PROVE LineStays(q)
    <3>1. TailOf(q)' = TailOf(q)
      BY TailsStay, ReadyTail DEF Free, Queue
    <3>2. \A y \in At(q) : y \in Proc /\ y # p
      BY <1>1, PlacesApart DEF At, Queue
    <3>3. \A y \in Proc : y # p => pcb_next'[y] = pcb_next[y]
      BY <1>1 DEF freePcb, QueueInv, QueueType
    <3> QED BY <3>1, <3>2, <3>3 DEF LineStays
  <2> QED BY <2>1, NoLine
<1>4. Kids' = Kids
  BY <1>1, SameKids DEF freePcb
<1> QED BY <1>1, <1>2, <1>3, <1>4, AloneThere DEF L!Free

LEMMA InsertImplements ==
  ASSUME QueueInv, QueueInv', NEW p \in Proc, Insert(p)
  PROVE  L!Insert(READY, p)
<1>1. /\ where[p] = HELD /\ Returned(p, READY) /\ UNCHANGED aslVars /\ UNCHANGED treeVars
      /\ readyQueue' = insertProcQ(readyQueue, p).tail
      /\ pcb_next' = insertProcQ(readyQueue, p).next
      /\ insertProcQ(readyQueue, p).tail = p
  BY DEF Insert, insertProcQ
<1>2. FreeBlocks' = FreeBlocks /\ At(HELD)' = At(HELD) \ {p} /\ p \in At(HELD)
  <2>1. p \notin At(FREE) /\ p \in At(HELD)
    BY <1>1, PlacesApart DEF At
  <2> QED BY <2>1, <1>1, HeldReturned, FreeBlocksAre, NextLines, PlacesApart
<1>3. READY \in Queue /\ p \notin At(READY)
  BY <1>1, PlacesApart DEF At, Queue
<1>4. Lines'[READY] = Append(Lines[READY], p)
  BY <1>1, <1>3, ReadyTail, LineInsert
<1>5. ASSUME NEW q \in Queue, q # READY PROVE LineStays(q)
  <2>1. PICK M \in SUBSET Proc : M = At(READY)
    BY DEF At
  <2>2. Ring(readyQueue, pcb_next, pcb_prev, M) /\ pcb_next \in [Proc -> Ptr]
        /\ pcb_prev \in [Proc -> Ptr] /\ p \notin M
    BY <1>3, <2>1 DEF QueueInv, QueueType, QueuesAreRings
  <2>3. \A y \in Proc \ (M \cup {p}) : insertProcQ(readyQueue, p).next[y] = pcb_next[y]
    BY <2>2, InsertElsewhere
  <2>4. \A y \in At(q) : y \in Proc \ (M \cup {p})
    BY <1>1, <1>5, <2>1, PlacesApart DEF At, Queue
  <2>5. TailOf(q)' = TailOf(q)
    BY <1>1, <1>5, TailsStay DEF Queue
  <2> QED BY <1>1, <2>3, <2>4, <2>5 DEF LineStays
<1>6. Lines' = [Lines EXCEPT ![READY] = Append(Lines[READY], p)]
  BY <1>3, <1>4, <1>5, OneLine
<1>7. Kids' = Kids
  BY <1>1, SameKids
<1> QED BY <1>2, <1>6, <1>7 DEF L!Insert, L!insertProcQ

\* removeProcQ and outProcQ on the ready queue.
LEMMA TookImplements ==
  ASSUME QueueInv, QueueInv', NEW p, TookReady(outProcQ(readyQueue, p))
  PROVE  IF p \in At(READY) THEN L!Out(READY, p) ELSE UNCHANGED L!vars
<1>1. PICK tail, next, found : /\ tail = outProcQ(readyQueue, p).tail
                               /\ next = outProcQ(readyQueue, p).next
                               /\ found = outProcQ(readyQueue, p).found
  OBVIOUS
<1>2. /\ Returned(found, HELD) /\ UNCHANGED aslVars /\ UNCHANGED treeVars
      /\ readyQueue' = tail /\ pcb_next' = next
  BY <1>1 DEF TookReady
<1>3. PICK M \in SUBSET Proc : M = At(READY)
  BY DEF At
<1>4. Ring(readyQueue, pcb_next, pcb_prev, M) /\ pcb_next \in [Proc -> Ptr]
      /\ pcb_prev \in [Proc -> Ptr] /\ READY \in Queue
  BY <1>3 DEF QueueInv, QueueType, QueuesAreRings, Queue
<1>5. Kids' = Kids
  BY <1>2, SameKids
<1>6. CASE p \notin M
  <2>1. tail = readyQueue /\ next = pcb_next /\ found = NULL
    BY <1>1, <1>4, <1>6, RingNotFound
  <2>2. where' = where
    BY <1>2, <2>1, NullIsNoBlock DEF Returned, QueueInv, QueueType
  <2>3. FreeBlocks' = FreeBlocks /\ At(HELD)' = At(HELD)
    <3>1. At(HELD)' = At(HELD) /\ At(FREE)' = At(FREE)
      BY <2>2 DEF At
    <3> QED BY <3>1, FreeBlocksAre, NextLines
  <2>4. \A q \in Queue : LineStays(q)
    BY <1>2, <2>1, TailsStay, ReadyTail DEF LineStays, Queue
  <2>5. Lines' = Lines
    BY <2>4, NoLine
  <2> QED BY <1>3, <1>5, <1>6, <2>3, <2>5 DEF L!vars
<1>7. CASE p \in M
  <2>1. p \in Proc /\ where[p] = READY
    BY <1>3, <1>7 DEF At
  <2>2. TakesOnly(outProcQ(readyQueue, p), p, M)
    BY <1>4, <1>7, OutElsewhere
  <2>9. found = p /\ \A y \in Proc \ M : next[y] = pcb_next[y]
    BY <1>1, <2>2 DEF TakesOnly
  <2>3. FreeBlocks' = FreeBlocks /\ At(HELD)' = At(HELD) \cup {p}
    <3>1. p \notin At(FREE)
      BY <2>1, PlacesApart DEF At
    <3> QED BY <1>2, <2>1, <2>9, <3>1, HeldReturned, FreeBlocksAre, NextLines, PlacesApart
  <2>4. Lines'[READY] = L!outProcQ(Lines[READY], {p}) /\ p \in L!Members(Lines[READY])
    BY <1>1, <1>2, <1>3, <1>4, <1>7, ReadyTail, LineOut
  <2>5. ASSUME NEW q \in Queue, q # READY PROVE LineStays(q)
    <3>1. \A y \in At(q) : y \in Proc \ M
      BY <1>3, <2>5 DEF At
    <3>2. TailOf(q)' = TailOf(q)
      BY <1>2, <2>5, TailsStay DEF Queue
    <3> QED BY <1>2, <2>9, <3>1, <3>2 DEF LineStays
  <2>6. Lines' = [Lines EXCEPT ![READY] = L!outProcQ(Lines[READY], {p})]
    BY <1>4, <2>4, <2>5, OneLine
  <2> QED BY <1>3, <1>5, <1>7, <2>3, <2>4, <2>6 DEF L!Out
<1> QED BY <1>6, <1>7

\* insertBlocked.
LEMMA BlockImplements ==
  ASSUME QueueInv, QueueInv', NEW s \in Sem, NEW p \in Proc, Block(s, p)
  PROVE  L!Insert(s, p)
<1>1. PICK d \in 1 .. MAXPROC : \E M : BlockStep(p, s, d, M)
  BY BlockIsStep
<1>2. PICK M : BlockStep(p, s, d, M)
  BY <1>1
<1>3. /\ SemaphoreStep(p, s, s, d, M) /\ s_procQ'[d] = p
      /\ pcb_next' = insertProcQ(IF d \in Waiting THEN s_procQ[d] ELSE NULL, p).next
  BY <1>2 DEF BlockStep
<1>4. /\ TailOf(s) = (IF d \in Waiting THEN s_procQ[d] ELSE NULL)
      /\ TailOf(s)' = s_procQ'[d]
      /\ \A q \in Queue : q # s => LineStays(q)
  BY <1>3, StepTails
<1>5. where[p] = HELD /\ Returned(p, s) /\ UNCHANGED treeVars /\ s \in Queue
      /\ p \notin At(s) /\ p \in At(HELD) /\ p \notin At(FREE)
  BY PlacesApart DEF Block, Queue, At
<1>6. FreeBlocks' = FreeBlocks /\ At(HELD)' = At(HELD) \ {p}
  BY <1>5, HeldReturned, FreeBlocksAre, NextLines, PlacesApart
<1>7. Lines'[s] = Append(Lines[s], p)
  BY <1>3, <1>4, <1>5, LineInsert
<1>8. Lines' = [Lines EXCEPT ![s] = Append(Lines[s], p)]
  BY <1>4, <1>5, <1>7, OneLine
<1>9. Kids' = Kids
  BY <1>5, SameKids
<1> QED BY <1>5, <1>6, <1>8, <1>9 DEF L!Insert, L!insertProcQ

\* removeBlocked and outBlocked.
LEMMA TakeOffImplements ==
  ASSUME QueueInv, QueueInv', NEW s \in Sem, NEW p \in At(s), TakesOff(s, p),
         UNCHANGED treeVars
  PROVE  L!Out(s, p)
<1>1. PICK d \in 1 .. MAXPROC : \E M : TakeOffStep(p, s, d, M)
  BY TakeOffIsStep
<1>2. PICK M : TakeOffStep(p, s, d, M)
  BY <1>1
<1>3. /\ SemaphoreStep(p, s, HELD, d, M) /\ d \in Waiting
      /\ s_procQ'[d] = outProcQ(s_procQ[d], p).tail
      /\ pcb_next' = outProcQ(s_procQ[d], p).next
  BY <1>2 DEF TakeOffStep
<1>4. p \in Proc /\ where[p] = s /\ s \in Queue /\ p \notin At(FREE)
  BY PlacesApart DEF Queue, At
<1>5. /\ TailOf(s) = s_procQ[d] /\ TailOf(s)' = s_procQ'[d]
      /\ \A q \in Queue : q # s => LineStays(q)
  BY <1>3, <1>4, StepTails
<1>6. FreeBlocks' = FreeBlocks /\ At(HELD)' = At(HELD) \cup {p}
  BY <1>4, HeldReturned, FreeBlocksAre, NextLines, PlacesApart DEF TakesOff
<1>7. Lines'[s] = L!outProcQ(Lines[s], {p}) /\ p \in L!Members(Lines[s])
  BY <1>3, <1>4, <1>5, LineOut
<1>8. Lines' = [Lines EXCEPT ![s] = L!outProcQ(Lines[s], {p})]
  BY <1>4, <1>5, <1>7, OneLine
<1>9. Kids' = Kids
  BY SameKids
<1> QED BY <1>6, <1>7, <1>8, <1>9 DEF L!Out

-----------------------------------------------------------------------------
(***************************************************************************)
(* The calls on the tree, which leave the queues alone.                    *)
(***************************************************************************)
LEMMA QueuesStay ==
  ASSUME QueueInv, QueueInv', UNCHANGED <<linkVars, aslVars, readyQueue, where>>
  PROVE  FreeBlocks' = FreeBlocks /\ At(HELD)' = At(HELD) /\ Lines' = Lines
<1>1. At(HELD)' = At(HELD) /\ At(FREE)' = At(FREE)
  BY DEF At
<1>2. pcb_next' = pcb_next
  BY DEF linkVars
<1>3. \A q \in Queue : LineStays(q)
  BY <1>2, TailsStay, ReadyTail DEF LineStays, Queue
<1>4. Lines' = Lines
  BY <1>3, NoLine
<1> QED BY <1>1, <1>4, FreeBlocksAre, NextLines

LEMMA KidsIs ==
  ASSUME NEW r \in Proc, NEW M \in SUBSET Proc, NEW s,
         Path(s, pcb_nextSib', pcb_child'[r], NULL, M)
  PROVE  Kids'[r] = s
<1>1. Kids'[r] = Along(pcb_nextSib', pcb_child'[r], NULL)
  BY DEF Kids, Along
<1>2. Along(pcb_nextSib', pcb_child'[r], NULL) = s
  BY PathIsAlong
<1> QED BY <1>1, <1>2

\* A family whose first child and links the call leaves alone.
LEMMA KidsStay ==
  ASSUME TreeInv, NEW r \in Proc, pcb_child'[r] = pcb_child[r],
         \A y \in Children(r) : pcb_nextSib'[y] = pcb_nextSib[y]
  PROVE  Kids'[r] = Kids[r]
<1>1. PICK C \in SUBSET Proc : C = Children(r)
  BY DEF Children
<1>2. PICK s : s = Kids[r]
  OBVIOUS
<1>3. Path(s, pcb_nextSib, pcb_child[r], NULL, C)
  BY <1>1, <1>2, SpeltKids DEF KidsSpelt
<1>4. \A y \in C : pcb_nextSib'[y] = pcb_nextSib[y]
  BY <1>1
<1>5. Path(s, pcb_nextSib', pcb_child[r], NULL, C)
  BY <1>3, <1>4, PathSame
<1> QED BY <1>2, <1>5, KidsIs

\* insertChild.
LEMMA AdoptImplements ==
  ASSUME QueueInv, QueueInv', TreeInv, NEW r \in Proc, NEW p \in Proc, Adopt(r, p)
  PROVE  L!Adopt(p)
<1>1. /\ r # p /\ where[r] # FREE /\ where[p] # FREE /\ Alone(p)
      /\ pcb_child' = [pcb_child EXCEPT ![r] = p]
      /\ pcb_nextSib' = [pcb_nextSib EXCEPT ![p] = pcb_child[r]]
      /\ UNCHANGED <<linkVars, aslVars, readyQueue, where>>
  BY DEF Adopt, insertChild
<1>2. FreeBlocks' = FreeBlocks /\ At(HELD)' = At(HELD) /\ Lines' = Lines
  BY <1>1, QueuesStay
<1>3. p \in L!Allocated /\ r \in L!Allocated \ {p}
  BY <1>1, FreeBlocksAre DEF L!Allocated, At
<1>4. \A q \in Proc : p \notin Children(q)
  BY <1>1 DEF Alone, Children
<1>5. /\ pcb_child \in [Proc -> Ptr] /\ pcb_nextSib \in [Proc -> Ptr]
  BY DEF TreeInv, TreeType
<1>6. Kids'[r] = <<p>> \o Kids[r]
  <2>1. PICK C \in SUBSET Proc : C = Children(r)
    BY DEF Children
  <2>2. PICK s : s = Kids[r]
    OBVIOUS
  <2>3. Path(s, pcb_nextSib, pcb_child[r], NULL, C)
    BY <2>1, <2>2, SpeltKids DEF KidsSpelt
  <2>4. /\ p \in Proc \ C /\ pcb_nextSib'[p] = pcb_child[r] /\ pcb_child'[r] = p
        /\ \A y \in C : pcb_nextSib'[y] = pcb_nextSib[y]
    BY <2>1, <1>1, <1>4, <1>5
  <2>5. Path(<<p>> \o s, pcb_nextSib', p, NULL, C \cup {p})
    BY <2>3, <2>4, PathPush
  <2> QED BY <2>2, <2>4, <2>5, KidsIs
<1>7. ASSUME NEW q \in Proc, q # r PROVE Kids'[q] = Kids[q]
  <2>1. /\ pcb_child'[q] = pcb_child[q]
        /\ \A y \in Children(q) : pcb_nextSib'[y] = pcb_nextSib[y]
    BY <1>1, <1>4, <1>5, <1>7 DEF Children
  <2> QED BY <2>1, KidsStay
<1>8. Kids' = [Kids EXCEPT ![r] = <<p>> \o Kids[r]]
  <2>1. Kids' = [q \in Proc |-> Kids'[q]] /\ Kids = [q \in Proc |-> Kids[q]]
    BY DEF Kids
  <2> QED BY <2>1, <1>6, <1>7
<1> QED BY <1>1, <1>2, <1>3, <1>8, AloneThere DEF L!Adopt

\* outChild takes one block out of the line of its family.
LEMMA UnlinkBypasses ==
  ASSUME TreeInv, NEW p \in Proc, NEW r \in Proc, NEW C \in SUBSET Proc,
         NEW top, NEW n, NEW b, UnlinkStep(p, r, C, top, n, b)
  PROVE  /\ Bypass(pcb_nextSib, pcb_nextSib', NULL, NULL, p, C)
         /\ pcb_child'[r] = IF p = top THEN pcb_nextSib[p] ELSE top
         /\ \A q \in Proc : q # r => pcb_child'[q] = pcb_child[q]
         /\ \A y \in Proc \ C : pcb_nextSib'[y] = pcb_nextSib[y]
<1>1. pcb_child \in [Proc -> Ptr] /\ pcb_nextSib \in [Proc -> Ptr]
  BY DEF TreeInv, TreeType
<1>2. /\ n = pcb_nextSib[p] /\ p \in C /\ Chain(top, pcb_nextSib, C) /\ top \in C
      /\ IF p = top THEN b = NULL ELSE b \in C /\ pcb_nextSib[b] = p
      /\ n \in C \cup {NULL} /\ n # p /\ NULL \notin C
      /\ pcb_child' = [pcb_child EXCEPT ![r] = IF p = top THEN n ELSE top]
      /\ pcb_nextSib' = IF b = NULL THEN pcb_nextSib ELSE [pcb_nextSib EXCEPT ![b] = n]
  BY DEF UnlinkStep
<1>3. \A y \in Proc : pcb_nextSib'[y] = IF y = b THEN n ELSE pcb_nextSib[y]
  BY <1>1, <1>2, NullIsNoBlock
<1>4. \A y \in C \ {p} : pcb_nextSib[y] = p <=> y = b
  <2>1. CASE p = top
    <3>1. \A y \in C : pcb_nextSib[y] # p
      BY <2>1, <1>2 DEF Chain
    <3> QED BY <2>1, <3>1, <1>2
  <2>2. CASE p # top
    <3>1. \A x, y \in C : pcb_nextSib[x] = pcb_nextSib[y] /\ pcb_nextSib[x] # NULL => x = y
      BY <1>2 DEF Chain
    <3>2. b \in C /\ pcb_nextSib[b] = p /\ p # NULL
      BY <2>2, <1>2
    <3> QED BY <3>1, <3>2
  <2> QED BY <2>1, <2>2
<1>5. \A y \in C \ {p} :
        pcb_nextSib'[y] = IF pcb_nextSib[y] = p THEN pcb_nextSib[p] ELSE pcb_nextSib[y]
  BY <1>2, <1>3, <1>4
<1>6. C = {p} => pcb_nextSib[p] \notin Proc
  BY <1>2, NullIsNoBlock
<1>7. Bypass(pcb_nextSib, pcb_nextSib', NULL, NULL, p, C)
  BY <1>2, <1>5, <1>6 DEF Bypass
<1>8. \A y \in Proc \ C : pcb_nextSib'[y] = pcb_nextSib[y]
  BY <1>2, <1>3, NullIsNoBlock
<1>9. /\ pcb_child'[r] = IF p = top THEN pcb_nextSib[p] ELSE top
      /\ \A q \in Proc : q # r => pcb_child'[q] = pcb_child[q]
  BY <1>1, <1>2
<1> QED BY <1>7, <1>8, <1>9

\* The line of the family of p without p, and the others as they are.
LEMMA KidsWithout ==
  ASSUME TreeInv, NEW p \in Proc, NEW r \in Proc, NEW C \in SUBSET Proc,
         NEW top, NEW n, NEW b, UnlinkStep(p, r, C, top, n, b)
  PROVE  Kids' = [q \in Proc |-> L!outProcQ(Kids[q], {p})]
<1>1. /\ r = pcb_parent[p] /\ C = Children(r) /\ top = pcb_child[r] /\ p \in C
      /\ NULL \notin C
  BY DEF UnlinkStep
<1>2. /\ Bypass(pcb_nextSib, pcb_nextSib', NULL, NULL, p, C)
      /\ pcb_child'[r] = IF p = top THEN pcb_nextSib[p] ELSE top
      /\ \A q \in Proc : q # r => pcb_child'[q] = pcb_child[q]
      /\ \A y \in Proc \ C : pcb_nextSib'[y] = pcb_nextSib[y]
  BY UnlinkBypasses, SMTT(30)
<1>3. Kids'[r] = L!outProcQ(Kids[r], {p})
  <2>1. PICK s : s = Kids[r]
    OBVIOUS
  <2>2. Path(s, pcb_nextSib, top, NULL, C)
    BY <2>1, <1>1, SpeltKids DEF KidsSpelt
  <2>3. s \in Seq(C) /\ \A j, k \in 1 .. Len(s) : s[j] = s[k] => j = k
    BY <2>2 DEF Path
  <2>4. PICK i \in 1 .. Len(s) : s[i] = p
    BY <2>2, <1>1 DEF Path
  <2>5. L!outProcQ(s, {p}) = Without(s, i)
    BY <2>3, <2>4, OutOfOne
  <2>6. Path(Without(s, i), pcb_nextSib', pcb_child'[r], NULL, C \ {p})
    <3>1. Bypass(pcb_nextSib, pcb_nextSib', NULL, NULL, p, C)
      BY <1>2
    <3>2. Path(Without(s, i), pcb_nextSib', IF p = top THEN pcb_nextSib[p] ELSE top,
               NULL, C \ {p})
      BY <2>2, <2>4, <3>1, PathOut
    <3> QED BY <3>2, <1>2
  <2>7. Kids'[r] = Without(s, i)
    BY <2>6, KidsIs
  <2> QED BY <2>1, <2>5, <2>7
<1>4. ASSUME NEW q \in Proc, q # r PROVE Kids'[q] = L!outProcQ(Kids[q], {p})
  <2>1. \A y \in Children(q) : y \in Proc \ C /\ y # p
    BY <1>1, <1>4 DEF Children
  <2>2. Kids'[q] = Kids[q]
    BY <2>1, <1>2, <1>4, KidsStay
  <2>3. PICK s : s = Kids[q]
    OBVIOUS
  <2>4. Path(s, pcb_nextSib, pcb_child[q], NULL, Children(q))
    BY <2>3, SpeltKids DEF KidsSpelt
  <2>5. s \in Seq(Children(q)) /\ \A i \in 1 .. Len(s) : s[i] \in Children(q)
    BY <2>4, PathIndex
  <2>6. \A i \in 1 .. Len(s) : s[i] # p
    BY <2>1, <2>5
  <2>7. L!outProcQ(s, {p}) = s
    BY <2>5, <2>6, OutOfNone
  <2> QED BY <2>2, <2>3, <2>7
<1>5. Kids' = [q \in Proc |-> Kids'[q]]
  BY DEF Kids
<1>6. \A q \in Proc : Kids'[q] = L!outProcQ(Kids[q], {p})
  BY <1>3, <1>4
<1> QED BY <1>5, <1>6

\* outChild, also the one removeChild makes.
LEMMA OutImplements ==
  ASSUME QueueInv, QueueInv', TreeInv, NEW p \in Proc \cup {NULL},
         p \in Proc => where[p] # FREE, outChild(p), UNCHANGED <<aslVars, readyQueue, where>>
  PROVE  IF p \in Proc /\ pcb_parent[p] \in Proc THEN L!Orphan(p) ELSE UNCHANGED L!vars
<1>1. UNCHANGED linkVars
  BY DEF outChild
<1>2. FreeBlocks' = FreeBlocks /\ At(HELD)' = At(HELD) /\ Lines' = Lines
  BY <1>1, QueuesStay
<1>3. CASE p \in Proc /\ pcb_parent[p] \in Proc
  <2>1. Kids' = [q \in Proc |-> L!outProcQ(Kids[q], {p})]
    <3>1. PICK r \in Proc : \E C \in SUBSET Proc : \E top, n, b :
             UnlinkStep(p, r, C, top, n, b)
      BY <1>3, UnlinkIsStep
    <3>2. PICK C \in SUBSET Proc : \E top, n, b : UnlinkStep(p, r, C, top, n, b)
      BY <3>1
    <3>3. PICK top, n, b : UnlinkStep(p, r, C, top, n, b)
      BY <3>2
    <3> QED BY <1>3, <3>3, KidsWithout
  <2>2. L!Parented(p)
    BY <1>3, KidsMembers DEF L!Parented, Children
  <2> QED BY <1>2, <1>3, <2>1, <2>2 DEF L!Orphan
<1>4. CASE ~(p \in Proc /\ pcb_parent[p] \in Proc)
  BY <1>2, <1>4, OutOfNoFamily, SameKids DEF L!vars
<1> QED BY <1>3, <1>4

-----------------------------------------------------------------------------
(***************************************************************************)
(* The calls that take the first of a line.                                *)
(***************************************************************************)
LEMMA ReadyFirst ==
  ASSUME QueueInv
  PROVE  IF At(READY) = {} THEN Lines[READY] = <<>> /\ readyQueue = NULL
         ELSE /\ Lines[READY] # <<>> /\ headProcQ(readyQueue) \in At(READY)
              /\ Head(Lines[READY]) = headProcQ(readyQueue)
<1>1. PICK M \in SUBSET Proc : M = At(READY)
  BY DEF At
<1>2. PICK s : s = Lines[READY]
  OBVIOUS
<1>3. Ring(readyQueue, pcb_next, pcb_prev, M) /\ Spells(s, readyQueue, pcb_next, M)
  BY <1>1, <1>2, SpeltLines, ReadyTail DEF LinesSpelt, Queue
<1>4. /\ s \in Seq(M) /\ (s = <<>> <=> M = {})
      /\ M # {} => readyQueue \in M /\ s # <<>> /\ s[1] = pcb_next[readyQueue]
  BY <1>3, SpellsEnds
<1>5. CASE M = {}
  BY <1>1, <1>2, <1>3, <1>4, <1>5 DEF Ring
<1>6. CASE M # {}
  <2>1. headProcQ(readyQueue) = s[1]
    BY <1>4, <1>6, NullIsNoBlock DEF headProcQ
  <2>2. Head(s) = s[1] /\ s[1] \in M
    BY <1>4, <1>6
  <2> QED BY <1>1, <1>2, <1>4, <1>6, <2>1, <2>2
<1> QED BY <1>5, <1>6

\* removeProcQ: nothing happens when the queue is empty.
LEMMA RemoveImplements ==
  ASSUME QueueInv, QueueInv', Remove
  PROVE  IF At(READY) = {} THEN UNCHANGED vars /\ UNCHANGED L!vars
         ELSE L!Remove(READY) /\ \E p \in Proc : L!Out(READY, p)
<1>1. PICK p : p = headProcQ(readyQueue)
  OBVIOUS
<1>2. TookReady(outProcQ(readyQueue, p))
  BY <1>1 DEF Remove, removeProcQ
<1>3. IF p \in At(READY) THEN L!Out(READY, p) ELSE UNCHANGED L!vars
  BY <1>2, TookImplements
<1>4. CASE At(READY) = {}
  <2>1. readyQueue = NULL
    BY <1>4, ReadyFirst
  <2>2. outProcQ(readyQueue, p) =
          [tail |-> readyQueue, next |-> pcb_next, prev |-> pcb_prev, found |-> NULL]
    BY <2>1 DEF outProcQ, OnQueue
  <2>3. /\ readyQueue' = readyQueue /\ pcb_next' = pcb_next /\ pcb_prev' = pcb_prev
        /\ Returned(NULL, HELD)
        /\ UNCHANGED <<pcb_FREE_h, treeVars, aslVars, pcb_semAdd, trial>>
    BY <1>2, <2>2 DEF TookReady
  <2>4. where' = where
    BY <2>3, NullIsNoBlock DEF Returned, QueueInv, QueueType
  <2> QED BY <1>3, <1>4, <2>3, <2>4 DEF vars, linkVars
<1>5. CASE At(READY) # {}
  <2>1. p \in At(READY) /\ L!Out(READY, p)
    BY <1>1, <1>3, <1>5, ReadyFirst
  <2>2. Lines[READY] # <<>> /\ Head(Lines[READY]) = p
    BY <1>1, <1>5, ReadyFirst
  <2>3. L!Remove(READY)
    BY <2>1, <2>2 DEF L!Remove
  <2>4. p \in Proc
    BY <2>1 DEF At
  <2> QED BY <1>5, <2>1, <2>3, <2>4
<1> QED BY <1>4, <1>5

\* removeBlocked.
LEMMA WakeImplements ==
  ASSUME QueueInv, QueueInv', NEW s \in Sem, Wake(s)
  PROVE  L!Remove(s) /\ \E p \in Proc : L!Out(s, p)
<1>1. PICK p \in At(s) : p = headBlocked(s) /\ TakesOff(s, p)
  BY WakeTakesOff
<1>2. UNCHANGED treeVars
  BY DEF Wake
<1>3. L!Out(s, p)
  BY <1>1, <1>2, TakeOffImplements
<1>4. PICK line : line = Lines[s]
  OBVIOUS
<1>5. p = line[1] /\ line # <<>> /\ line \in Seq(Proc)
  BY <1>1, <1>4, WaitingFirst
<1>6. Head(line) = p
  BY <1>5
<1>7. p \in Proc
  BY <1>1 DEF At
<1> QED BY <1>3, <1>4, <1>5, <1>6, <1>7 DEF L!Remove

\* removeChild: nothing happens when there is no child.
LEMMA RemoveChildImplements ==
  ASSUME QueueInv, QueueInv', TreeInv, NEW r \in Proc, RemoveChild(r)
  PROVE  IF pcb_child[r] = NULL THEN UNCHANGED L!vars
         ELSE L!RemoveChild(r) /\ \E p \in Proc : L!Orphan(p)
<1>1. PICK p : p = pcb_child[r]
  OBVIOUS
<1>2. where[r] # FREE /\ outChild(p) /\ UNCHANGED <<aslVars, readyQueue, where>>
  BY <1>1 DEF RemoveChild, removeChild
<1>3. CASE p = NULL
  BY <1>1, <1>2, <1>3, OutImplements, NullIsNoBlock
<1>4. CASE p # NULL
  <2>1. p # ZERO
    BY <1>1, <1>2 DEF TreeInv, OutsideFamilies
  <2>2. PICK s : s = Kids[r]
    OBVIOUS
  <2>3. L!Members(s) = Children(r) /\ s # <<>> /\ s[1] = p
    BY <1>1, <1>4, <2>1, <2>2, KidsMembers
  <2>4. s \in Seq(Children(r))
    BY <2>2, SpeltKids, PathIndex DEF KidsSpelt
  <2>5. Head(s) = p /\ p \in Children(r)
    BY <2>3, <2>4
  <2>6. p \in Proc /\ pcb_parent[p] \in Proc /\ where[p] # FREE
    BY <2>5 DEF Children, TreeInv, OutsideFamilies
  <2>7. L!Orphan(p)
    BY <1>2, <2>6, OutImplements
  <2> QED BY <1>1, <1>4, <2>2, <2>3, <2>5, <2>6, <2>7 DEF L!RemoveChild
<1> QED BY <1>1, <1>3, <1>4

-----------------------------------------------------------------------------
(***************************************************************************)
(* The refinement.                                                         *)
(***************************************************************************)
LEMMA StutterImplements ==
  ASSUME QueueInv, QueueInv', UNCHANGED vars
  PROVE  UNCHANGED L!vars
<1>1. /\ UNCHANGED <<linkVars, aslVars, readyQueue, where>>
      /\ UNCHANGED treeVars
  BY DEF vars
<1> QED BY <1>1, QueuesStay, SameKids DEF L!vars

LEMMA QueuesImplement ==
  ASSUME QueueInv, QueueInv', Queues
  PROVE  L!Next \/ UNCHANGED L!vars
<1>1. READY \in L!Queue /\ \A s \in Sem : s \in L!Queue
  BY DEF L!Queue
<1>2. CASE Remove
  BY <1>1, <1>2, RemoveImplements DEF L!Next
<1>3. CASE \E p \in Proc : Insert(p)
  BY <1>1, <1>3, InsertImplements DEF L!Next
<1>4. CASE \E p \in Proc : Out(p)
  <2>1. PICK p \in Proc : TookReady(outProcQ(readyQueue, p))
    BY <1>4 DEF Out
  <2>2. L!Out(READY, p) \/ UNCHANGED L!vars
    BY <2>1, TookImplements
  <2> QED BY <1>1, <2>2 DEF L!Next
<1>5. CASE \E p \in Proc : Unblock(p)
  <2>1. PICK p \in Proc : Unblock(p)
    BY <1>5
  <2>2. PICK s \in Sem : p \in At(s) /\ TakesOff(s, p)
    BY <2>1, UnblockTakesOff
  <2>3. UNCHANGED treeVars
    BY <2>1 DEF Unblock
  <2>4. L!Out(s, p)
    BY <2>2, <2>3, TakeOffImplements
  <2> QED BY <1>1, <2>4 DEF L!Next
<1>6. CASE \E s \in Sem : Wake(s)
  BY <1>1, <1>6, WakeImplements DEF L!Next
<1>7. CASE \E s \in Sem : \E p \in Proc : Block(s, p)
  BY <1>1, <1>7, BlockImplements DEF L!Next
<1> QED BY <1>2, <1>3, <1>4, <1>5, <1>6, <1>7 DEF Queues

LEMMA TreeImplements ==
  ASSUME QueueInv, QueueInv', TreeInv, Tree
  PROVE  L!Next \/ UNCHANGED L!vars
<1>1. CASE \E p \in Proc : OutChild(p)
  <2>1. PICK p \in Proc : OutChild(p)
    BY <1>1
  <2>2. where[p] # FREE /\ outChild(p) /\ UNCHANGED <<aslVars, readyQueue, where>>
    BY <2>1 DEF OutChild
  <2>3. L!Orphan(p) \/ UNCHANGED L!vars
    BY <2>2, OutImplements
  <2> QED BY <2>3 DEF L!Next
<1>2. CASE \E p \in Proc : RemoveChild(p)
  BY <1>2, RemoveChildImplements DEF L!Next
<1>3. CASE \E p \in Proc : \E r \in Proc : Adopt(r, p)
  BY <1>3, AdoptImplements DEF L!Next
<1> QED BY <1>1, <1>2, <1>3 DEF Tree

LEMMA StepImplements ==
  ASSUME QueueInv, QueueInv', TreeInv, TreeInv', [Next]_vars
  PROVE  [L!Next]_(L!vars)
<1>1. CASE Alloc
  BY <1>1, AllocImplements DEF L!Next
<1>2. CASE \E p \in Proc : Free(p)
  BY <1>2, FreeImplements DEF L!Next
<1>3. CASE Queues
  BY <1>3, QueuesImplement
<1>4. CASE Tree
  BY <1>4, TreeImplements
<1>5. CASE UNCHANGED vars
  BY <1>5, StutterImplements
<1> QED BY <1>1, <1>2, <1>3, <1>4, <1>5 DEF Next

LEMMA InitImplements == Init => L!Init
<1> SUFFICES ASSUME Init PROVE L!Init
  OBVIOUS
<1>1. QueueInv /\ TreeInv
  BY QueueInit, TreeInit
<1>2. FreeBlocks = Proc /\ At(HELD) = {}
  BY <1>1, FreeBlocksAre, PlacesApart DEF Init, At
<1>3. \A q \in Queue : Lines[q] = <<>>
  <2>1. ASSUME NEW q \in Queue PROVE Lines[q] = <<>>
    <3>1. PICK M \in SUBSET Proc : M = At(q)
      BY DEF At
    <3>2. PICK s : s = Lines[q]
      OBVIOUS
    <3>3. M = {}
      BY <3>1, PlacesApart DEF Init, At, Queue
    <3>4. Ring(TailOf(q), pcb_next, pcb_prev, M) /\ Spells(s, TailOf(q), pcb_next, M)
      BY <1>1, <3>1, <3>2, SpeltLines DEF LinesSpelt
    <3>5. s = <<>>
      BY <3>3, <3>4, SpellsEnds
    <3> QED BY <3>2, <3>5
  <2> QED BY <2>1
<1>4. \A r \in Proc : Kids[r] = <<>>
  <2>1. ASSUME NEW r \in Proc PROVE Kids[r] = <<>>
    <3>1. PICK s : s = Kids[r]
      OBVIOUS
    <3>2. Path(s, pcb_nextSib, pcb_child[r], NULL, Children(r))
      BY <1>1, <3>1, SpeltKids DEF KidsSpelt
    <3>3. Children(r) = {}
      BY NullIsNoBlock DEF Init, initPcbs, Children
    <3>4. s = <<>>
      BY <3>2, <3>3, PathIndex
    <3> QED BY <3>1, <3>4
  <2> QED BY <2>1
<1>5. Lines = [q \in L!Queue |-> <<>>] /\ Kids = [p \in Proc |-> <<>>]
  <2>1. Lines = [q \in Queue |-> Lines[q]] /\ Kids = [p \in Proc |-> Kids[p]]
    BY DEF Lines, Kids
  <2> QED BY <2>1, <1>3, <1>4, LQueueIs
<1> QED BY <1>2, <1>5 DEF L!Init

\* Every call leaves the pools, the queues and the families, and what the caller
\* knows of its blocks, as Lists says: a block is handed out once, a queue gives
\* back its blocks in the order it got them or the very one that is asked for, a
\* family keeps the order of its children whichever of them leaves.
THEOREM ListsImplementedCorrect == Spec => ListsImplemented
<1>1. QueueInv /\ QueueInv' /\ TreeInv /\ TreeInv' /\ [Next]_vars => [L!Next]_(L!vars)
  BY StepImplements
<1> QED BY <1>1, InitImplements, QueueInvariance, TreeInvariance, PTL
        DEF Spec, ListsImplemented, L!Spec

\* removeProcQ, removeBlocked and removeChild give the first of what Lists has
\* there, whenever there is one.
THEOREM FirstIsFirstCorrect == Spec => FirstIsFirst
<1>1. ASSUME QueueInv, QueueInv', TreeInv, [Next]_vars
      PROVE  [ /\ Remove => L!Remove(READY)
               /\ \A s \in Sem : At(s) # {} /\ Wake(s) => L!Remove(s)
               /\ \A r \in Proc : RemoveChild(r) /\ pcb_child[r] # NULL => L!RemoveChild(r)
             ]_vars
  <2> SUFFICES ASSUME ~UNCHANGED vars
               PROVE  /\ Remove => L!Remove(READY)
                      /\ \A s \in Sem : At(s) # {} /\ Wake(s) => L!Remove(s)
                      /\ \A r \in Proc : RemoveChild(r) /\ pcb_child[r] # NULL
                                         => L!RemoveChild(r)
    OBVIOUS
  <2>1. Remove => L!Remove(READY)
    BY <1>1, RemoveImplements
  <2>2. \A s \in Sem : At(s) # {} /\ Wake(s) => L!Remove(s)
    BY <1>1, WakeImplements
  <2>3. \A r \in Proc : RemoveChild(r) /\ pcb_child[r] # NULL => L!RemoveChild(r)
    BY <1>1, RemoveChildImplements
  <2> QED BY <2>1, <2>2, <2>3
<1> QED BY <1>1, QueueInvariance, TreeInvariance, PTL DEF Spec, FirstIsFirst
=============================================================================
