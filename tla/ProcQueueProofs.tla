--------------------------- MODULE ProcQueueProofs ---------------------------
(***************************************************************************)
(* What the queue operations return, for every queue of any set of         *)
(* processes: the lemmas the proofs about the nucleus rest on.             *)
(***************************************************************************)
EXTENDS ProcQueue, SequenceTheorems, FiniteSetTheorems, TLAPS

(***************************************************************************)
(* insertProcQ adds one process and, if it was not there, no repetition.   *)
(***************************************************************************)
LEMMA InsertProperties ==
  ASSUME NEW S, NEW q \in Seq(S), NEW p \in S
  PROVE  /\ insertProcQ(q, p) \in Seq(S)
         /\ insertProcQ(q, p) # <<>>
         /\ Range(insertProcQ(q, p)) = Range(q) \cup {p}
         /\ NoRepeats(q) /\ p \notin Range(q) => NoRepeats(insertProcQ(q, p))
<1> DEFINE r == Append(q, p)
<1>1. /\ r \in Seq(S) /\ Len(r) = Len(q) + 1 /\ Len(q) \in Nat
      /\ \A i \in 1 .. Len(q) : r[i] = q[i]
      /\ r[Len(q) + 1] = p
      /\ DOMAIN q = 1 .. Len(q) /\ DOMAIN r = 1 .. Len(q) + 1
  OBVIOUS
<1>2. Range(r) = Range(q) \cup {p}
  BY <1>1 DEF Range
<1>3. ASSUME NoRepeats(q), p \notin Range(q)
      PROVE  NoRepeats(r)
  BY <1>1, <1>3 DEF NoRepeats, Range
<1> QED
  BY <1>1, <1>2, <1>3 DEF insertProcQ

(***************************************************************************)
(* removeProcQ takes the head off: it is a process of the queue, and the   *)
(* rest of the queue holds all the others.                                 *)
(***************************************************************************)
LEMMA RemoveProperties ==
  ASSUME NEW S, NEW q \in Seq(S), q # <<>>
  PROVE  /\ Head(q) \in S /\ Head(q) \in Range(q)
         /\ Tail(q) \in Seq(S)
         /\ Range(q) = {Head(q)} \cup Range(Tail(q))
         /\ NoRepeats(q) => NoRepeats(Tail(q)) /\ Head(q) \notin Range(Tail(q))
<1> DEFINE t == Tail(q)
<1>1. /\ Len(q) \in Nat /\ Len(q) >= 1 /\ DOMAIN q = 1 .. Len(q)
      /\ Head(q) = q[1] /\ Head(q) \in S
      /\ t \in Seq(S) /\ DOMAIN t = 1 .. Len(q) - 1
      /\ \A i \in 1 .. Len(q) - 1 : t[i] = q[i + 1]
  OBVIOUS
<1>2. Range(q) = {Head(q)} \cup Range(t)
  <2>1. ASSUME NEW x \in Range(q) PROVE x = Head(q) \/ x \in Range(t)
    <3>1. PICK i \in 1 .. Len(q) : x = q[i]
      BY <1>1 DEF Range
    <3>2. CASE i = 1
      BY <3>1, <3>2, <1>1
    <3>3. CASE i # 1
      <4>1. i - 1 \in DOMAIN t /\ (i - 1) + 1 = i
        BY <3>3, <1>1
      <4>2. t[i - 1] = x
        BY <4>1, <3>1, <1>1
      <4> QED BY <4>1, <4>2 DEF Range
    <3> QED BY <3>2, <3>3
  <2>2. Range(t) \subseteq Range(q) /\ Head(q) \in Range(q)
    BY <1>1 DEF Range
  <2> QED BY <2>1, <2>2
<1>3. ASSUME NoRepeats(q) PROVE NoRepeats(t) /\ Head(q) \notin Range(t)
  BY <1>1, <1>3 DEF NoRepeats, Range
<1> QED
  BY <1>1, <1>2, <1>3 DEF Range

(***************************************************************************)
(* One queue behind another: nobody is lost, and nobody is repeated if the *)
(* two have no process in common.                                          *)
(***************************************************************************)
LEMMA ConcatenationProperties ==
  ASSUME NEW S, NEW q \in Seq(S), NEW r \in Seq(S)
  PROVE  /\ q \o r \in Seq(S)
         /\ Range(q \o r) = Range(q) \cup Range(r)
         /\ NoRepeats(q) /\ NoRepeats(r) /\ Range(q) \cap Range(r) = {}
              => NoRepeats(q \o r)
<1> DEFINE c == q \o r
<1>1. /\ c \in Seq(S) /\ Len(q) \in Nat /\ Len(r) \in Nat
      /\ DOMAIN q = 1 .. Len(q) /\ DOMAIN r = 1 .. Len(r)
      /\ DOMAIN c = 1 .. Len(q) + Len(r)
      /\ \A i \in DOMAIN c : c[i] = IF i <= Len(q) THEN q[i] ELSE r[i - Len(q)]
  BY ConcatProperties
<1>2. Range(c) = Range(q) \cup Range(r)
  BY RangeConcatenation
<1>3. ASSUME NoRepeats(q), NoRepeats(r), Range(q) \cap Range(r) = {},
             NEW i \in DOMAIN c, NEW j \in DOMAIN c, c[i] = c[j]
      PROVE  i = j
  <2>1. CASE i <= Len(q) /\ j <= Len(q)
    BY <2>1, <1>1, <1>3 DEF NoRepeats
  <2>2. CASE i > Len(q) /\ j > Len(q)
    <3>1. i - Len(q) \in DOMAIN r /\ j - Len(q) \in DOMAIN r
      BY <2>2, <1>1
    <3> QED BY <3>1, <2>2, <1>1, <1>3 DEF NoRepeats
  <2>3. CASE i <= Len(q) /\ j > Len(q)
    <3>1. c[i] \in Range(q) /\ c[j] \in Range(r)
      BY <2>3, <1>1 DEF Range
    <3> QED BY <3>1, <1>3
  <2>4. CASE i > Len(q) /\ j <= Len(q)
    <3>1. c[j] \in Range(q) /\ c[i] \in Range(r)
      BY <2>4, <1>1 DEF Range
    <3> QED BY <3>1, <1>3
  <2> QED BY <2>1, <2>2, <2>3, <2>4, <1>1
<1> QED
  BY <1>1, <1>2, <1>3 DEF NoRepeats

(***************************************************************************)
(* outProcQ keeps the processes that are not to be taken out, each as      *)
(* often as it was there.  The k-th place of the new queue goes to the     *)
(* kept place with k kept places up to and including it: the ranks of the  *)
(* kept places are distinct numbers from 1 to their number, hence all of   *)
(* them, so the CHOOSE in outProcQ always has a place to choose.           *)
(***************************************************************************)
LEMMA RankBijection ==
  ASSUME NEW n \in Nat, NEW keep \in SUBSET (1 .. n)
  PROVE  /\ Cardinality(keep) \in Nat
         /\ \A i \in keep : Rank(keep, i) \in 1 .. Cardinality(keep)
         /\ \A i, j \in keep : Rank(keep, i) = Rank(keep, j) => i = j
         /\ \A k \in 1 .. Cardinality(keep) : \E i \in keep : Rank(keep, i) = k
<1> DEFINE UpTo(i) == {j \in keep : j <= i}
           N == Cardinality(keep)
           f == [i \in keep |-> Rank(keep, i)]
<1>1. IsFiniteSet(keep) /\ N \in Nat /\ \A i \in keep : i \in Int
  <2>1. IsFiniteSet(1 .. n)
    BY FS_Interval
  <2>2. IsFiniteSet(keep)
    BY <2>1, FS_Subset
  <2> QED BY <2>2, FS_CardinalityType
<1>2. \A i \in keep : /\ IsFiniteSet(UpTo(i))
                       /\ Rank(keep, i) \in Int /\ Rank(keep, i) \in 1 .. N
  <2> SUFFICES ASSUME NEW i \in keep
               PROVE  /\ IsFiniteSet(UpTo(i))
                      /\ Rank(keep, i) \in Int /\ Rank(keep, i) \in 1 .. N
    OBVIOUS
  <2>1. UpTo(i) \in SUBSET keep /\ i \in UpTo(i)
    OBVIOUS
  <2>2. IsFiniteSet(UpTo(i)) /\ Cardinality(UpTo(i)) <= N
    BY <2>1, <1>1, FS_Subset
  <2>3. Cardinality(UpTo(i)) \in Nat /\ Cardinality(UpTo(i)) # 0
    BY <2>1, <2>2, FS_CardinalityType, FS_EmptySet
  <2> QED BY <2>2, <2>3, <1>1 DEF Rank
<1>3. \A i, j \in keep : i < j => Rank(keep, i) < Rank(keep, j)
  <2> SUFFICES ASSUME NEW i \in keep, NEW j \in keep, i < j
               PROVE  Rank(keep, i) < Rank(keep, j)
    OBVIOUS
  <2>1. UpTo(i) \in SUBSET UpTo(j) /\ j \in UpTo(j) /\ j \notin UpTo(i)
    <3>1. i \in Int /\ j \in Int /\ \A k \in keep : k \in Int
      BY <1>1
    <3>2. ASSUME NEW k \in UpTo(i) PROVE k \in UpTo(j)
      BY <3>1
    <3>3. j <= j /\ ~(j <= i)
      BY <3>1
    <3> QED BY <3>2, <3>3
  <2>2. IsFiniteSet(UpTo(j)) /\ UpTo(i) # UpTo(j)
    BY <1>2, <2>1
  <2>3. Cardinality(UpTo(i)) <= Cardinality(UpTo(j))
        /\ Cardinality(UpTo(i)) # Cardinality(UpTo(j))
    BY <2>1, <2>2, FS_Subset
  <2>4. Rank(keep, i) \in Int /\ Rank(keep, j) \in Int
    BY <1>2
  <2> QED BY <2>3, <2>4 DEF Rank
<1>4. \A i, j \in keep : Rank(keep, i) = Rank(keep, j) => i = j
  <2> SUFFICES ASSUME NEW i \in keep, NEW j \in keep, i # j
               PROVE  Rank(keep, i) # Rank(keep, j)
    OBVIOUS
  <2>1. i < j \/ j < i
    BY <1>1
  <2>2. Rank(keep, i) \in Int /\ Rank(keep, j) \in Int
    BY <1>2
  <2> QED BY <2>1, <2>2, <1>3
<1>5. f \in Injection(keep, 1 .. N)
  BY <1>2, <1>4 DEF Injection, IsInjective
<1>6. IsFiniteSet(1 .. N) /\ Cardinality(1 .. N) = N
  BY <1>1, FS_Interval
<1>7. f \in Surjection(keep, 1 .. N)
  BY <1>5, <1>6, FS_Injection
<1>8. \A k \in 1 .. N : \E i \in keep : Rank(keep, i) = k
  BY <1>7 DEF Surjection
<1> QED BY <1>1, <1>2, <1>4, <1>8

LEMMA OutProperties ==
  ASSUME NEW S, NEW q \in Seq(S), NEW T
  PROVE  /\ outProcQ(q, T) \in Seq(S)
         /\ Range(outProcQ(q, T)) = Range(q) \ T
         /\ NoRepeats(q) => NoRepeats(outProcQ(q, T))
<1> DEFINE keep == Kept(q, T)
           N == Cardinality(keep)
           At(k) == CHOOSE i \in keep : Rank(keep, i) = k
           r == outProcQ(q, T)
<1>1. Len(q) \in Nat /\ DOMAIN q = 1 .. Len(q) /\ \A i \in DOMAIN q : q[i] \in S
  BY LenProperties, ElementOfSeq
<1>2. keep \in SUBSET (1 .. Len(q))
  BY <1>1 DEF Kept
<1>3. N \in Nat
  BY <1>1, <1>2, RankBijection
<1>4. \A k \in 1 .. N : At(k) \in keep /\ Rank(keep, At(k)) = k
  <2>1. \A k \in 1 .. N : \E i \in keep : Rank(keep, i) = k
    BY <1>1, <1>2, RankBijection
  <2> QED BY <2>1
<1>5. r = [k \in 1 .. N |-> q[At(k)]]
  BY DEF outProcQ
<1>6. \A k \in 1 .. N : q[At(k)] \in S /\ q[At(k)] \notin T /\ q[At(k)] \in Range(q)
  BY <1>4, <1>1 DEF Kept, Range
<1>7. r \in Seq(S) /\ DOMAIN r = 1 .. N
  <2>1. r \in [1 .. N -> S]
    BY <1>5, <1>6
  <2>2. r \in Seq(S)
    BY <2>1, <1>3, SeqDef
  <2> QED BY <2>2, <1>5
<1>8. Range(r) = Range(q) \ T
  <2>1. ASSUME NEW x \in Range(r) PROVE x \in Range(q) \ T
    <3>1. PICK k \in 1 .. N : x = r[k]
      BY <1>7 DEF Range
    <3>2. x = q[At(k)]
      BY <3>1, <1>5
    <3> QED BY <3>2, <1>6
  <2>2. ASSUME NEW x \in Range(q) \ T PROVE x \in Range(r)
    <3>1. PICK i \in keep : x = q[i]
      BY <2>2 DEF Range, Kept
    <3>2. Rank(keep, i) \in 1 .. N
      BY <1>1, <1>2, RankBijection
    <3>3. At(Rank(keep, i)) = i
      <4>1. \A j, l \in keep : Rank(keep, j) = Rank(keep, l) => j = l
        BY <1>1, <1>2, RankBijection
      <4> QED BY <4>1, <3>2, <1>4
    <3>4. r[Rank(keep, i)] = x
      BY <3>1, <3>2, <3>3, <1>5
    <3> QED BY <3>2, <3>4, <1>7 DEF Range
  <2> QED BY <2>1, <2>2
<1>9. ASSUME NoRepeats(q) PROVE NoRepeats(r)
  <2> SUFFICES ASSUME NEW k \in 1 .. N, NEW l \in 1 .. N, r[k] = r[l]
               PROVE  k = l
    BY <1>7 DEF NoRepeats
  <2>1. q[At(k)] = q[At(l)]
    BY <1>5
  <2>2. At(k) = At(l)
    BY <2>1, <1>4, <1>9 DEF NoRepeats, Kept
  <2> QED BY <2>2, <1>4
<1> QED BY <1>7, <1>8, <1>9

(***************************************************************************)
(* A queue without repetitions is as long as it has members.               *)
(***************************************************************************)
LEMMA LengthIsCardinality ==
  ASSUME NEW S, NEW q \in Seq(S), NoRepeats(q)
  PROVE  IsFiniteSet(Range(q)) /\ Cardinality(Range(q)) = Len(q)
<1>1. Len(q) \in Nat /\ DOMAIN q = 1 .. Len(q) /\ q \in [1 .. Len(q) -> S]
  OBVIOUS
<1>2. q \in Bijection(1 .. Len(q), Range(q))
  BY <1>1 DEF Bijection, Injection, Surjection, IsInjective, Range, NoRepeats
<1>3. IsFiniteSet(1 .. Len(q)) /\ Cardinality(1 .. Len(q)) = Len(q)
  BY <1>1, FS_Interval, SMTT(30)
<1>4. ExistsBijection(1 .. Len(q), Range(q))
  BY <1>2 DEF ExistsBijection
<1> QED BY <1>3, <1>4, FS_Bijection
=============================================================================
