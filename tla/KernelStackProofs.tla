------------------------- MODULE KernelStackProofs -------------------------
(***************************************************************************)
(* Proofs about the stack of module KernelStack in the behaviours in which *)
(* the users take turns (TakingTurns), for every number of users, amount   *)
(* of memory and set of values.  Nothing in the code makes them take       *)
(* turns: run stack_race shows SizeExact broken when they do not.          *)
(*                                                                         *)
(* The argument is about the sequence of entries that the pointers of the  *)
(* list stand for.  Two sequences cannot stand for the same pointers, so   *)
(* the list has one, which is what Chain computes by following next.       *)
(***************************************************************************)
EXTENDS KernelStack, SequenceTheorems, FiniteSetTheorems, WellFoundedInduction, TLAPS

-----------------------------------------------------------------------------
(* The list of a sequence of entries *)

\* The k-th node of the circle: the head, the entries of c, and the head again.
At(c, k) == IF k \in 1 .. Len(c) THEN c[k] ELSE Head0

Distinct(c) == \A j, k \in 1 .. Len(c) : c[j] = c[k] => j = k

\* Both directions of the circle are c, in which no entry occurs twice.
Linked(c) ==
  /\ c \in Seq(Entries) /\ Distinct(c)
  /\ \A k \in 0 .. Len(c) : next[At(c, k)] = At(c, k + 1) /\ prev[At(c, k + 1)] = At(c, k)

Elements(c) == {c[k] : k \in 1 .. Len(c)}

\* A non-empty set of natural numbers has a least element.
LEMMA LeastNat ==
  ASSUME NEW T, T \subseteq Nat, T # {}
  PROVE  \E m \in T : \A n \in T : m <= n
<1> DEFINE R == OpToRel(<, Nat)
<1>1. IsWellFoundedOn(R, Nat)
  BY NatLessThanWellFounded
<1>2. \A x, y \in Nat : x < y => <<x, y>> \in R
  BY DEF OpToRel
<1> HIDE DEF R
<1>3. PICK m \in T : \A y \in T : ~ (<<y, m>> \in R)
  BY <1>1, WFMin
<1>4. \A y \in T : ~ (y < m)
  BY <1>2, <1>3
<1> QED BY <1>4

\* The remainder of the next number.
LEMMA ModSucc ==
  ASSUME NEW d \in Nat \ {0}, NEW a \in Nat
  PROVE  a % d \in 0 .. (d - 1) /\ (a + 1) % d = IF a % d = d - 1 THEN 0 ELSE (a % d) + 1
<1> DEFINE q == a \div d
           r == a % d
<1>1. a = d * q + r /\ q \in Int /\ r \in 0 .. (d - 1)
  OBVIOUS
<1> HIDE DEF q, r
<1>2. \A p \in Int, s \in 0 .. (d - 1) : (d * p + s) % d = s
  OBVIOUS
<1>3. CASE r = d - 1
  <2>1. a + 1 = d * (q + 1) + 0 /\ q + 1 \in Int /\ 0 \in 0 .. (d - 1)
    BY <1>1, <1>3
  <2>2. (a + 1) % d = 0
    BY <1>2, <2>1
  <2> QED BY <1>1, <1>3, <2>2 DEF r
<1>4. CASE r # d - 1
  <2>1. a + 1 = d * q + (r + 1) /\ r + 1 \in 0 .. (d - 1)
    BY <1>1, <1>4
  <2>2. (a + 1) % d = r + 1
    BY <1>1, <1>2, <2>1
  <2> QED BY <1>1, <1>4, <2>2 DEF r
<1> QED BY <1>3, <1>4

\* A list without repetition is not longer than there is memory.
LEMMA ShortList ==
  ASSUME NEW c \in Seq(Entries), Distinct(c)
  PROVE  Len(c) \in Nat /\ Cardinality(Entries) \in Nat /\ Len(c) <= Cardinality(Entries)
<1>1. Len(c) \in Nat /\ c \in [1 .. Len(c) -> Entries]
  BY LenProperties
<1>2. IsFiniteSet(Entries) /\ Cardinality(Entries) \in Nat
  BY StackAssumption, FS_CardinalityType
<1>3. IsFiniteSet(1 .. Len(c)) /\ Cardinality(1 .. Len(c)) = Len(c)
  BY <1>1, FS_Interval
<1>4. ASSUME Len(c) > Cardinality(Entries) PROVE FALSE
  <2>1. \E j, k \in 1 .. Len(c) : j # k /\ c[j] = c[k]
    BY <1>1, <1>2, <1>3, <1>4, FS_PigeonHole
  <2> QED BY <2>1 DEF Distinct
<1> QED BY <1>1, <1>2, <1>4

\* The nodes of the circle.
LEMMA Circle ==
  ASSUME NEW c \in Seq(Entries)
  PROVE  /\ Len(c) \in Nat
         /\ \A k \in 1 .. Len(c) : At(c, k) = c[k] /\ c[k] \in Entries /\ c[k] # Head0
         /\ At(c, 0) = Head0 /\ At(c, Len(c) + 1) = Head0
<1>1. Len(c) \in Nat
  BY LenProperties
<1>2. ASSUME NEW k \in 1 .. Len(c) PROVE At(c, k) = c[k] /\ c[k] \in Entries /\ c[k] # Head0
  BY <1>1, ElementOfSeq, StackAssumption DEF At, Head0
<1>3. At(c, 0) = Head0 /\ At(c, Len(c) + 1) = Head0
  BY <1>1 DEF At
<1> QED BY <1>1, <1>2, <1>3

\* Following next from the head gives the sequence that the list stands for.
LEMMA ChainIs ==
  ASSUME NEW c, Linked(c)
  PROVE  Chain = c
<1> DEFINE L == Len(c)
           D == 0 .. Cardinality(Entries) + 1
           Is(f) == f = [k \in D |-> IF k = 0 THEN next[Head0] ELSE next[f[k - 1]]]
           at == CHOOSE f : Is(f)
           len == CHOOSE k \in D : at[k] = Head0 /\ \A j \in 0 .. (k - 1) : at[j] # Head0
<1>1. c \in Seq(Entries) /\ L \in Nat /\ Cardinality(Entries) \in Nat /\ L <= Cardinality(Entries)
  BY ShortList DEF Linked
<1>2. \A k \in 0 .. L : next[At(c, k)] = At(c, k + 1)
  BY DEF Linked
<1>3. At(c, 0) = Head0 /\ At(c, L + 1) = Head0 /\ \A k \in 1 .. L : At(c, k) = c[k] /\ At(c, k) # Head0
  BY <1>1, Circle
<1>4. Chain = [k \in 1 .. len |-> at[k - 1]]
  BY DEF Chain
<1>5. \E f : Is(f)
  <2> DEFINE g == [k \in D |-> At(c, (k + 1) % (L + 1))]
  <2>1. ASSUME NEW k \in D PROVE g[k] = IF k = 0 THEN next[Head0] ELSE next[g[k - 1]]
    <3>1. k \in Nat /\ L + 1 \in Nat \ {0}
      BY <1>1
    <3>2. k % (L + 1) \in 0 .. L
          /\ (k + 1) % (L + 1) = IF k % (L + 1) = L THEN 0 ELSE (k % (L + 1)) + 1
      <4> DEFINE d == L + 1
      <4>1. k % d \in 0 .. (d - 1) /\ (k + 1) % d = IF k % d = d - 1 THEN 0 ELSE (k % d) + 1
        BY <3>1, ModSucc
      <4>2. d - 1 = L
        BY <1>1
      <4> QED BY <4>1, <4>2
    <3>3. next[At(c, k % (L + 1))] = At(c, (k + 1) % (L + 1))
      BY <1>2, <1>3, <3>2
    <3>4. CASE k = 0
      <4>1. k % (L + 1) = 0
        BY <1>1, <3>4
      <4> QED BY <1>3, <3>3, <3>4, <4>1
    <3>5. CASE k # 0
      <4>1. k - 1 \in D /\ k - 1 + 1 = k
        BY <1>1, <3>5
      <4> QED BY <3>3, <3>5, <4>1
    <3> QED BY <3>4, <3>5
  <2>2. Is(g)
    BY <2>1, Zenon
  <2> QED BY <2>2
<1>6. \A k \in D : at[k] = IF k = 0 THEN next[Head0] ELSE next[at[k - 1]]
  <2>1. Is(at)
    BY <1>5
  <2> HIDE DEF at
  <2> QED BY <2>1
<1> HIDE DEF at
<1>7. ASSUME NEW k \in 0 .. L PROVE at[k] = At(c, k + 1)
  <2> DEFINE T == {n \in 0 .. L : at[n] # At(c, n + 1)}
  <2>1. ASSUME T # {} PROVE FALSE
    <3>1. T \subseteq Nat
      BY <1>1
    <3>2. PICK m \in T : \A n \in T : m <= n
      BY <2>1, <3>1, LeastNat
    <3>3. m \in 0 .. L /\ m \in D /\ m \in Nat
      BY <1>1
    <3>4. CASE m = 0
      BY <1>1, <1>2, <1>3, <1>6, <3>3, <3>4
    <3>5. CASE m # 0
      <4>1. m - 1 \in 0 .. L /\ m - 1 + 1 = m /\ ~ (m <= m - 1)
        BY <1>1, <3>3, <3>5
      <4>2. at[m - 1] = At(c, m)
        BY <3>2, <4>1
      <4>3. at[m] = next[at[m - 1]]
        BY <1>6, <3>3, <3>5
      <4> QED BY <1>2, <3>3, <4>2, <4>3
    <3> QED BY <3>4, <3>5
  <2> QED BY <2>1
<1>8. len = L
  <2> DEFINE P(k) == at[k] = Head0 /\ \A j \in 0 .. (k - 1) : at[j] # Head0
  <2>1. L \in D /\ P(L)
    <3>1. ASSUME NEW j \in 0 .. (L - 1) PROVE at[j] # Head0
      <4>1. j \in 0 .. L /\ j + 1 \in 1 .. L
        BY <1>1
      <4> QED BY <1>3, <1>7, <4>1
    <3>2. L \in 0 .. L /\ L \in D
      BY <1>1
    <3> QED BY <1>3, <1>7, <3>1, <3>2
  <2>2. ASSUME NEW k \in D, P(k) PROVE k = L
    <3>1. CASE k < L
      <4>1. k \in 0 .. (L - 1)
        BY <1>1, <3>1
      <4> QED BY <2>1, <2>2, <4>1
    <3>2. CASE k > L
      <4>1. L \in 0 .. (k - 1)
        BY <1>1, <3>2
      <4> QED BY <2>1, <2>2, <4>1
    <3> QED BY <1>1, <3>1, <3>2
  <2> HIDE DEF D, P
  <2>3. len = CHOOSE k \in D : P(k)
    BY DEF P
  <2> HIDE DEF len
  <2> QED BY <2>1, <2>2, <2>3
<1> HIDE DEF len
<1>9. \A k \in 1 .. L : at[k - 1] = c[k]
  <2> TAKE k \in 1 .. L
  <2>1. k - 1 \in 0 .. L /\ k - 1 + 1 = k
    BY <1>1
  <2> QED BY <1>3, <1>7, <2>1
<1>10. c = [k \in 1 .. L |-> c[k]]
  BY <1>1, LenProperties
<1> QED BY <1>4, <1>8, <1>9, <1>10

\* A sequence with an element put in front.
LEMMA InFront ==
  ASSUME NEW S, NEW x \in S, NEW s \in Seq(S)
  PROVE  /\ <<x>> \o s \in Seq(S) /\ Len(<<x>> \o s) = Len(s) + 1 /\ (<<x>> \o s)[1] = x
         /\ \A k \in 1 .. Len(s) : (<<x>> \o s)[k + 1] = s[k]
<1> DEFINE d == <<x>> \o s
<1>1. Len(s) \in Nat
  BY LenProperties
<1>2. <<x>> \in Seq(S) /\ Len(<<x>>) = 1 /\ <<x>>[1] = x
  OBVIOUS
<1>3. d \in Seq(S) /\ Len(d) = 1 + Len(s)
      /\ \A k \in 1 .. (1 + Len(s)) : d[k] = IF k <= 1 THEN <<x>>[k] ELSE s[k - 1]
  BY <1>2, ConcatProperties
<1> HIDE DEF d
<1>4. ASSUME NEW k \in 1 .. Len(s) PROVE d[k + 1] = s[k]
  <2>1. k + 1 \in 1 .. (1 + Len(s)) /\ ~ (k + 1 <= 1) /\ k + 1 - 1 = k
    BY <1>1
  <2> QED BY <1>3, <2>1
<1>5. 1 \in 1 .. (1 + Len(s)) /\ 1 + Len(s) = Len(s) + 1
  BY <1>1
<1>6. d[1] = x
  BY <1>2, <1>3, <1>5
<1> QED BY <1>3, <1>4, <1>5, <1>6 DEF d

\* What a push does to the list.
LEMMA PushLinked ==
  ASSUME next \in [Nodes -> Nodes], prev \in [Nodes -> Nodes],
         NEW c, Linked(c), NEW e \in Entries, e \notin Elements(c),
         next' = [next EXCEPT ![e] = next[Head0], ![Head0] = e],
         prev' = [prev EXCEPT ![next[Head0]] = e, ![e] = Head0]
  PROVE  Linked(<<e>> \o c)' /\ Elements(<<e>> \o c) = Elements(c) \cup {e}
         /\ Len(<<e>> \o c) = Len(c) + 1
<1> DEFINE d == <<e>> \o c
           L == Len(c)
<1>1. c \in Seq(Entries) /\ L \in Nat /\ Distinct(c) /\ At(c, 0) = Head0 /\ At(c, L + 1) = Head0
      /\ \A k \in 1 .. L : At(c, k) = c[k] /\ c[k] \in Entries /\ c[k] # Head0 /\ c[k] # e
  BY Circle DEF Linked, Elements
<1>2. \A k \in 0 .. L : next[At(c, k)] = At(c, k + 1) /\ prev[At(c, k + 1)] = At(c, k)
  BY DEF Linked
<1>3. /\ d \in Seq(Entries) /\ Len(d) = L + 1 /\ d[1] = e
      /\ \A k \in 1 .. L : d[k + 1] = c[k]
  BY <1>1, InFront
<1> HIDE DEF d
<1>4. e # Head0 /\ e \in Nodes /\ Head0 \in Nodes /\ Len(d) + 1 = L + 2
  BY <1>1, <1>3, StackAssumption DEF Head0, Nodes
<1>5. /\ At(d, 0) = Head0 /\ At(d, 1) = e /\ At(d, L + 2) = Head0
      /\ \A k \in 1 .. L : At(d, k + 1) = c[k]
  <2>1. At(d, 0) = Head0 /\ At(d, L + 2) = Head0
    BY <1>3, <1>4, Circle
  <2>2. At(d, 1) = e
    BY <1>1, <1>3, Circle
  <2>3. ASSUME NEW k \in 1 .. L PROVE At(d, k + 1) = c[k]
    <3>1. k + 1 \in 1 .. (L + 1)
      BY <1>1
    <3> QED BY <1>3, <3>1, Circle
  <2> QED BY <2>1, <2>2, <2>3
<1>6. \A k \in 1 .. (L + 1) : At(d, k + 1) = At(c, k) /\ At(c, k) # e /\ At(c, k) \in Nodes
  <2> TAKE k \in 1 .. (L + 1)
  <2>1. CASE k = L + 1
    <3>1. k + 1 = L + 2
      BY <1>1, <2>1
    <3> QED BY <1>1, <1>4, <1>5, <2>1, <3>1
  <2>2. CASE k # L + 1
    <3>1. k \in 1 .. L
      BY <1>1, <2>2
    <3> QED BY <1>1, <1>5, <3>1 DEF Nodes
  <2> QED BY <2>1, <2>2
<1>7. next[Head0] = At(c, 1)
  <2>1. 0 \in 0 .. L /\ 0 + 1 = 1
    BY <1>1
  <2> QED BY <1>1, <1>2, <2>1
<1>8. /\ next'[Head0] = e /\ next'[e] = At(c, 1) /\ prev'[e] = Head0 /\ prev'[At(c, 1)] = e
      /\ \A n \in Nodes : n \notin {e, Head0} => next'[n] = next[n]
      /\ \A n \in Nodes : n \notin {e, At(c, 1)} => prev'[n] = prev[n]
  <2>1. At(c, 1) # e /\ At(c, 1) \in Nodes
    <3>1. 1 \in 1 .. (L + 1)
      BY <1>1
    <3> QED BY <1>6, <3>1
  <2> QED BY <1>4, <1>7, <2>1
<1>9. ASSUME NEW k \in 0 .. (L + 1)
      PROVE  next'[At(d, k)] = At(d, k + 1) /\ prev'[At(d, k + 1)] = At(d, k)
  <2>1. CASE k = 0
    <3>1. k + 1 = 1
      BY <2>1
    <3> QED BY <1>5, <1>8, <2>1, <3>1
  <2>2. CASE k = 1
    <3>1. 1 \in 1 .. (L + 1)
      BY <1>1
    <3> QED BY <1>5, <1>6, <1>8, <2>2, <3>1
  <2>3. CASE k \notin {0, 1}
    <3>1. k - 1 \in 1 .. L /\ k \in 1 .. (L + 1) /\ k - 1 + 1 = k /\ k - 1 \in 0 .. L
          /\ k - 1 \in 1 .. (L + 1)
      BY <1>1, <2>3
    <3>2. At(d, k) = At(c, k - 1) /\ At(d, k + 1) = At(c, k) /\ At(c, k - 1) \notin {e, Head0}
          /\ At(c, k - 1) \in Nodes /\ At(c, k) # e /\ At(c, k) \in Nodes
      BY <1>1, <1>6, <3>1
    <3>3. At(c, k) # At(c, 1)
      <4>1. 1 \in 1 .. L /\ At(c, 1) = c[1] /\ c[1] # Head0
        BY <1>1, <3>1
      <4>2. CASE k = L + 1
        BY <1>1, <4>1, <4>2
      <4>3. CASE k # L + 1
        <5>1. k \in 1 .. L /\ k # 1
          BY <1>1, <2>3, <4>3
        <5> QED BY <1>1, <4>1, <5>1 DEF Distinct
      <4> QED BY <4>2, <4>3
    <3>4. next[At(c, k - 1)] = At(c, k) /\ prev[At(c, k)] = At(c, k - 1)
      BY <1>2, <3>1
    <3> QED BY <1>8, <3>2, <3>3, <3>4
  <2> QED BY <2>1, <2>2, <2>3
<1>10. Distinct(d)
  <2>1. ASSUME NEW k \in 1 .. (L + 1) PROVE k = 1 \/ (k - 1 \in 1 .. L /\ d[k] = c[k - 1])
    <3>1. k = 1 \/ (k - 1 \in 1 .. L /\ k - 1 + 1 = k)
      BY <1>1
    <3> QED BY <1>3, <3>1
  <2>2. ASSUME NEW j \in 1 .. (L + 1), NEW k \in 1 .. (L + 1), d[j] = d[k] PROVE j = k
    <3>1. CASE j = 1 \/ k = 1
      BY <1>1, <1>3, <2>1, <2>2, <3>1
    <3>2. CASE j # 1 /\ k # 1
      <4>1. j - 1 \in 1 .. L /\ k - 1 \in 1 .. L /\ c[j - 1] = c[k - 1]
        BY <2>1, <2>2, <3>2
      <4>2. j - 1 = k - 1
        BY <1>1, <4>1 DEF Distinct
      <4> QED BY <1>1, <4>2
    <3> QED BY <3>1, <3>2
  <2> QED BY <1>3, <2>2 DEF Distinct
<1>11. Elements(d) = Elements(c) \cup {e}
  <2>1. ASSUME NEW k \in 1 .. (L + 1) PROVE d[k] \in Elements(c) \cup {e}
    <3>1. k = 1 \/ (k - 1 \in 1 .. L /\ k - 1 + 1 = k)
      BY <1>1
    <3> QED BY <1>3, <3>1 DEF Elements
  <2>2. ASSUME NEW k \in 1 .. L PROVE c[k] \in Elements(d)
    <3>1. k + 1 \in 1 .. (L + 1)
      BY <1>1
    <3> QED BY <1>3, <3>1 DEF Elements
  <2>3. e \in Elements(d)
    <3>1. 1 \in 1 .. (L + 1)
      BY <1>1
    <3> QED BY <1>3, <3>1 DEF Elements
  <2>4. \A x \in Elements(d) : \E k \in 1 .. (L + 1) : x = d[k]
    BY <1>3 DEF Elements
  <2>5. \A x \in Elements(c) : \E k \in 1 .. L : x = c[k]
    BY DEF Elements
  <2> QED BY <2>1, <2>2, <2>3, <2>4, <2>5
<1>12. Linked(d)'
  BY <1>3, <1>9, <1>10 DEF Linked
<1> QED BY <1>3, <1>11, <1>12 DEF d

\* What the removal of the first entry does to the list.
LEMMA DelLinked ==
  ASSUME next \in [Nodes -> Nodes], prev \in [Nodes -> Nodes],
         NEW c, Linked(c), c # <<>>, list_del(c[1])
  PROVE  /\ Linked(Tail(c))' /\ Elements(Tail(c)) = Elements(c) \ {c[1]} /\ Len(Tail(c)) = Len(c) - 1
         /\ c[1] \in Elements(c) /\ c[1] \in Entries /\ next[Head0] = c[1] /\ next'[Head0] = next[c[1]]
<1> DEFINE d == Tail(c)
           L == Len(c)
           e == c[1]
<1>1. c \in Seq(Entries) /\ L \in Nat /\ Distinct(c) /\ At(c, 0) = Head0 /\ At(c, L + 1) = Head0
      /\ \A k \in 1 .. L : At(c, k) = c[k] /\ c[k] \in Entries /\ c[k] # Head0
  BY Circle DEF Linked
<1>2. \A k \in 0 .. L : next[At(c, k)] = At(c, k + 1) /\ prev[At(c, k + 1)] = At(c, k)
  BY DEF Linked
<1>3. d \in Seq(Entries) /\ Len(d) = L - 1 /\ (\A k \in 1 .. (L - 1) : d[k] = c[k + 1]) /\ L >= 1
  <2>1. d \in Seq(Entries) /\ Len(d) = L - 1 /\ \A k \in 1 .. Len(d) : d[k] = c[k + 1]
    BY <1>1, HeadTailProperties
  <2>2. L # 0
    BY <1>1, EmptySeq
  <2> QED BY <1>1, <2>1, <2>2
<1> HIDE DEF d
<1>4. /\ 1 \in 1 .. L /\ At(c, 1) = e /\ e \in Entries /\ e # Head0 /\ e \in Nodes /\ Head0 \in Nodes
      /\ next' = [next EXCEPT ![prev[e]] = next[e], ![e] = Poison]
      /\ prev' = [prev EXCEPT ![next[e]] = prev[e], ![e] = Poison]
  BY <1>1, <1>3 DEF Nodes, list_del
<1> HIDE DEF e
<1>5. next[Head0] = e /\ prev[e] = Head0 /\ next[e] = At(c, 2) /\ prev[At(c, 2)] = e
  <2>1. 0 \in 0 .. L /\ 1 \in 0 .. L /\ 0 + 1 = 1 /\ 1 + 1 = 2
    BY <1>1, <1>3
  <2> QED BY <1>1, <1>2, <1>4, <2>1
<1>6. \A k \in 2 .. (L + 1) : At(c, k) # e /\ At(c, k) \in Nodes /\ At(d, k - 1) = At(c, k)
  <2> TAKE k \in 2 .. (L + 1)
  <2>1. CASE k = L + 1
    <3>1. k - 1 = (L - 1) + 1
      BY <1>1, <2>1
    <3>2. At(d, k - 1) = Head0
      BY <1>3, <3>1, Circle
    <3> QED BY <1>1, <1>4, <2>1, <3>2
  <2>2. CASE k # L + 1
    <3>1. k \in 1 .. L /\ k # 1 /\ k - 1 \in 1 .. (L - 1) /\ k - 1 + 1 = k
      BY <1>1, <2>2
    <3>2. At(c, k) = c[k] /\ c[k] \in Nodes /\ c[k] # c[1]
      BY <1>1, <1>4, <3>1 DEF Distinct, Nodes
    <3>3. At(d, k - 1) = c[k]
      BY <1>3, <3>1, Circle
    <3> QED BY <3>2, <3>3 DEF e
  <2> QED BY <2>1, <2>2
<1>7. /\ next'[Head0] = At(c, 2) /\ prev'[At(c, 2)] = Head0
      /\ \A n \in Nodes : n \notin {e, Head0} => next'[n] = next[n]
      /\ \A n \in Nodes : n \notin {e, At(c, 2)} => prev'[n] = prev[n]
  <2>1. At(c, 2) # e /\ At(c, 2) \in Nodes
    <3>1. 2 \in 2 .. (L + 1)
      BY <1>1, <1>3
    <3> QED BY <1>6, <3>1
  <2> QED BY <1>4, <1>5, <2>1
<1>8. ASSUME NEW k \in 0 .. (L - 1)
      PROVE  next'[At(d, k)] = At(d, k + 1) /\ prev'[At(d, k + 1)] = At(d, k)
  <2>1. At(d, 0) = Head0
    BY <1>3, Circle
  <2>2. CASE k = 0
    <3>1. k + 1 = 1 /\ 2 - 1 = 1 /\ 2 \in 2 .. (L + 1)
      BY <1>1, <1>3, <2>2
    <3>2. At(d, 1) = At(c, 2)
      BY <1>6, <3>1
    <3> QED BY <1>7, <2>1, <2>2, <3>1, <3>2
  <2>3. CASE k # 0
    <3>1. /\ k + 1 \in 2 .. (L + 1) /\ k + 1 - 1 = k /\ k + 2 \in 2 .. (L + 1) /\ k + 2 - 1 = k + 1
          /\ k + 1 \in 0 .. L /\ k + 1 + 1 = k + 2 /\ k + 1 \in 1 .. L
      BY <1>1, <2>3
    <3>2. At(d, k) = At(c, k + 1) /\ At(d, k + 1) = At(c, k + 2) /\ At(c, k + 1) \notin {e, Head0}
          /\ At(c, k + 1) \in Nodes /\ At(c, k + 2) # e /\ At(c, k + 2) \in Nodes
      BY <1>1, <1>6, <3>1
    <3>3. At(c, k + 2) # At(c, 2)
      <4>1. 2 \in 1 .. L /\ At(c, 2) = c[2] /\ c[2] # Head0
        BY <1>1, <2>3, <3>1
      <4>2. CASE k + 2 = L + 1
        BY <1>1, <4>1, <4>2
      <4>3. CASE k + 2 # L + 1
        <5>1. k + 2 \in 1 .. L /\ k + 2 # 2
          BY <1>1, <2>3, <4>3
        <5> QED BY <1>1, <4>1, <5>1 DEF Distinct
      <4> QED BY <4>2, <4>3
    <3>4. next[At(c, k + 1)] = At(c, k + 2) /\ prev[At(c, k + 2)] = At(c, k + 1)
      BY <1>2, <3>1
    <3> QED BY <1>7, <3>2, <3>3, <3>4
  <2> QED BY <2>2, <2>3
<1>9. Distinct(d)
  <2>1. ASSUME NEW j \in 1 .. (L - 1), NEW k \in 1 .. (L - 1), d[j] = d[k] PROVE j = k
    <3>1. j + 1 \in 1 .. L /\ k + 1 \in 1 .. L
      BY <1>1
    <3>2. j + 1 = k + 1
      BY <1>1, <1>3, <2>1, <3>1 DEF Distinct
    <3> QED BY <1>1, <3>2
  <2> QED BY <1>3, <2>1 DEF Distinct
<1>10. Elements(d) = Elements(c) \ {e}
  <2>1. ASSUME NEW k \in 1 .. (L - 1) PROVE d[k] \in Elements(c) \ {e}
    <3>1. k + 1 \in 1 .. L /\ k + 1 # 1
      BY <1>1
    <3> QED BY <1>1, <1>3, <1>4, <3>1 DEF Elements, Distinct, e
  <2>2. ASSUME NEW k \in 1 .. L, c[k] # e PROVE c[k] \in Elements(d)
    <3>1. k # 1
      BY <2>2 DEF e
    <3>2. k - 1 \in 1 .. (L - 1) /\ k - 1 + 1 = k
      BY <1>1, <3>1
    <3> QED BY <1>3, <3>2 DEF Elements
  <2>3. \A x \in Elements(d) : \E k \in 1 .. (L - 1) : x = d[k]
    BY <1>3 DEF Elements
  <2>4. \A x \in Elements(c) : \E k \in 1 .. L : x = c[k]
    BY DEF Elements
  <2> QED BY <2>1, <2>2, <2>3, <2>4
<1>11. Linked(d)'
  BY <1>3, <1>8, <1>9 DEF Linked
<1>12. e \in Elements(c)
  BY <1>4 DEF Elements, e
<1> QED BY <1>3, <1>4, <1>5, <1>7, <1>10, <1>11, <1>12 DEF d, e

\* The empty list.
LEMMA EmptyLinked ==
  ASSUME next[Head0] = Head0, prev[Head0] = Head0
  PROVE  Linked(<<>>) /\ Elements(<<>>) = {} /\ Len(<<>>) = 0
<1>1. <<>> \in Seq(Entries) /\ Len(<<>>) = 0
  BY EmptySeq
<1>2. Distinct(<<>>) /\ Elements(<<>>) = {}
  BY <1>1 DEF Distinct, Elements
<1>3. At(<<>>, 0) = Head0 /\ At(<<>>, 1) = Head0
  BY <1>1 DEF At
<1>4. ASSUME NEW k \in 0 .. 0 PROVE k = 0 /\ k + 1 = 1
  BY <1>4
<1> QED BY <1>1, <1>2, <1>3, <1>4 DEF Linked

\* list_empty tells whether the list is empty.
LEMMA ListEmpty ==
  ASSUME NEW c, Linked(c)
  PROVE  /\ list_empty <=> c = <<>>
         /\ c # <<>> => next[Head0] = c[1] /\ c[1] \in Elements(c) /\ c[1] \in Entries
<1>1. c \in Seq(Entries) /\ Len(c) \in Nat /\ At(c, 0) = Head0 /\ At(c, Len(c) + 1) = Head0
      /\ \A k \in 1 .. Len(c) : At(c, k) = c[k] /\ c[k] \in Entries /\ c[k] # Head0
  BY Circle DEF Linked
<1>2. next[Head0] = At(c, 1)
  <2>1. 0 \in 0 .. Len(c) /\ 0 + 1 = 1
    BY <1>1
  <2> QED BY <1>1, <2>1 DEF Linked
<1>3. CASE c = <<>>
  <2>1. Len(c) + 1 = 1
    BY <1>3, EmptySeq
  <2> QED BY <1>1, <1>2, <1>3, <2>1 DEF list_empty
<1>4. CASE c # <<>>
  <2>1. Len(c) # 0
    BY <1>1, <1>4, EmptySeq
  <2>2. 1 \in 1 .. Len(c)
    BY <1>1, <2>1
  <2> QED BY <1>1, <1>2, <1>4, <2>2 DEF list_empty, Elements
<1> QED BY <1>3, <1>4

-----------------------------------------------------------------------------
(* The inductive invariant *)

Places == {"idle", "push", "link", "link2", "pop", "first", "unlink", "count",
           "count2", "peek", "size", "is_empty", "clear", "each"}
Starts == {"push", "pop", "peek", "size", "is_empty", "clear"}

MemType ==
  /\ next \in [Nodes -> Nodes] /\ prev \in [Nodes -> Nodes]
  /\ data \in [Nodes -> Values \cup {0}]
  /\ allocated \subseteq Entries
  /\ size \in 0 .. Cardinality(Entries)

ProcType ==
  /\ pc \in [Procs -> Places]
  /\ call \in [Procs -> [op : Starts \cup {"none"}, arg : Values \cup {0}]]
  /\ entry \in [Procs -> Nodes] /\ other \in [Procs -> Int]
  /\ number \in [Procs -> Values \cup {0}]
  /\ answer = [p \in Procs |-> answer[p]]

\* One call at a time, and rmmod runs only when the files are gone.
SerialInv ==
  /\ phase \in {"absent", "files", "live", "going"}
  /\ \A p, q \in Procs : ~Idle(p) /\ ~Idle(q) => p = q
  /\ \A u \in Users : ~Idle(u) => phase = "live"
  /\ ~Idle(Rmmod) => phase = "going"
  /\ pc[Rmmod] \in {"idle", "clear", "each"}

\* The list, when nobody is about to change it.
Normal(c) == allocated = Elements(c) /\ size = Len(c)

\* One entry is allocated and not in the list.
Loose(c, e) == e \in Entries \ Elements(c) /\ allocated = Elements(c) \cup {e}

\* What a process in the middle of a call has done to the list c.
Doing(p, c) ==
  /\ Idle(p) => call[p] = NoCall
  /\ pc[p] \in Starts => call[p].op = pc[p] /\ Normal(c)
  /\ pc[p] \in {"link", "link2"} =>
       call[p].op = "push" /\ Loose(c, entry[p]) /\ size = Len(c) /\ data[entry[p]] = call[p].arg
  /\ pc[p] = "link2" => other[p] = next[Head0]
  /\ pc[p] = "first" => call[p].op \in {"pop", "peek"} /\ Normal(c) /\ c # <<>>
  /\ pc[p] = "unlink" => /\ call[p].op = "pop" /\ Normal(c) /\ c # <<>>
                         /\ entry[p] = c[1] /\ number[p] = data[c[1]]
  /\ pc[p] \in {"count", "count2"} =>
       \/ call[p].op = "push" /\ allocated = Elements(c) /\ size + 1 = Len(c)
       \/ call[p].op = "pop" /\ Loose(c, entry[p]) /\ size = Len(c) + 1
  /\ pc[p] = "count2" => other[p] = size
  /\ pc[p] = "each" => /\ call[p].op = "clear" /\ allocated = Elements(c)
                       /\ entry[p] = next[Head0] /\ other[p] = next[entry[p]]

ListInv(c) ==
  /\ Linked(c)
  /\ Quiet => Normal(c) /\ (phase # "live" => c = <<>>)
  /\ \A p \in Procs : Doing(p, c)

IInv == MemType /\ ProcType /\ SerialInv /\ ListInv(Chain)

ChainAll == \A c : Linked(c) => Chain = c

\* Chain is the only sequence that the list stands for.
LEMMA ChainHere == ChainAll
BY ChainIs DEF ChainAll

\* The same in the next state.
LEMMA ChainThere == ChainAll'
BY ChainHere, PTL

\* The state in the middle of a call.
LEMMA InCall ==
  ASSUME IInv, NEW p \in Procs, ~Idle(p)
  PROVE  /\ MemType /\ ProcType
         /\ Linked(Chain) /\ Doing(p, Chain)
         /\ p \in Users => phase = "live"
         /\ p = Rmmod => phase = "going" /\ pc[p] \in {"clear", "each"}
         /\ \A q \in Procs \ {p} : Idle(q) /\ call[q] = NoCall
<1>1. MemType /\ ProcType /\ SerialInv /\ Linked(Chain) /\ \A q \in Procs : Doing(q, Chain)
  BY DEF IInv, ListInv
<1>2. \A q \in Procs \ {p} : Idle(q)
  BY <1>1 DEF SerialInv
<1>3. \A q \in Procs \ {p} : call[q] = NoCall
  BY <1>1, <1>2 DEF Doing
<1>4. p \in Users => phase = "live"
  BY <1>1 DEF SerialInv
<1>5. p = Rmmod => phase = "going" /\ pc[p] \in {"clear", "each"}
  BY <1>1 DEF SerialInv, Idle
<1> QED BY <1>1, <1>2, <1>3, <1>4, <1>5

\* A step of the process that is in a call keeps the invariant when it leaves a list
\* d that agrees with where the process then is.
LEMMA StepKeeps ==
  ASSUME IInv, NEW p \in Procs, ~Idle(p), phase' = phase, MemType', ProcType',
         \A q \in Procs \ {p} : pc'[q] = pc[q] /\ call'[q] = call[q],
         NEW d, Linked(d)', Doing(p, d)',
         pc'[p] = "idle" => Normal(d)' /\ (p = Rmmod => d = <<>>),
         p = Rmmod => pc'[p] \in {"idle", "clear", "each"}
  PROVE  IInv' /\ Chain' = d
<1>1. /\ p \in Users => phase = "live"
      /\ p = Rmmod => phase = "going"
      /\ \A q \in Procs \ {p} : Idle(q) /\ call[q] = NoCall
  BY InCall
<1>2. Chain' = d
  BY ChainThere DEF ChainAll
<1>3. \A q \in Procs \ {p} : pc'[q] = "idle" /\ call'[q] = NoCall
  BY <1>1 DEF Idle
<1>4. SerialInv'
  <2>1. phase \in {"absent", "files", "live", "going"} /\ pc[Rmmod] \in {"idle", "clear", "each"}
    BY DEF IInv, SerialInv
  <2>2. Rmmod \in Procs /\ Users \subseteq Procs /\ Rmmod \notin Users
    BY StackAssumption DEF Procs
  <2> QED BY <1>1, <1>3, <2>1, <2>2 DEF SerialInv, Idle
<1>5. ASSUME Quiet' PROVE Normal(d)' /\ (phase' # "live" => d = <<>>)
  <2>1. pc'[p] = "idle"
    BY <1>5 DEF Quiet, Idle
  <2>2. p \in Users \/ p = Rmmod
    BY DEF Procs
  <2> QED BY <1>1, <2>1, <2>2
<1>6. \A q \in Procs : Doing(q, d)'
  <2> SUFFICES ASSUME NEW q \in Procs, q # p PROVE Doing(q, d)'
    OBVIOUS
  <2>1. pc'[q] = "idle" /\ call'[q] = NoCall
    BY <1>3
  <2> QED BY <2>1 DEF Doing, Idle, Starts
<1>7. ListInv(d)'
  BY <1>5, <1>6 DEF ListInv
<1>8. ListInv(Chain)'
  BY <1>2, <1>7 DEF ListInv
<1> QED BY <1>2, <1>4, <1>8 DEF IInv

\* A callback returns.
LEMMA Returned ==
  ASSUME ProcType, NEW p \in Procs, NEW a, Return(p, a)
  PROVE  /\ ProcType' /\ pc'[p] = "idle" /\ call'[p] = NoCall
         /\ \A q \in Procs \ {p} : pc'[q] = pc[q] /\ call'[q] = call[q]
<1>1. NoCall \in [op : Starts \cup {"none"}, arg : Values \cup {0}] /\ Head0 \in Nodes /\ 0 \in Int
      /\ "idle" \in Places /\ Head0 \in Int
  BY DEF NoCall, Nodes, Places, Head0
<1>2. pc' \in [Procs -> Places] /\ entry' \in [Procs -> Nodes] /\ other' \in [Procs -> Int]
      /\ call' \in [Procs -> [op : Starts \cup {"none"}, arg : Values \cup {0}]]
      /\ number' \in [Procs -> Values \cup {0}]
  BY <1>1 DEF ProcType, Return
<1>3. answer' = [q \in Procs |-> answer'[q]]
  BY DEF ProcType, Return
<1>4. pc'[p] = "idle" /\ call'[p] = NoCall
  BY DEF ProcType, Return
<1>5. \A q \in Procs \ {p} : pc'[q] = pc[q] /\ call'[q] = call[q]
  BY DEF ProcType, Return
<1> QED BY <1>2, <1>3, <1>4, <1>5 DEF ProcType

\* A return keeps the invariant when the list is left as it should be between calls.
LEMMA ReturnKeeps ==
  ASSUME IInv, NEW p \in Procs, ~Idle(p), NEW a, Return(p, a), phase' = phase, MemType',
         NEW d, Linked(d)', Normal(d)', p = Rmmod => d = <<>>
  PROVE  IInv' /\ Chain' = d
<1>1. /\ ProcType' /\ pc'[p] = "idle" /\ call'[p] = NoCall
      /\ \A q \in Procs \ {p} : pc'[q] = pc[q] /\ call'[q] = call[q]
  BY Returned DEF IInv
<1>2. Doing(p, d)'
  BY <1>1 DEF Doing, Idle, Starts
<1> QED BY <1>1, <1>2, StepKeeps

\* A callback goes on: only its place and its locals change.
LEMMA WentOn ==
  ASSUME ProcType, NEW p \in Procs, NEW w \in Places, Goto(p, w), UNCHANGED <<call, answer>>,
         entry' \in [Procs -> Nodes], other' \in [Procs -> Int], number' \in [Procs -> Values \cup {0}]
  PROVE  /\ ProcType' /\ pc'[p] = w
         /\ \A q \in Procs \ {p} : pc'[q] = pc[q] /\ call'[q] = call[q]
<1>1. pc' \in [Procs -> Places] /\ pc'[p] = w /\ \A q \in Procs \ {p} : pc'[q] = pc[q]
  BY DEF ProcType, Goto
<1> QED BY <1>1 DEF ProcType

-----------------------------------------------------------------------------
(* One lemma per step of a callback *)

\* Nodes are numbers in this model.
LEMMA NodesInt == Nodes \subseteq Int /\ Head0 \in Nodes
<1>1. Head0 \in Int /\ Poison \in Int
  BY DEF Head0, Poison
<1> QED BY <1>1, StackAssumption DEF Nodes

\* When nothing is linked or unlinked the list stays.
LEMMA SameList ==
  ASSUME NEW c, Linked(c), UNCHANGED <<next, prev>>
  PROVE  Linked(c)'
BY DEF Linked

\* kmalloc for the new entry.
LEMMA PushAllocKeeps ==
  ASSUME IInv, NEW p \in Procs, PushAlloc(p)
  PROVE  IInv' /\ Chain' = Chain
<1>1. ~Idle(p) /\ pc[p] = "push" /\ phase' = phase
  BY DEF PushAlloc, Idle
<1>2. MemType /\ ProcType /\ Linked(Chain) /\ Doing(p, Chain) /\ p # Rmmod
  BY <1>1, InCall
<1>3. PICK c : c = Chain
  OBVIOUS
<1>4. Linked(c) /\ Normal(c) /\ call[p].op = "push"
  BY <1>1, <1>2, <1>3 DEF Doing, Starts
<1>5. CASE Return(p, <<"nomem">>) /\ UNCHANGED memory
  <2>1. MemType' /\ Normal(c)' /\ Linked(c)'
    BY <1>2, <1>4, <1>5, SameList DEF MemType, Normal, memory
  <2> QED BY <1>1, <1>2, <1>3, <1>5, <2>1, ReturnKeeps
<1>6. ASSUME NEW e \in Entries \ allocated,
             allocated' = allocated \cup {e}, data' = [data EXCEPT ![e] = call[p].arg],
             entry' = [entry EXCEPT ![p] = e], Goto(p, "link"),
             UNCHANGED <<next, prev, size, call, other, number, answer>>
      PROVE  IInv' /\ Chain' = c
  <2>1. e \in Nodes /\ call[p].arg \in Values \cup {0} /\ entry'[p] = e /\ entry' \in [Procs -> Nodes]
    BY <1>2, <1>6 DEF ProcType, Nodes
  <2>2. data' \in [Nodes -> Values \cup {0}] /\ data'[e] = call[p].arg
    BY <1>2, <1>6, <2>1 DEF MemType
  <2>3. MemType' /\ Linked(c)'
    BY <1>2, <1>4, <1>6, <2>2, SameList DEF MemType
  <2>4. ProcType' /\ pc'[p] = "link" /\ \A q \in Procs \ {p} : pc'[q] = pc[q] /\ call'[q] = call[q]
    <3>1. "link" \in Places /\ other' \in [Procs -> Int] /\ number' \in [Procs -> Values \cup {0}]
      BY <1>2, <1>6 DEF ProcType, Places
    <3> QED BY <1>2, <1>6, <2>1, <3>1, WentOn
  <2>5. Doing(p, c)'
    BY <1>4, <1>6, <2>1, <2>2, <2>4 DEF Doing, Normal, Loose, Idle, Starts
  <2> QED BY <1>1, <1>2, <2>3, <2>4, <2>5, StepKeeps
<1> QED BY <1>3, <1>5, <1>6 DEF PushAlloc

\* list_add reads the first entry.
LEMMA PushReadKeeps ==
  ASSUME IInv, NEW p \in Procs, PushRead(p)
  PROVE  IInv' /\ Chain' = Chain
<1>1. ~Idle(p) /\ pc[p] = "link" /\ phase' = phase /\ UNCHANGED <<memory, call, entry, number, answer>>
  BY DEF PushRead, Idle
<1>2. MemType /\ ProcType /\ Linked(Chain) /\ Doing(p, Chain) /\ p # Rmmod
  BY <1>1, InCall
<1>3. PICK c : c = Chain
  OBVIOUS
<1>4. MemType' /\ Linked(c) /\ Linked(c)'
  BY <1>1, <1>2, <1>3, SameList DEF MemType, memory
<1>5. other' \in [Procs -> Int] /\ other'[p] = next[Head0]
  <2>1. next[Head0] \in Int
    BY <1>2, NodesInt DEF MemType
  <2> QED BY <1>2, <2>1 DEF ProcType, PushRead
<1>6. ProcType' /\ pc'[p] = "link2" /\ \A q \in Procs \ {p} : pc'[q] = pc[q] /\ call'[q] = call[q]
  <2>1. "link2" \in Places /\ entry' \in [Procs -> Nodes] /\ number' \in [Procs -> Values \cup {0}]
    BY <1>1, <1>2 DEF ProcType, Places
  <2> QED BY <1>1, <1>2, <1>5, <2>1, WentOn DEF PushRead
<1>7. Doing(p, c)'
  BY <1>1, <1>2, <1>3, <1>5, <1>6 DEF Doing, Loose, Idle, Starts, memory
<1> QED BY <1>1, <1>2, <1>3, <1>4, <1>6, <1>7, StepKeeps

\* __list_add links the new entry.
LEMMA PushLinkKeeps ==
  ASSUME IInv, NEW p \in Procs, PushLink(p)
  PROVE  IInv' /\ Chain' = <<entry[p]>> \o Chain /\ data[entry[p]] = call[p].arg
         /\ p # Rmmod /\ call[p].op = "push" /\ pc[p] = "link2" /\ pc'[p] = "count"
<1>1. ~Idle(p) /\ pc[p] = "link2" /\ phase' = phase /\ UNCHANGED <<data, allocated, size, call, locals, answer>>
  BY DEF PushLink, Idle
<1>2. MemType /\ ProcType /\ Linked(Chain) /\ Doing(p, Chain) /\ p # Rmmod
  BY <1>1, InCall
<1>3. PICK c : c = Chain
  OBVIOUS
<1>4. PICK e : e = entry[p]
  OBVIOUS
<1>5. /\ Linked(c) /\ e \in Entries /\ e \notin Elements(c) /\ allocated = Elements(c) \cup {e}
      /\ size = Len(c) /\ call[p].op = "push" /\ data[e] = call[p].arg
      /\ next' = [next EXCEPT ![e] = next[Head0], ![Head0] = e]
      /\ prev' = [prev EXCEPT ![next[Head0]] = e, ![e] = Head0]
  BY <1>1, <1>2, <1>3, <1>4 DEF Doing, Loose, PushLink
<1> DEFINE d == <<e>> \o c
<1>6. Linked(d)' /\ Elements(d) = Elements(c) \cup {e} /\ Len(d) = Len(c) + 1
  BY <1>2, <1>5, PushLinked DEF MemType
<1> HIDE DEF d
<1>7. MemType'
  <2>1. e \in Nodes /\ Head0 \in Nodes
    BY <1>5 DEF Nodes
  <2>2. next' \in [Nodes -> Nodes] /\ prev' \in [Nodes -> Nodes]
    BY <1>2, <1>5, <2>1 DEF MemType
  <2> QED BY <1>1, <1>2, <2>2 DEF MemType
<1>8. ProcType' /\ pc'[p] = "count" /\ \A q \in Procs \ {p} : pc'[q] = pc[q] /\ call'[q] = call[q]
  <2>1. /\ "count" \in Places /\ entry' \in [Procs -> Nodes] /\ number' \in [Procs -> Values \cup {0}]
        /\ other' \in [Procs -> Int]
    BY <1>1, <1>2 DEF ProcType, Places, locals
  <2> QED BY <1>1, <1>2, <2>1, WentOn DEF PushLink
<1>9. Doing(p, d)'
  BY <1>1, <1>5, <1>6, <1>8 DEF Doing, Idle, Starts
<1>10. IInv' /\ Chain' = d
  BY <1>1, <1>2, <1>6, <1>7, <1>8, <1>9, StepKeeps
<1> QED BY <1>1, <1>2, <1>3, <1>4, <1>5, <1>8, <1>10 DEF d

\* stack_pop and stack_peek test for the empty list.
LEMMA TestKeeps ==
  ASSUME IInv, NEW p \in Procs, Test(p)
  PROVE  IInv' /\ Chain' = Chain /\ (list_empty <=> Chain = <<>>) /\ p # Rmmod
         /\ call[p].op = pc[p]
<1>1. ~Idle(p) /\ pc[p] \in {"pop", "peek"} /\ phase' = phase /\ UNCHANGED memory
  BY DEF Test, Idle
<1>2. MemType /\ ProcType /\ Linked(Chain) /\ Doing(p, Chain) /\ p # Rmmod
  BY <1>1, InCall
<1>3. PICK c : c = Chain
  OBVIOUS
<1>4. MemType' /\ Linked(c) /\ Linked(c)' /\ (list_empty <=> c = <<>>)
  BY <1>1, <1>2, <1>3, SameList, ListEmpty DEF MemType, memory
<1>5. Normal(c) /\ call[p].op = pc[p]
  BY <1>1, <1>2, <1>3 DEF Doing, Starts
<1>6. Normal(c)'
  BY <1>1, <1>5 DEF Normal, memory
<1>7. CASE Return(p, <<"empty">>)
  <2>1. IInv' /\ Chain' = c
    BY <1>1, <1>2, <1>4, <1>6, <1>7, ReturnKeeps
  <2> QED BY <1>2, <1>3, <1>4, <1>5, <2>1
<1>8. CASE ~list_empty /\ Goto(p, "first") /\ UNCHANGED <<call, locals, answer>>
  <2>1. ProcType' /\ pc'[p] = "first" /\ \A q \in Procs \ {p} : pc'[q] = pc[q] /\ call'[q] = call[q]
    <3>1. /\ "first" \in Places /\ entry' \in [Procs -> Nodes] /\ number' \in [Procs -> Values \cup {0}]
          /\ other' \in [Procs -> Int]
      BY <1>2, <1>8 DEF ProcType, Places, locals
    <3> QED BY <1>2, <1>8, <3>1, WentOn
  <2>2. Doing(p, c)'
    <3>1. call'[p].op \in {"pop", "peek"} /\ c # <<>>
      BY <1>1, <1>4, <1>5, <1>8
    <3> QED BY <1>6, <2>1, <3>1 DEF Doing, Idle, Starts
  <2>3. IInv' /\ Chain' = c
    BY <1>1, <1>2, <1>4, <2>1, <2>2, StepKeeps
  <2> QED BY <1>2, <1>3, <1>4, <1>5, <2>3
<1> QED BY <1>7, <1>8 DEF Test

\* The first entry and its data.
LEMMA FirstKeeps ==
  ASSUME IInv, NEW p \in Procs, First(p)
  PROVE  IInv' /\ Chain' = Chain /\ Chain # <<>> /\ next[Head0] = Chain[1] /\ p # Rmmod
<1>1. ~Idle(p) /\ pc[p] = "first" /\ phase' = phase /\ UNCHANGED memory
  BY DEF First, Idle
<1>2. MemType /\ ProcType /\ Linked(Chain) /\ Doing(p, Chain) /\ p # Rmmod
  BY <1>1, InCall
<1>3. PICK c : c = Chain
  OBVIOUS
<1>4. /\ MemType' /\ Linked(c) /\ Linked(c)' /\ Normal(c) /\ Normal(c)' /\ c # <<>>
      /\ call[p].op \in {"pop", "peek"}
  BY <1>1, <1>2, <1>3, SameList DEF MemType, memory, Doing, Normal
<1>5. next[Head0] = c[1] /\ c[1] \in Entries
  BY <1>4, ListEmpty
<1>6. CASE Return(p, <<"value", data[c[1]]>>)
  <2>1. IInv' /\ Chain' = c
    BY <1>1, <1>2, <1>4, <1>6, ReturnKeeps
  <2> QED BY <1>2, <1>3, <1>4, <1>5, <2>1
<1>7. CASE /\ call[p].op = "pop"
           /\ entry' = [entry EXCEPT ![p] = c[1]]
           /\ number' = [number EXCEPT ![p] = data[c[1]]]
           /\ Goto(p, "unlink")
           /\ UNCHANGED <<call, other, answer>>
  <2>1. c[1] \in Nodes /\ data[c[1]] \in Values \cup {0}
    BY <1>2, <1>5 DEF MemType, Nodes
  <2>2. /\ entry' \in [Procs -> Nodes] /\ entry'[p] = c[1] /\ other' \in [Procs -> Int]
        /\ number' \in [Procs -> Values \cup {0}] /\ number'[p] = data[c[1]]
    BY <1>2, <1>7, <2>1 DEF ProcType
  <2>3. ProcType' /\ pc'[p] = "unlink" /\ \A q \in Procs \ {p} : pc'[q] = pc[q] /\ call'[q] = call[q]
    <3>1. "unlink" \in Places
      BY DEF Places
    <3> QED BY <1>2, <1>7, <2>2, <3>1, WentOn
  <2>4. Doing(p, c)'
    BY <1>1, <1>4, <1>7, <2>2, <2>3 DEF Doing, Idle, Starts, memory
  <2>5. IInv' /\ Chain' = c
    BY <1>1, <1>2, <1>4, <2>3, <2>4, StepKeeps
  <2> QED BY <1>2, <1>3, <1>4, <1>5, <2>5
<1> QED BY <1>5, <1>6, <1>7 DEF First

\* list_del of the first entry.
LEMMA PopUnlinkKeeps ==
  ASSUME IInv, NEW p \in Procs, PopUnlink(p)
  PROVE  /\ IInv' /\ Chain # <<>> /\ Chain' = Tail(Chain) /\ number[p] = data[Chain[1]]
         /\ p # Rmmod /\ call[p].op = "pop" /\ pc[p] = "unlink" /\ pc'[p] = "count"
<1>1. ~Idle(p) /\ pc[p] = "unlink" /\ phase' = phase /\ UNCHANGED <<data, allocated, size, call, locals, answer>>
  BY DEF PopUnlink, Idle
<1>2. MemType /\ ProcType /\ Linked(Chain) /\ Doing(p, Chain) /\ p # Rmmod
  BY <1>1, InCall
<1>3. PICK c : c = Chain
  OBVIOUS
<1>4. /\ Linked(c) /\ Normal(c) /\ c # <<>> /\ call[p].op = "pop"
      /\ entry[p] = c[1] /\ number[p] = data[c[1]] /\ list_del(c[1])
  BY <1>1, <1>2, <1>3 DEF Doing, PopUnlink
<1> DEFINE d == Tail(c)
<1>5. /\ Linked(d)' /\ Elements(d) = Elements(c) \ {c[1]} /\ Len(d) = Len(c) - 1
      /\ c[1] \in Elements(c) /\ c[1] \in Entries
  BY <1>2, <1>4, DelLinked DEF MemType
<1> HIDE DEF d
<1>6. MemType'
  <2>1. c[1] \in Nodes /\ Poison \in Nodes
    BY <1>5 DEF Nodes
  <2>2. next' \in [Nodes -> Nodes] /\ prev' \in [Nodes -> Nodes]
    BY <1>2, <1>4, <2>1 DEF MemType, list_del
  <2> QED BY <1>1, <1>2, <2>2 DEF MemType
<1>7. ProcType' /\ pc'[p] = "count" /\ \A q \in Procs \ {p} : pc'[q] = pc[q] /\ call'[q] = call[q]
  <2>1. /\ "count" \in Places /\ entry' \in [Procs -> Nodes] /\ number' \in [Procs -> Values \cup {0}]
        /\ other' \in [Procs -> Int]
    BY <1>1, <1>2 DEF ProcType, Places, locals
  <2> QED BY <1>1, <1>2, <2>1, WentOn DEF PopUnlink
<1>8. Doing(p, d)'
  <2>1. size' = Len(d) + 1
    <3>1. Len(c) \in Nat
      BY <1>4, Circle DEF Linked
    <3> QED BY <1>1, <1>4, <1>5, <3>1 DEF Normal
  <2>2. Loose(d, entry[p])'
    BY <1>1, <1>4, <1>5 DEF Normal, Loose, locals
  <2> QED BY <1>1, <1>4, <1>7, <2>1, <2>2 DEF Doing, Idle, Starts
<1>9. IInv' /\ Chain' = d
  BY <1>1, <1>2, <1>5, <1>6, <1>7, <1>8, StepKeeps
<1> QED BY <1>1, <1>2, <1>3, <1>4, <1>7, <1>9 DEF d

\* size++ and size-- read the number.
LEMMA CountReadKeeps ==
  ASSUME IInv, NEW p \in Procs, CountRead(p)
  PROVE  IInv' /\ Chain' = Chain /\ p # Rmmod
<1>1. ~Idle(p) /\ pc[p] = "count" /\ phase' = phase /\ UNCHANGED <<memory, call, entry, number, answer>>
  BY DEF CountRead, Idle
<1>2. MemType /\ ProcType /\ Linked(Chain) /\ Doing(p, Chain) /\ p # Rmmod
  BY <1>1, InCall
<1>3. PICK c : c = Chain
  OBVIOUS
<1>4. MemType' /\ Linked(c) /\ Linked(c)'
  BY <1>1, <1>2, <1>3, SameList DEF MemType, memory
<1>5. other' \in [Procs -> Int] /\ other'[p] = size
  BY <1>2 DEF ProcType, MemType, CountRead
<1>6. ProcType' /\ pc'[p] = "count2" /\ \A q \in Procs \ {p} : pc'[q] = pc[q] /\ call'[q] = call[q]
  <2>1. "count2" \in Places /\ entry' \in [Procs -> Nodes] /\ number' \in [Procs -> Values \cup {0}]
    BY <1>1, <1>2 DEF ProcType, Places
  <2> QED BY <1>1, <1>2, <1>5, <2>1, WentOn DEF CountRead
<1>7. Doing(p, c)'
  BY <1>1, <1>2, <1>3, <1>5, <1>6 DEF Doing, Loose, Idle, Starts, memory
<1>8. IInv' /\ Chain' = c
  BY <1>1, <1>2, <1>3, <1>4, <1>6, <1>7, StepKeeps
<1> QED BY <1>2, <1>3, <1>8

\* They write it back, and stack_pop frees the entry.
LEMMA CountWriteKeeps ==
  ASSUME IInv, NEW p \in Procs, CountWrite(p)
  PROVE  IInv' /\ Chain' = Chain /\ p # Rmmod
<1>1. ~Idle(p) /\ pc[p] = "count2" /\ phase' = phase /\ UNCHANGED <<next, prev, data>>
  BY DEF CountWrite, Idle
<1>2. MemType /\ ProcType /\ Linked(Chain) /\ Doing(p, Chain) /\ p # Rmmod
  BY <1>1, InCall
<1>3. PICK c : c = Chain
  OBVIOUS
<1>4. Linked(c) /\ Linked(c)' /\ other[p] = size
  BY <1>1, <1>2, <1>3, SameList DEF Doing
<1>5. Len(c) \in Nat /\ Cardinality(Entries) \in Nat /\ Len(c) <= Cardinality(Entries) /\ size \in Nat
  BY <1>2, <1>4, ShortList DEF Linked, MemType
<1>6. CASE /\ call[p].op = "push" /\ size' = other[p] + 1 /\ Return(p, <<"ok">>)
           /\ UNCHANGED allocated
  <2>1. allocated = Elements(c) /\ size + 1 = Len(c)
    BY <1>1, <1>2, <1>3, <1>6 DEF Doing
  <2>2. Normal(c)' /\ MemType'
    BY <1>1, <1>2, <1>4, <1>5, <1>6, <2>1 DEF Normal, MemType
  <2> QED BY <1>1, <1>2, <1>3, <1>4, <1>6, <2>2, ReturnKeeps
<1>7. CASE /\ call[p].op = "pop" /\ size' = other[p] - 1
           /\ allocated' = allocated \ {entry[p]}
           /\ Return(p, <<"value", number[p]>>)
  <2>1. Loose(c, entry[p]) /\ size = Len(c) + 1
    BY <1>1, <1>2, <1>3, <1>7 DEF Doing
  <2>2. Normal(c)'
    BY <1>4, <1>5, <1>7, <2>1 DEF Normal, Loose
  <2>3. MemType'
    BY <1>1, <1>2, <1>4, <1>5, <1>7, <2>1 DEF MemType
  <2> QED BY <1>1, <1>2, <1>3, <1>4, <1>7, <2>2, <2>3, ReturnKeeps
<1> QED BY <1>6, <1>7 DEF CountWrite

\* stack_size and stack_is_empty.
LEMMA QueryKeeps ==
  ASSUME IInv, NEW p \in Procs, Query(p)
  PROVE  IInv' /\ Chain' = Chain /\ p # Rmmod /\ size = Len(Chain) /\ (list_empty <=> Chain = <<>>)
         /\ call[p].op = pc[p]
<1>1. ~Idle(p) /\ pc[p] \in {"size", "is_empty"} /\ phase' = phase /\ UNCHANGED memory
  BY DEF Query, Idle
<1>2. MemType /\ ProcType /\ Linked(Chain) /\ Doing(p, Chain) /\ p # Rmmod
  BY <1>1, InCall
<1>3. PICK c : c = Chain
  OBVIOUS
<1>4. /\ MemType' /\ Linked(c) /\ Linked(c)' /\ (list_empty <=> c = <<>>)
      /\ Normal(c) /\ Normal(c)' /\ call[p].op = pc[p]
  BY <1>1, <1>2, <1>3, SameList, ListEmpty DEF MemType, memory, Normal, Doing, Starts
<1>5. PICK a : Return(p, a)
  BY DEF Query
<1>6. IInv' /\ Chain' = c
  BY <1>1, <1>2, <1>4, <1>5, ReturnKeeps
<1> QED BY <1>2, <1>3, <1>4, <1>6 DEF Normal

\* stack_clear reads the first entry and the one after it.
LEMMA ClearFirstKeeps ==
  ASSUME IInv, NEW p \in Procs, ClearFirst(p)
  PROVE  IInv' /\ Chain' = Chain
<1>1. ~Idle(p) /\ pc[p] = "clear" /\ phase' = phase /\ UNCHANGED <<memory, call, number, answer>>
  BY DEF ClearFirst, Idle
<1>2. MemType /\ ProcType /\ Linked(Chain) /\ Doing(p, Chain)
  BY <1>1, InCall
<1>3. PICK c : c = Chain
  OBVIOUS
<1>4. MemType' /\ Linked(c) /\ Linked(c)' /\ Normal(c) /\ call[p].op = "clear"
  BY <1>1, <1>2, <1>3, SameList DEF MemType, memory, Doing, Starts
<1>5. next[Head0] \in Nodes /\ next[next[Head0]] \in Nodes /\ Nodes \subseteq Int
  BY <1>2, NodesInt DEF MemType
<1>6. /\ entry' \in [Procs -> Nodes] /\ entry'[p] = next[Head0]
      /\ other' \in [Procs -> Int] /\ other'[p] = next[next[Head0]]
  BY <1>2, <1>5 DEF ProcType, ClearFirst
<1>7. ProcType' /\ pc'[p] = "each" /\ \A q \in Procs \ {p} : pc'[q] = pc[q] /\ call'[q] = call[q]
  <2>1. "each" \in Places /\ number' \in [Procs -> Values \cup {0}]
    BY <1>1, <1>2 DEF ProcType, Places
  <2> QED BY <1>1, <1>2, <1>6, <2>1, WentOn DEF ClearFirst
<1>8. Doing(p, c)'
  BY <1>1, <1>4, <1>6, <1>7 DEF Doing, Normal, Idle, Starts, memory
<1>9. IInv' /\ Chain' = c
  BY <1>1, <1>2, <1>4, <1>7, <1>8, StepKeeps
<1> QED BY <1>3, <1>9

\* It unlinks and frees the first entry and goes on with the saved one.
LEMMA ClearEachKeeps ==
  ASSUME IInv, NEW p \in Procs, ClearEach(p)
  PROVE  IInv' /\ Chain # <<>> /\ Chain' = Tail(Chain) /\ call[p].op = "clear"
<1>1. ~Idle(p) /\ pc[p] = "each" /\ phase' = phase /\ UNCHANGED <<data, size, pc, call, number, answer>>
      /\ entry[p] # Head0
  BY DEF ClearEach, Idle
<1>2. MemType /\ ProcType /\ Linked(Chain) /\ Doing(p, Chain)
  BY <1>1, InCall
<1>3. PICK c : c = Chain
  OBVIOUS
<1>4. /\ Linked(c) /\ allocated = Elements(c) /\ call[p].op = "clear"
      /\ entry[p] = next[Head0] /\ other[p] = next[entry[p]]
  BY <1>1, <1>2, <1>3 DEF Doing
<1>5. c # <<>> /\ entry[p] = c[1]
  BY <1>1, <1>4, ListEmpty DEF list_empty
<1>6. list_del(c[1]) /\ allocated' = allocated \ {c[1]}
  BY <1>5 DEF ClearEach
<1> DEFINE d == Tail(c)
<1>7. /\ Linked(d)' /\ Elements(d) = Elements(c) \ {c[1]} /\ c[1] \in Entries
      /\ next'[Head0] = next[c[1]]
  BY <1>2, <1>4, <1>5, <1>6, DelLinked DEF MemType
<1> HIDE DEF d
<1>8. MemType'
  <2>1. c[1] \in Nodes /\ Poison \in Nodes
    BY <1>7 DEF Nodes
  <2>2. next' \in [Nodes -> Nodes] /\ prev' \in [Nodes -> Nodes]
    BY <1>2, <1>6, <2>1 DEF MemType, list_del
  <2> QED BY <1>1, <1>2, <1>6, <2>2 DEF MemType
<1>9. other[p] \in Nodes /\ next'[other[p]] \in Nodes /\ Nodes \subseteq Int
  <2>1. entry[p] \in Nodes /\ Nodes \subseteq Int
    BY <1>2, NodesInt DEF ProcType
  <2> QED BY <1>2, <1>4, <1>8, <2>1 DEF MemType
<1>10. /\ entry' \in [Procs -> Nodes] /\ entry'[p] = other[p]
       /\ other' \in [Procs -> Int] /\ other'[p] = next'[other[p]]
  BY <1>2, <1>9 DEF ProcType, ClearEach
<1>11. ProcType' /\ pc'[p] = "each" /\ \A q \in Procs \ {p} : pc'[q] = pc[q] /\ call'[q] = call[q]
  BY <1>1, <1>2, <1>10 DEF ProcType
<1>12. Doing(p, d)'
  BY <1>1, <1>4, <1>5, <1>6, <1>7, <1>10, <1>11 DEF Doing, Idle, Starts
<1>13. IInv' /\ Chain' = d
  BY <1>1, <1>2, <1>7, <1>8, <1>11, <1>12, StepKeeps
<1> QED BY <1>3, <1>4, <1>5, <1>13 DEF d

\* It ends with the empty list and sets the size.
LEMMA ClearDoneKeeps ==
  ASSUME IInv, NEW p \in Procs, ClearDone(p)
  PROVE  IInv' /\ Chain' = Chain /\ Chain = <<>> /\ call[p].op = "clear"
<1>1. ~Idle(p) /\ pc[p] = "each" /\ phase' = phase /\ UNCHANGED <<next, prev, data, allocated>>
      /\ entry[p] = Head0 /\ size' = 0 /\ Return(p, <<"ok">>)
  BY DEF ClearDone, Idle
<1>2. MemType /\ ProcType /\ Linked(Chain) /\ Doing(p, Chain)
  BY <1>1, InCall
<1>3. PICK c : c = Chain
  OBVIOUS
<1>4. /\ Linked(c) /\ Linked(c)' /\ allocated = Elements(c) /\ call[p].op = "clear"
      /\ entry[p] = next[Head0]
  BY <1>1, <1>2, <1>3, SameList DEF Doing
<1>5. c = <<>> /\ Len(c) = 0
  BY <1>1, <1>4, ListEmpty, EmptySeq DEF list_empty
<1>6. MemType' /\ Normal(c)'
  <2>1. Cardinality(Entries) \in Nat
    BY <1>4, ShortList DEF Linked
  <2> QED BY <1>1, <1>2, <1>4, <1>5, <2>1 DEF MemType, Normal
<1>7. IInv' /\ Chain' = c
  BY <1>1, <1>2, <1>4, <1>5, <1>6, ReturnKeeps
<1> QED BY <1>3, <1>4, <1>5, <1>7

-----------------------------------------------------------------------------
(* Steps between the calls *)

\* Every process at rest.
LEMMA AtRest ==
  ASSUME IInv, Quiet
  PROVE  /\ MemType /\ ProcType /\ SerialInv /\ Linked(Chain) /\ Normal(Chain)
         /\ phase # "live" => Chain = <<>>
         /\ \A p \in Procs : pc[p] = "idle" /\ call[p] = NoCall
BY DEF IInv, ListInv, Quiet, Doing, Idle

\* A step that starts or changes no call, or starts the only one, with the list as it is.
LEMMA RestKeeps ==
  ASSUME IInv, Quiet, MemType', ProcType', SerialInv', UNCHANGED <<allocated, size>>,
         Quiet' => phase' = "live" \/ Chain = <<>>,
         NEW p \in Procs, \A q \in Procs \ {p} : pc'[q] = pc[q] /\ call'[q] = call[q],
         \/ pc'[p] = "idle" /\ call'[p] = NoCall
         \/ pc'[p] \in Starts /\ call'[p].op = pc'[p],
         NEW c, c = Chain, Linked(c)'
  PROVE  IInv' /\ Chain' = Chain
<1>1. Normal(c) /\ \A q \in Procs : pc[q] = "idle" /\ call[q] = NoCall
  BY AtRest
<1>2. Normal(c)'
  BY <1>1 DEF Normal
<1>3. \A q \in Procs \ {p} : pc'[q] = "idle" /\ call'[q] = NoCall
  BY <1>1
<1>4. \A q \in Procs : Doing(q, c)'
  <2>1. ASSUME NEW q \in Procs, pc'[q] = "idle", call'[q] = NoCall PROVE Doing(q, c)'
    BY <2>1 DEF Doing, Idle, Starts
  <2>2. ASSUME pc'[p] \in Starts, call'[p].op = pc'[p] PROVE Doing(p, c)'
    BY <1>2, <2>2 DEF Doing, Idle, Starts
  <2> QED BY <1>3, <2>1, <2>2
<1>5. ListInv(c)'
  BY <1>2, <1>4 DEF ListInv
<1>6. Chain' = c
  BY ChainThere DEF ChainAll
<1>7. ListInv(Chain)'
  BY <1>5, <1>6 DEF ListInv
<1> QED BY <1>6, <1>7 DEF IInv

\* Nobody is in a call unless the module is live or going.
LEMMA LoaderRests ==
  ASSUME IInv, phase \in {"absent", "files"} \/ (phase = "live" /\ \A u \in Users : Idle(u))
               \/ (phase = "going" /\ Idle(Rmmod))
  PROVE  Quiet
BY DEF IInv, SerialInv, Quiet, Procs

\* stack_init empties a list that is empty.
LEMMA InitStackKeeps ==
  ASSUME IInv, InitStack
  PROVE  IInv' /\ Chain' = Chain
<1>1. Quiet
  BY LoaderRests DEF InitStack
<1>2. /\ MemType /\ ProcType /\ SerialInv /\ Linked(Chain) /\ Normal(Chain) /\ Chain = <<>>
      /\ \A p \in Procs : pc[p] = "idle" /\ call[p] = NoCall
  BY <1>1, AtRest DEF InitStack
<1>3. Head0 \in Nodes /\ Rmmod \in Procs /\ Cardinality(Entries) \in Nat
  BY NodesInt, StackAssumption, FS_CardinalityType DEF Procs
<1>4. next' \in [Nodes -> Nodes] /\ prev' \in [Nodes -> Nodes] /\ next'[Head0] = Head0 /\ prev'[Head0] = Head0
  BY <1>2, <1>3 DEF InitStack, MemType
<1>5. size = 0 /\ size' = 0
  BY <1>2, EmptySeq DEF Normal, InitStack
<1>6. MemType' /\ ProcType' /\ SerialInv'
  BY <1>2, <1>3, <1>4, <1>5 DEF InitStack, MemType, ProcType, SerialInv, Idle, locals
<1>7. PICK c : c = Chain
  OBVIOUS
<1>8. Linked(c)'
  <2>1. <<>> \in Seq(Entries) /\ Distinct(<<>>) /\ Len(<<>>) = 0
    BY EmptySeq DEF Distinct
  <2>2. At(<<>>, 0) = Head0 /\ At(<<>>, 1) = Head0
    BY <2>1 DEF At
  <2>3. ASSUME NEW k \in 0 .. 0 PROVE k = 0 /\ k + 1 = 1
    BY <2>3
  <2> QED BY <1>2, <1>4, <1>7, <2>1, <2>2, <2>3 DEF Linked
<1> QED BY <1>1, <1>2, <1>3, <1>5, <1>6, <1>7, <1>8, RestKeeps DEF InitStack

\* The files come and go; rmmod starts to clear.
LEMMA LoaderKeeps ==
  ASSUME IInv, InitGroup \/ ExitModule \/ ExitDone
  PROVE  IInv' /\ Chain' = Chain
<1>1. Quiet
  BY LoaderRests DEF InitGroup, ExitModule, ExitDone
<1>2. /\ MemType /\ ProcType /\ SerialInv /\ Linked(Chain) /\ Normal(Chain)
      /\ phase # "live" => Chain = <<>>
      /\ \A p \in Procs : pc[p] = "idle" /\ call[p] = NoCall
  BY <1>1, AtRest
<1>3. UNCHANGED memory /\ Rmmod \in Procs
  BY DEF InitGroup, ExitModule, ExitDone, Procs
<1>4. PICK c : c = Chain
  OBVIOUS
<1>5. MemType' /\ Linked(c)'
  BY <1>2, <1>3, <1>4, SameList DEF MemType, memory
<1>6. CASE InitGroup \/ ExitDone
  <2>1. UNCHANGED <<pc, call, locals, answer>> /\ phase' \in {"absent", "live"} /\ phase # "live"
    BY <1>6 DEF InitGroup, ExitDone
  <2>2. ProcType' /\ SerialInv'
    BY <1>2, <1>3, <2>1 DEF ProcType, SerialInv, Idle, locals, Procs
  <2> QED BY <1>1, <1>2, <1>3, <1>4, <1>5, <2>1, <2>2, RestKeeps DEF memory
<1>7. CASE ExitModule
  <2>1. /\ pc' = [pc EXCEPT ![Rmmod] = "clear"] /\ UNCHANGED <<locals, answer>> /\ phase' = "going"
        /\ call' = [call EXCEPT ![Rmmod] = [op |-> "clear", arg |-> 0]]
    BY <1>7 DEF ExitModule, Goto
  <2>2. /\ pc' \in [Procs -> Places] /\ pc'[Rmmod] = "clear" /\ call'[Rmmod].op = "clear"
        /\ call' \in [Procs -> [op : Starts \cup {"none"}, arg : Values \cup {0}]]
        /\ \A q \in Procs \ {Rmmod} : pc'[q] = pc[q] /\ call'[q] = call[q]
    BY <1>2, <1>3, <2>1 DEF ProcType, Places, Starts
  <2>3. ProcType'
    BY <1>2, <2>1, <2>2 DEF ProcType, locals
  <2>4. \A q \in Procs \ {Rmmod} : pc'[q] = "idle"
    BY <1>2, <2>2
  <2>5. SerialInv' /\ ~Quiet' /\ "clear" \in Starts
    <3>1. Users \subseteq Procs \ {Rmmod}
      BY StackAssumption DEF Procs
    <3> QED BY <1>3, <2>1, <2>2, <2>4, <3>1 DEF SerialInv, Idle, Quiet, Starts
  <2> QED BY <1>1, <1>2, <1>3, <1>4, <1>5, <2>2, <2>3, <2>5, RestKeeps DEF memory
<1> QED BY <1>6, <1>7

\* A user starts a call: taking turns, nobody is in one.
LEMMA BeginKeeps ==
  ASSUME IInv, TakingTurns', NEW u \in Users, NEW op \in Starts, NEW arg \in Values \cup {0},
         Begin(u, op, arg)
  PROVE  IInv' /\ Chain' = Chain /\ Quiet /\ call[u] = NoCall
<1>1. phase = "live" /\ \A v \in Users : Idle(v)
  <2>1. /\ Users \subseteq Procs /\ ProcType /\ phase \in {"files", "live"} /\ phase' = phase
        /\ Idle(u) /\ pc' = [pc EXCEPT ![u] = op] /\ op # "idle"
    BY DEF Begin, Callable, Goto, Procs, IInv, Starts
  <2>2. ~Idle(u)' /\ \A v \in Users \ {u} : pc'[v] = pc[v]
    BY <2>1 DEF ProcType, Idle
  <2>3. phase # "files"
    BY <2>1, <2>2 DEF TakingTurns
  <2>4. ASSUME NEW v \in Users, ~Idle(v) PROVE FALSE
    <3>1. v # u /\ ~Idle(v)'
      BY <2>1, <2>2, <2>4 DEF Idle
    <3> QED BY <2>2, <3>1 DEF TakingTurns
  <2> QED BY <2>1, <2>3, <2>4
<1>2. Quiet
  BY <1>1, LoaderRests
<1>3. /\ MemType /\ ProcType /\ SerialInv /\ Linked(Chain) /\ Normal(Chain)
      /\ \A p \in Procs : pc[p] = "idle" /\ call[p] = NoCall
  BY <1>2, AtRest
<1>4. u \in Procs /\ u # Rmmod /\ Rmmod \in Procs /\ Users \subseteq Procs
  BY StackAssumption DEF Procs
<1>5. /\ pc' = [pc EXCEPT ![u] = op] /\ UNCHANGED <<phase, memory, locals, answer>>
      /\ call' = [call EXCEPT ![u] = [op |-> op, arg |-> arg]]
  BY DEF Begin, Goto
<1>6. /\ pc' \in [Procs -> Places] /\ pc'[u] = op /\ call'[u].op = op
      /\ call' \in [Procs -> [op : Starts \cup {"none"}, arg : Values \cup {0}]]
      /\ \A q \in Procs \ {u} : pc'[q] = pc[q] /\ call'[q] = call[q]
  BY <1>3, <1>4, <1>5 DEF ProcType, Places, Starts
<1>7. PICK c : c = Chain
  OBVIOUS
<1>8. MemType' /\ Linked(c)' /\ ProcType'
  BY <1>3, <1>5, <1>6, <1>7, SameList DEF MemType, memory, ProcType, locals
<1>9. SerialInv'
  <2>1. \A q \in Procs \ {u} : pc'[q] = "idle"
    BY <1>3, <1>6
  <2> QED BY <1>1, <1>4, <1>5, <2>1 DEF SerialInv, Idle
<1> QED BY <1>1, <1>2, <1>3, <1>4, <1>5, <1>6, <1>7, <1>8, <1>9, RestKeeps DEF memory

\* push_store refuses text that is no number, whoever else is in a call.
LEMMA PushTextKeeps ==
  ASSUME IInv, NEW u \in Users, PushText(u)
  PROVE  IInv' /\ Chain' = Chain /\ UNCHANGED <<pc, call>> /\ call[u] = NoCall
<1>1. Idle(u) /\ Return(u, <<"invalid">>) /\ UNCHANGED <<phase, memory>>
  BY DEF PushText, Callable
<1>2. PICK c : c = Chain
  OBVIOUS
<1>3. /\ MemType /\ ProcType /\ SerialInv /\ Linked(c)
      /\ (Quiet => Normal(c) /\ (phase # "live" => c = <<>>)) /\ \A p \in Procs : Doing(p, c)
  BY <1>2 DEF IInv, ListInv
<1>4. u \in Procs
  BY DEF Procs
<1>5. call[u] = NoCall
  BY <1>1, <1>3, <1>4 DEF Doing
<1>6. UNCHANGED <<pc, call>>
  BY <1>1, <1>3, <1>5 DEF Return, ProcType, Idle
<1>7. MemType' /\ ProcType' /\ SerialInv' /\ Linked(c)'
  <2>1. ProcType'
    BY <1>1, <1>3, <1>4, Returned
  <2>2. SerialInv'
    BY <1>1, <1>3, <1>6 DEF SerialInv, Idle
  <2> QED BY <1>1, <1>3, <2>1, <2>2, SameList DEF MemType, memory
<1>8. Quiet' => Normal(c)' /\ (phase' # "live" => c = <<>>)
  BY <1>1, <1>3, <1>6 DEF Quiet, Idle, Normal, memory
<1>9. ASSUME NEW p \in Procs PROVE Doing(p, c)'
  <2>1. CASE p = u
    BY <1>1, <1>5, <1>6, <2>1 DEF Doing, Idle, Starts
  <2>2. CASE p # u
    <3>1. entry'[p] = entry[p] /\ other'[p] = other[p] /\ number'[p] = number[p]
      BY <1>1, <1>3, <2>2 DEF Return, ProcType
    <3> QED BY <1>1, <1>3, <1>6, <3>1 DEF Doing, Idle, Normal, Loose, memory
  <2> QED BY <2>1, <2>2
<1>10. ListInv(c)'
  BY <1>7, <1>8, <1>9 DEF ListInv
<1>11. Chain' = Chain
  BY <1>1 DEF Chain, memory
<1>12. ListInv(Chain)'
  BY <1>2, <1>10, <1>11 DEF ListInv
<1> QED BY <1>5, <1>6, <1>7, <1>11, <1>12 DEF IInv

\* The module is not loaded, nothing is allocated.
LEMMA InitIInv == Init => IInv
<1> SUFFICES ASSUME Init PROVE IInv
  OBVIOUS
<1>1. Head0 \in Nodes /\ Rmmod \in Procs /\ Cardinality(Entries) \in Nat /\ Head0 \in Int
  BY NodesInt, StackAssumption, FS_CardinalityType DEF Procs
<1>2. MemType
  BY <1>1 DEF Init, MemType
<1>3. ProcType
  BY <1>1 DEF Init, ProcType, Places, NoCall
<1>4. SerialInv
  BY <1>1 DEF Init, SerialInv, Idle, Procs
<1>5. Linked(<<>>) /\ Elements(<<>>) = {} /\ Len(<<>>) = 0
  BY <1>1, EmptyLinked DEF Init
<1>6. Chain = <<>>
  BY <1>5, ChainIs
<1>7. ListInv(<<>>)
  <2>1. Normal(<<>>)
    BY <1>5 DEF Init, Normal
  <2>2. \A p \in Procs : pc[p] = "idle" /\ call[p] = NoCall
    BY DEF Init
  <2>3. \A p \in Procs : Doing(p, <<>>)
    BY <2>2 DEF Doing, Idle, Starts
  <2> QED BY <1>5, <2>1, <2>3 DEF ListInv
<1> QED BY <1>2, <1>3, <1>4, <1>6, <1>7 DEF IInv

\* A step that changes nothing.
LEMMA StutterKeeps ==
  ASSUME IInv, UNCHANGED vars
  PROVE  IInv' /\ Chain' = Chain
<1>1. Chain' = Chain
  BY DEF Chain, vars, memory
<1>2. MemType' /\ ProcType' /\ SerialInv'
  BY DEF IInv, MemType, ProcType, SerialInv, Idle, vars, memory, locals
<1>3. PICK c : c = Chain
  OBVIOUS
<1>4. ListInv(c)'
  <2>1. Linked(c) /\ (Quiet => Normal(c) /\ (phase # "live" => c = <<>>)) /\ \A p \in Procs : Doing(p, c)
    BY <1>3 DEF IInv, ListInv
  <2>2. Linked(c)'
    BY <2>1, SameList DEF vars, memory
  <2>3. Quiet' => Normal(c)' /\ (phase' # "live" => c = <<>>)
    BY <2>1 DEF Quiet, Idle, Normal, vars, memory
  <2>4. \A p \in Procs : Doing(p, c)'
    BY <2>1 DEF Doing, Idle, Normal, Loose, vars, memory, locals
  <2> QED BY <2>2, <2>3, <2>4 DEF ListInv
<1>5. ListInv(Chain)'
  BY <1>1, <1>3, <1>4 DEF ListInv
<1> QED BY <1>1, <1>2, <1>5 DEF IInv

\* Every step of a callback.
LEMMA StepIInv ==
  ASSUME IInv, NEW p \in Procs, Step(p)
  PROVE  IInv'
<1>1. CASE PushAlloc(p) \/ PushRead(p) \/ PushLink(p)
  BY <1>1, PushAllocKeeps, PushReadKeeps, PushLinkKeeps
<1>2. CASE Test(p) \/ First(p) \/ PopUnlink(p)
  BY <1>2, TestKeeps, FirstKeeps, PopUnlinkKeeps
<1>3. CASE CountRead(p) \/ CountWrite(p) \/ Query(p)
  BY <1>3, CountReadKeeps, CountWriteKeeps, QueryKeeps
<1>4. CASE ClearFirst(p) \/ ClearEach(p) \/ ClearDone(p)
  BY <1>4, ClearFirstKeeps, ClearEachKeeps, ClearDoneKeeps
<1> QED BY <1>1, <1>2, <1>3, <1>4 DEF Step

\* Every step of users that take turns.
LEMMA NextIInv ==
  ASSUME IInv, TakingTurns', [Next]_vars
  PROVE  IInv'
<1>1. CASE InitStack \/ InitGroup \/ ExitModule \/ ExitDone
  BY <1>1, InitStackKeeps, LoaderKeeps
<1>2. ASSUME NEW u \in Users, NEW v \in Values, Begin(u, "push", v) PROVE IInv'
  <2>1. "push" \in Starts /\ v \in Values \cup {0}
    BY DEF Starts
  <2> QED BY <1>2, <2>1, BeginKeeps
<1>3. ASSUME NEW u \in Users, NEW op \in {"pop", "peek", "size", "is_empty", "clear"}, Begin(u, op, 0)
      PROVE  IInv'
  <2>1. op \in Starts /\ 0 \in Values \cup {0}
    BY DEF Starts
  <2> QED BY <1>3, <2>1, BeginKeeps
<1>4. ASSUME NEW u \in Users, PushText(u) PROVE IInv'
  BY <1>4, PushTextKeeps
<1>5. ASSUME NEW p \in Procs, Step(p) PROVE IInv'
  BY <1>5, StepIInv
<1>6. CASE UNCHANGED vars
  BY <1>6, StutterKeeps
<1> QED BY <1>1, <1>2, <1>3, <1>4, <1>5, <1>6 DEF Next
-----------------------------------------------------------------------------
(* Theorems *)

\* While the users take turns, the inductive invariant holds in every state.
THEOREM StackInvariance ==
  Spec /\ []TakingTurns => []IInv
<1>1. IInv /\ TakingTurns' /\ [Next]_vars => IInv'
  BY NextIInv
<1> QED BY <1>1, InitIInv, PTL DEF Spec

\* While the users take turns, list, entries and the callers' locals keep their
\* types; in particular size stays in the range of the number of entries.
THEOREM StackTypeCorrect ==
  Spec /\ []TakingTurns => []TypeOK
<1>1. IInv => TypeOK
  BY DEF IInv, MemType, ProcType, SerialInv, TypeOK, Places
<1> QED BY <1>1, StackInvariance, PTL

\* Between the calls of users that take turns, list, memory and size agree, and
\* the two directions of the list do.
THEOREM ListAgrees ==
  Spec /\ []TakingTurns => []ListWhole
<1>1. IInv => ListWhole
  <2> SUFFICES ASSUME IInv, Quiet, phase = "live"
               PROVE  /\ size = Len(Chain)
                      /\ {Chain[k] : k \in 1 .. Len(Chain)} = allocated
                      /\ \A n \in allocated \cup {Head0} : prev[next[n]] = n
    BY DEF ListWhole, SizeExact
  <2>1. PICK c : c = Chain
    OBVIOUS
  <2>2. Linked(c) /\ Normal(c)
    BY <2>1, AtRest
  <2>3. size = Len(c) /\ {c[k] : k \in 1 .. Len(c)} = allocated
    BY <2>2 DEF Normal, Elements
  <2>4. ASSUME NEW n \in allocated \cup {Head0} PROVE prev[next[n]] = n
    <3>1. Len(c) \in Nat /\ At(c, 0) = Head0 /\ \A k \in 1 .. Len(c) : At(c, k) = c[k]
      BY <2>2, Circle DEF Linked
    <3>2. PICK k \in 0 .. Len(c) : n = At(c, k)
      <4>1. CASE n = Head0
        <5>1. 0 \in 0 .. Len(c)
          BY <3>1
        <5> QED BY <3>1, <4>1, <5>1
      <4>2. CASE n # Head0
        <5>1. PICK k \in 1 .. Len(c) : n = c[k]
          BY <2>3, <4>2
        <5>2. k \in 0 .. Len(c)
          BY <3>1
        <5> QED BY <3>1, <5>1, <5>2
      <4> QED BY <4>1, <4>2
    <3> QED BY <2>2, <3>2 DEF Linked
  <2> QED BY <2>1, <2>3, <2>4
<1> QED BY <1>1, StackInvariance, PTL

\* While the users take turns, no caller holds a freed entry, and none is left
\* when the module is out.
THEOREM NoUseAfterFree ==
  Spec /\ []TakingTurns => []EntriesAlive
<1>1. IInv => EntriesAlive
  <2> SUFFICES ASSUME IInv PROVE EntriesAlive
    OBVIOUS
  <2>1. ASSUME NEW p \in Procs, pc[p] \in {"link", "link2", "unlink", "each"}
        PROVE  entry[p] \in allocated \/ (pc[p] = "each" /\ entry[p] = Head0)
    <3>1. ~Idle(p)
      BY <2>1 DEF Idle
    <3>2. PICK c : c = Chain
      OBVIOUS
    <3>3. Linked(c) /\ Doing(p, c)
      BY <3>1, <3>2, InCall
    <3>4. list_empty <=> c = <<>>
      BY <3>3, ListEmpty
    <3>5. c # <<>> => next[Head0] = c[1] /\ c[1] \in Elements(c)
      BY <3>3, ListEmpty
    <3> QED BY <2>1, <3>3, <3>4, <3>5 DEF Doing, Loose, Normal, list_empty
  <2>2. ASSUME phase = "absent" PROVE allocated = {}
    <3>1. Quiet
      BY <2>2, LoaderRests
    <3>2. Normal(Chain) /\ Chain = <<>>
      BY <2>2, <3>1, AtRest
    <3>3. Elements(<<>>) = {}
      BY EmptySeq DEF Elements
    <3> QED BY <3>2, <3>3 DEF Normal
  <2> QED BY <2>1, <2>2 DEF EntriesAlive
<1> QED BY <1>1, StackInvariance, PTL

-----------------------------------------------------------------------------
(* The stack implements StackSpec *)

\* The values b of the entries of a list.
Image(c, b) == [k \in 1 .. Len(c) |-> b[c[k]]]

\* They are a sequence as long as the list.
LEMMA ImageSeq ==
  ASSUME NEW c \in Seq(Entries), NEW b, NEW S, \A e \in Entries : b[e] \in S
  PROVE  /\ Image(c, b) \in Seq(S) /\ Len(Image(c, b)) = Len(c) /\ Len(c) \in Nat
         /\ \A k \in 1 .. Len(c) : Image(c, b)[k] = b[c[k]]
         /\ Image(c, b) = <<>> <=> c = <<>>
         /\ c # <<>> => Head(Image(c, b)) = b[c[1]]
<1>1. Len(c) \in Nat /\ \A k \in 1 .. Len(c) : c[k] \in Entries
  BY LenProperties, ElementOfSeq
<1> DEFINE t == Image(c, b)
<1>2. t = [k \in 1 .. Len(c) |-> b[c[k]]]
  BY DEF Image
<1> HIDE DEF t
<1>3. t \in [1 .. Len(c) -> S] /\ \A k \in 1 .. Len(c) : t[k] = b[c[k]]
  BY <1>1, <1>2
<1>4. t \in Seq(S) /\ Len(t) = Len(c)
  BY <1>1, <1>3
<1>5. t = <<>> <=> c = <<>>
  BY <1>1, <1>4, EmptySeq
<1>6. ASSUME c # <<>> PROVE Head(t) = b[c[1]]
  <2>1. Len(c) # 0
    BY <1>1, <1>6, EmptySeq
  <2>2. 1 \in 1 .. Len(c) /\ t # <<>>
    BY <1>1, <1>5, <1>6, <2>1
  <2> QED BY <1>3, <1>4, <2>2, HeadTailProperties
<1> QED BY <1>1, <1>3, <1>4, <1>5, <1>6 DEF t

\* An entry put in front.
LEMMA ImagePush ==
  ASSUME NEW c \in Seq(Entries), NEW e \in Entries, NEW b, NEW S, \A x \in Entries : b[x] \in S
  PROVE  Image(<<e>> \o c, b) = <<b[e]>> \o Image(c, b)
<1> DEFINE d == <<e>> \o c
           t == Image(c, b)
           w == <<b[e]>> \o t
<1>1. Len(c) \in Nat /\ t \in Seq(S) /\ Len(t) = Len(c) /\ \A k \in 1 .. Len(c) : t[k] = b[c[k]]
  BY ImageSeq
<1>2. d \in Seq(Entries) /\ Len(d) = Len(c) + 1 /\ d[1] = e /\ \A k \in 1 .. Len(c) : d[k + 1] = c[k]
  BY InFront
<1> HIDE DEF t
<1>3. w \in Seq(S) /\ Len(w) = Len(t) + 1 /\ w[1] = b[e] /\ \A k \in 1 .. Len(t) : w[k + 1] = t[k]
  <2>1. b[e] \in S /\ t \in Seq(S)
    BY <1>1
  <2> QED BY <2>1, InFront
<1> HIDE DEF d, w
<1> DEFINE m == Image(d, b)
<1>4. m \in Seq(S) /\ Len(m) = Len(d) /\ \A k \in 1 .. Len(d) : m[k] = b[d[k]]
  <2>1. d \in Seq(Entries)
    BY <1>2
  <2> QED BY <2>1, ImageSeq, Zenon
<1> HIDE DEF m
<1>5. ASSUME NEW k \in 1 .. Len(m) PROVE m[k] = w[k]
  <2>1. CASE k = 1
    <3>1. m[k] = b[d[k]]
      BY <1>4
    <3> QED BY <1>2, <1>3, <2>1, <3>1
  <2>2. CASE k # 1
    <3> DEFINE j == k - 1
    <3>1. j \in 1 .. Len(c) /\ k = j + 1 /\ k \in 1 .. Len(d)
      BY <1>1, <1>2, <1>4, <2>2
    <3> HIDE DEF j
    <3>2. m[j + 1] = b[c[j]]
      BY <1>2, <1>4, <3>1
    <3>3. w[j + 1] = b[c[j]]
      BY <1>1, <1>3, <3>1
    <3> QED BY <3>1, <3>2, <3>3
  <2> QED BY <2>1, <2>2
<1>6. m = w
  <2>1. m \in Seq(S) /\ w \in Seq(S) /\ Len(m) = Len(w)
    BY <1>1, <1>2, <1>3, <1>4
  <2> QED BY <1>5, <2>1, SeqEqual
<1> QED BY <1>6 DEF m, w, d, t

\* The first entry taken away.
LEMMA ImageTail ==
  ASSUME NEW c \in Seq(Entries), c # <<>>, NEW b, NEW S, \A x \in Entries : b[x] \in S
  PROVE  Image(Tail(c), b) = Tail(Image(c, b))
<1> DEFINE d == Tail(c)
           t == Image(c, b)
<1>1. Len(c) \in Nat /\ t \in Seq(S) /\ Len(t) = Len(c) /\ t # <<>> /\ \A k \in 1 .. Len(c) : t[k] = b[c[k]]
  BY ImageSeq
<1>2. d \in Seq(Entries) /\ Len(d) = Len(c) - 1 /\ \A k \in 1 .. Len(d) : d[k] = c[k + 1]
  BY <1>1, HeadTailProperties
<1> HIDE DEF t
<1>3. Tail(t) \in Seq(S) /\ Len(Tail(t)) = Len(c) - 1 /\ \A k \in 1 .. Len(Tail(t)) : Tail(t)[k] = t[k + 1]
  BY <1>1, HeadTailProperties
<1> HIDE DEF d
<1>4. Image(d, b) \in Seq(S) /\ Len(Image(d, b)) = Len(d) /\ \A k \in 1 .. Len(d) : Image(d, b)[k] = b[d[k]]
  <2>1. d \in Seq(Entries)
    BY <1>2
  <2> HIDE <1>1, <1>3
  <2> QED BY <2>1, ImageSeq
<1>5. ASSUME NEW k \in 1 .. (Len(c) - 1) PROVE Image(d, b)[k] = Tail(t)[k]
  <2>1. k + 1 \in 1 .. Len(c)
    BY <1>1
  <2> QED BY <1>1, <1>2, <1>3, <1>4, <2>1
<1>6. Image(d, b) = Tail(t)
  BY <1>2, <1>3, <1>4, <1>5, SeqEqual
<1> QED BY <1>6 DEF d, t

\* The abstract stack of a state ...
LEMMA StackOf ==
  ASSUME MemType, Linked(Chain)
  PROVE  /\ AbsStack \in Seq(Values \cup {0}) /\ Len(AbsStack) = Len(Chain)
         /\ AbsStack = <<>> <=> Chain = <<>>
         /\ Chain # <<>> => Head(AbsStack) = data[Chain[1]]
<1>1. Chain \in Seq(Entries) /\ \A e \in Entries : data[e] \in Values \cup {0}
  BY DEF Linked, MemType, Nodes
<1>2. AbsStack = Image(Chain, data)
  BY DEF AbsStack, Image
<1> QED BY <1>1, <1>2, ImageSeq

\* ... stays when the list and its values do, ...
LEMMA StackSame ==
  ASSUME Chain' = Chain, \A e \in Elements(Chain) : data'[e] = data[e]
  PROVE  AbsStack' = AbsStack
<1>1. PICK c : c = Chain
  OBVIOUS
<1>2. \A k \in 1 .. Len(c) : data'[c[k]] = data[c[k]]
  BY <1>1 DEF Elements
<1>3. AbsStack = [k \in 1 .. Len(c) |-> data[c[k]]] /\ AbsStack' = [k \in 1 .. Len(c) |-> data'[c[k]]]
  BY <1>1 DEF AbsStack
<1> QED BY <1>2, <1>3

\* ... grows by the entry linked in front and loses the entry that is unlinked.
LEMMA StackMoves ==
  ASSUME MemType, Linked(Chain), data' = data
  PROVE  /\ \A e \in Entries : Chain' = <<e>> \o Chain => AbsStack' = <<data[e]>> \o AbsStack
         /\ Chain # <<>> /\ Chain' = Tail(Chain) => AbsStack' = Tail(AbsStack)
<1>1. Chain \in Seq(Entries) /\ \A e \in Entries : data[e] \in Values \cup {0}
  BY DEF Linked, MemType, Nodes
<1>2. AbsStack = Image(Chain, data) /\ AbsStack' = Image(Chain', data)
  BY DEF AbsStack, Image
<1>3. ASSUME NEW e \in Entries, Chain' = <<e>> \o Chain PROVE AbsStack' = <<data[e]>> \o AbsStack
  BY <1>1, <1>2, <1>3, ImagePush
<1>4. ASSUME Chain # <<>>, Chain' = Tail(Chain) PROVE AbsStack' = Tail(AbsStack)
  BY <1>1, <1>2, <1>4, ImageTail
<1> QED BY <1>3, <1>4

\* The result that a call still has to report.
LEMMA Outcomes ==
  ASSUME NEW p
  PROVE  /\ pc[p] \notin {"count", "count2"} => AbsOutcome(p) = <<"none">>
         /\ pc[p] \in {"count", "count2"} /\ call[p].op = "push" => AbsOutcome(p) = <<"ok">>
         /\ pc[p] \in {"count", "count2"} /\ call[p].op = "pop" => AbsOutcome(p) = <<"value", number[p]>>
BY DEF AbsOutcome

OutcomesAll ==
  \A u \in Users :
    /\ pc[u] \notin {"count", "count2"} => AbsOutcome(u) = <<"none">>
    /\ pc[u] \in {"count", "count2"} /\ call[u].op = "push" => AbsOutcome(u) = <<"ok">>
    /\ pc[u] \in {"count", "count2"} /\ call[u].op = "pop" => AbsOutcome(u) = <<"value", number[u]>>

\* The same for all users.
LEMMA OutcomesHere == OutcomesAll
BY Outcomes DEF OutcomesAll

\* The same in the next state.
LEMMA OutcomesThere == OutcomesAll'
BY OutcomesHere, PTL

\* What users see when the one in a call moves on: their calls and answers stay,
\* and only its own result can change.
LEMMA SeenGoing ==
  ASSUME IInv, NEW p \in Procs, ~Idle(p), UNCHANGED <<call, answer>>,
         \A q \in Procs \ {p} : pc'[q] = pc[q]
  PROVE  /\ UNCHANGED <<AbsCall, AbsAnswer>>
         /\ \A u \in Users : AbsCall[u] = call[u] /\ AbsResult[u] = AbsOutcome(u)
         /\ p \in Users => AbsResult' = [AbsResult EXCEPT ![p] = AbsOutcome(p)']
         /\ AbsOutcome(p)' = AbsOutcome(p) \/ p = Rmmod => AbsResult' = AbsResult
<1>1. \A q \in Procs \ {p} : pc[q] = "idle" /\ pc'[q] = "idle"
  BY InCall DEF Idle
<1>2. Users \subseteq Procs /\ Rmmod \notin Users
  BY StackAssumption DEF Procs
<1>3. \A u \in Users \ {p} : AbsOutcome(u) = <<"none">> /\ AbsOutcome(u)' = <<"none">>
  <2> TAKE u \in Users \ {p}
  <2>1. pc[u] = "idle" /\ pc'[u] = "idle"
    BY <1>1, <1>2
  <2>2. AbsOutcome(u) = <<"none">>
    BY <2>1, OutcomesHere DEF OutcomesAll
  <2>3. AbsOutcome(u)' = <<"none">>
    BY <2>1, OutcomesThere DEF OutcomesAll
  <2> QED BY <2>2, <2>3
<1>4. UNCHANGED <<AbsCall, AbsAnswer>>
  BY DEF AbsCall, AbsAnswer
<1>5. \A u \in Users : AbsCall[u] = call[u] /\ AbsResult[u] = AbsOutcome(u)
  BY DEF AbsCall, AbsResult
<1>6. AbsResult = [u \in Users |-> AbsOutcome(u)] /\ AbsResult' = [u \in Users |-> AbsOutcome(u)']
  BY DEF AbsResult
<1>7. p \in Users => AbsResult' = [AbsResult EXCEPT ![p] = AbsOutcome(p)']
  BY <1>3, <1>6
<1>8. AbsOutcome(p)' = AbsOutcome(p) \/ p = Rmmod => AbsResult' = AbsResult
  BY <1>2, <1>3, <1>6
<1> QED BY <1>4, <1>5, <1>7, <1>8

\* What users see when a call returns.
LEMMA SeenReturn ==
  ASSUME IInv, NEW p \in Procs, ~Idle(p), NEW a, Return(p, a)
  PROVE  /\ p \in Users => /\ AbsCall' = [AbsCall EXCEPT ![p] = NoCall]
                           /\ AbsAnswer' = [AbsAnswer EXCEPT ![p] = a]
                           /\ AbsResult' = [AbsResult EXCEPT ![p] = <<"none">>]
                           /\ AbsCall[p] = call[p] /\ AbsResult[p] = AbsOutcome(p)
                           /\ AbsOutcome(p) = <<"none">> => AbsResult' = AbsResult
         /\ p = Rmmod => UNCHANGED <<AbsCall, AbsAnswer, AbsResult>>
<1>1. \A q \in Procs \ {p} : pc[q] = "idle" /\ pc'[q] = "idle"
  BY InCall, Returned DEF Idle
<1>2. Users \subseteq Procs /\ Rmmod \notin Users /\ ProcType
  BY StackAssumption DEF Procs, IInv
<1>3. pc'[p] = "idle"
  BY <1>2, Returned
<1>4. \A u \in Users : AbsOutcome(u)' = <<"none">> /\ (u # p => AbsOutcome(u) = <<"none">>)
  <2> TAKE u \in Users
  <2>1. pc'[u] = "idle"
    BY <1>1, <1>2, <1>3
  <2>2. AbsOutcome(u)' = <<"none">>
    BY <2>1, OutcomesThere DEF OutcomesAll
  <2>3. ASSUME u # p PROVE AbsOutcome(u) = <<"none">>
    <3>1. pc[u] = "idle"
      BY <1>1, <1>2, <2>3
    <3> QED BY <3>1, OutcomesHere DEF OutcomesAll
  <2> QED BY <2>2, <2>3
<1>5. AbsResult = [u \in Users |-> AbsOutcome(u)] /\ AbsResult' = [u \in Users |-> AbsOutcome(u)']
  BY DEF AbsResult
<1>6. /\ call' = [call EXCEPT ![p] = NoCall] /\ answer' = [answer EXCEPT ![p] = a]
      /\ \A u \in Users : u \in DOMAIN call /\ u \in DOMAIN answer
  <2>1. DOMAIN call = Procs /\ DOMAIN answer = Procs
    BY <1>2 DEF ProcType
  <2> QED BY <1>2, <2>1 DEF Return
<1>7. AbsCall = [u \in Users |-> call[u]] /\ AbsCall' = [u \in Users |-> call'[u]]
      /\ AbsAnswer = [u \in Users |-> answer[u]] /\ AbsAnswer' = [u \in Users |-> answer'[u]]
  BY DEF AbsCall, AbsAnswer
<1>8. ASSUME p \in Users
      PROVE  /\ AbsCall' = [AbsCall EXCEPT ![p] = NoCall]
             /\ AbsAnswer' = [AbsAnswer EXCEPT ![p] = a]
             /\ AbsResult' = [AbsResult EXCEPT ![p] = <<"none">>]
             /\ AbsCall[p] = call[p] /\ AbsResult[p] = AbsOutcome(p)
             /\ AbsOutcome(p) = <<"none">> => AbsResult' = AbsResult
  <2>1. AbsCall' = [AbsCall EXCEPT ![p] = NoCall] /\ AbsAnswer' = [AbsAnswer EXCEPT ![p] = a]
    BY <1>6, <1>7, <1>8
  <2>2. AbsResult' = [AbsResult EXCEPT ![p] = <<"none">>]
        /\ (AbsOutcome(p) = <<"none">> => AbsResult' = AbsResult)
    BY <1>4, <1>5, <1>8
  <2> QED BY <1>5, <1>7, <1>8, <2>1, <2>2
<1>9. ASSUME p = Rmmod PROVE UNCHANGED <<AbsCall, AbsAnswer, AbsResult>>
  BY <1>2, <1>4, <1>5, <1>6, <1>7, <1>9
<1> QED BY <1>8, <1>9

\* A call that takes effect and returns in one step.
LEMMA FinishAbs ==
  ASSUME IInv, NEW u \in Users, ~Idle(u), pc[u] \notin {"count", "count2"}, NEW a, Return(u, a)
  PROVE  Abstract!Finish(u, a) /\ AbsCall[u] = call[u]
<1>1. u \in Procs
  BY DEF Procs
<1>2. AbsOutcome(u) = <<"none">>
  BY OutcomesHere DEF OutcomesAll
<1>3. /\ AbsCall' = [AbsCall EXCEPT ![u] = NoCall] /\ AbsAnswer' = [AbsAnswer EXCEPT ![u] = a]
      /\ AbsResult' = AbsResult /\ AbsResult[u] = <<"none">> /\ AbsCall[u] = call[u]
  BY <1>1, <1>2, SeenReturn
<1> QED BY <1>3 DEF Abstract!Finish, Abstract!NoCall, NoCall

\* A callback goes on and nobody can tell.
LEMMA HiddenStep ==
  ASSUME IInv, NEW p \in Procs, ~Idle(p), UNCHANGED <<call, answer>>, pc'[p] \notin {"count", "count2"},
         pc[p] \notin {"count", "count2"}, \A q \in Procs \ {p} : pc'[q] = pc[q],
         AbsStack' = AbsStack
  PROVE  UNCHANGED Abstract!svars
<1>1. p \in Users \/ p = Rmmod
  BY DEF Procs
<1>2. p \in Users => AbsOutcome(p)' = <<"none">> /\ AbsOutcome(p) = <<"none">>
  BY OutcomesHere, OutcomesThere DEF OutcomesAll
<1>3. UNCHANGED <<AbsCall, AbsAnswer, AbsResult>>
  BY <1>1, <1>2, SeenGoing
<1> QED BY <1>3 DEF Abstract!svars

\* The place of a process after Goto.
LEMMA GoneTo ==
  ASSUME ProcType, NEW p \in Procs, NEW w, Goto(p, w)
  PROVE  pc'[p] = w /\ \A q \in Procs \ {p} : pc'[q] = pc[q]
BY DEF ProcType, Goto

\* A push takes effect when its entry is linked.
LEMMA PushRefines ==
  ASSUME IInv, NEW p \in Procs, PushAlloc(p) \/ PushRead(p) \/ PushLink(p)
  PROVE  (p \in Users /\ Abstract!Push(p)) \/ UNCHANGED Abstract!svars
<1>1. ~Idle(p) /\ pc[p] \in {"push", "link", "link2"}
  BY DEF PushAlloc, PushRead, PushLink, Idle
<1>2. MemType /\ ProcType /\ Linked(Chain) /\ Doing(p, Chain) /\ p # Rmmod
  BY <1>1, InCall
<1>3. p \in Users /\ call[p].op = "push" /\ AbsCall[p] = call[p]
  BY <1>1, <1>2 DEF Doing, Starts, Procs, AbsCall
<1>4. CASE PushAlloc(p) /\ Return(p, <<"nomem">>) /\ UNCHANGED memory
  <2>1. AbsStack' = AbsStack
    BY <1>4, PushAllocKeeps, StackSame DEF memory
  <2>2. Abstract!Finish(p, <<"nomem">>)
    BY <1>1, <1>3, <1>4, FinishAbs
  <2> QED BY <1>3, <2>1, <2>2 DEF Abstract!Push
<1>5. CASE /\ PushAlloc(p) /\ Goto(p, "link") /\ UNCHANGED <<call, answer>>
           /\ \E e \in Entries \ allocated : data' = [data EXCEPT ![e] = call[p].arg]
  <2>1. Elements(Chain) = allocated
    BY <1>2, <1>5 DEF PushAlloc, Doing, Starts, Normal
  <2>2. \A e \in Elements(Chain) : data'[e] = data[e]
    BY <1>2, <1>5, <2>1 DEF MemType, Nodes
  <2>3. AbsStack' = AbsStack
    BY <1>5, <2>2, PushAllocKeeps, StackSame
  <2>4. pc'[p] = "link" /\ \A q \in Procs \ {p} : pc'[q] = pc[q]
    BY <1>2, <1>5, GoneTo
  <2> QED BY <1>1, <1>5, <2>3, <2>4, HiddenStep
<1>6. CASE PushRead(p)
  <2>1. AbsStack' = AbsStack
    BY <1>6, PushReadKeeps, StackSame DEF PushRead, memory
  <2>2. pc'[p] = "link2" /\ \A q \in Procs \ {p} : pc'[q] = pc[q]
    BY <1>2, <1>6, GoneTo DEF PushRead
  <2> QED BY <1>1, <1>6, <2>1, <2>2, HiddenStep DEF PushRead
<1>7. CASE PushLink(p)
  <2>1. /\ Chain' = <<entry[p]>> \o Chain /\ data[entry[p]] = call[p].arg
        /\ pc[p] = "link2" /\ pc'[p] = "count"
    BY <1>7, PushLinkKeeps
  <2>2. entry[p] \in Entries /\ UNCHANGED <<data, call, answer>>
    BY <1>2, <1>7, <2>1 DEF Doing, Loose, PushLink
  <2>3. AbsStack' = <<call[p].arg>> \o AbsStack
    BY <1>2, <2>1, <2>2, StackMoves
  <2>4. \A q \in Procs \ {p} : pc'[q] = pc[q]
    BY <1>2, <1>7, GoneTo DEF PushLink
  <2>5. AbsOutcome(p) = <<"none">> /\ AbsOutcome(p)' = <<"ok">>
    BY <1>3, <2>1, <2>2, OutcomesHere, OutcomesThere DEF OutcomesAll
  <2>6. /\ UNCHANGED <<AbsCall, AbsAnswer>> /\ AbsResult[p] = <<"none">>
        /\ AbsResult' = [AbsResult EXCEPT ![p] = <<"ok">>]
    BY <1>1, <1>3, <2>2, <2>4, <2>5, SeenGoing
  <2> QED BY <1>3, <2>3, <2>6 DEF Abstract!Push, Abstract!Yield
<1> QED BY <1>4, <1>5, <1>6, <1>7 DEF PushAlloc

\* A pop takes effect when its entry is unlinked; peek answers the first value.
LEMMA PopRefines ==
  ASSUME IInv, NEW p \in Procs, Test(p) \/ First(p) \/ PopUnlink(p)
  PROVE  (p \in Users /\ (Abstract!Pop(p) \/ Abstract!Look(p))) \/ UNCHANGED Abstract!svars
<1>1. ~Idle(p) /\ pc[p] \in {"pop", "peek", "first", "unlink"}
  BY DEF Test, First, PopUnlink, Idle
<1>2. MemType /\ ProcType /\ Linked(Chain) /\ Doing(p, Chain) /\ p # Rmmod
  BY <1>1, InCall
<1>3. p \in Users /\ AbsCall[p] = call[p]
  BY <1>2 DEF Procs, AbsCall
<1>4. (AbsStack = <<>> <=> Chain = <<>>) /\ (Chain # <<>> => Head(AbsStack) = data[Chain[1]])
  BY <1>2, StackOf
<1>5. CASE Test(p)
  <2>1. AbsStack' = AbsStack /\ (list_empty <=> Chain = <<>>) /\ call[p].op \in {"pop", "peek"}
    <3>1. UNCHANGED data /\ pc[p] \in {"pop", "peek"}
      BY <1>5 DEF Test, memory
    <3> QED BY <1>5, <3>1, TestKeeps, StackSame
  <2>2. CASE list_empty /\ Return(p, <<"empty">>)
    <3>1. Abstract!Finish(p, <<"empty">>)
      BY <1>1, <1>3, <2>2, FinishAbs
    <3> QED BY <1>3, <1>4, <2>1, <2>2, <3>1 DEF Abstract!Pop, Abstract!Look
  <2>3. CASE ~list_empty /\ Goto(p, "first") /\ UNCHANGED <<call, locals, answer>>
    <3>1. pc'[p] = "first" /\ \A q \in Procs \ {p} : pc'[q] = pc[q]
      BY <1>2, <2>3, GoneTo
    <3> QED BY <1>1, <2>1, <2>3, <3>1, HiddenStep
  <2> QED BY <1>5, <2>2, <2>3 DEF Test
<1>6. CASE First(p)
  <2>1. AbsStack' = AbsStack /\ Chain # <<>> /\ next[Head0] = Chain[1]
    <3>1. UNCHANGED data
      BY <1>6 DEF First, memory
    <3> QED BY <1>6, <3>1, FirstKeeps, StackSame
  <2>2. CASE call[p].op = "peek" /\ Return(p, <<"value", data[next[Head0]]>>)
    <3>1. Abstract!Finish(p, <<"value", Head(AbsStack)>>)
      BY <1>1, <1>3, <1>4, <2>1, <2>2, FinishAbs
    <3> QED BY <1>3, <1>4, <2>1, <2>2, <3>1 DEF Abstract!Look
  <2>3. CASE Goto(p, "unlink") /\ UNCHANGED <<call, other, answer>>
    <3>1. pc'[p] = "unlink" /\ \A q \in Procs \ {p} : pc'[q] = pc[q]
      BY <1>2, <2>3, GoneTo
    <3> QED BY <1>1, <2>1, <2>3, <3>1, HiddenStep
  <2> QED BY <1>6, <2>2, <2>3 DEF First
<1>7. CASE PopUnlink(p)
  <2>1. /\ Chain # <<>> /\ Chain' = Tail(Chain) /\ number[p] = data[Chain[1]]
        /\ call[p].op = "pop" /\ pc[p] = "unlink" /\ pc'[p] = "count"
    BY <1>7, PopUnlinkKeeps
  <2>2. UNCHANGED <<data, call, number, answer>>
    BY <1>7 DEF PopUnlink, locals
  <2>3. AbsStack' = Tail(AbsStack) /\ AbsStack # <<>> /\ Head(AbsStack) = number[p]
    BY <1>2, <1>4, <2>1, <2>2, StackMoves
  <2>4. \A q \in Procs \ {p} : pc'[q] = pc[q]
    BY <1>2, <1>7, GoneTo DEF PopUnlink
  <2>5. AbsOutcome(p) = <<"none">>
    BY <1>3, <2>1, OutcomesHere DEF OutcomesAll
  <2>6. AbsOutcome(p)' = <<"value", number[p]>>
    BY <1>3, <2>1, <2>2, OutcomesThere DEF OutcomesAll
  <2>7. /\ UNCHANGED <<AbsCall, AbsAnswer>> /\ AbsResult[p] = <<"none">>
        /\ AbsResult' = [AbsResult EXCEPT ![p] = <<"value", number[p]>>]
    BY <1>1, <1>3, <2>2, <2>4, <2>5, <2>6, SeenGoing
  <2> QED BY <1>3, <2>1, <2>3, <2>7 DEF Abstract!Pop, Abstract!Yield
<1> QED BY <1>5, <1>6, <1>7

\* The counter is written before the answer; size and is_empty answer what the stack holds.
LEMMA CountRefines ==
  ASSUME IInv, NEW p \in Procs, CountRead(p) \/ CountWrite(p) \/ Query(p)
  PROVE  (p \in Users /\ (Abstract!Reply(p) \/ Abstract!Look(p))) \/ UNCHANGED Abstract!svars
<1>1. ~Idle(p) /\ pc[p] \in {"count", "count2", "size", "is_empty"}
  BY DEF CountRead, CountWrite, Query, Idle
<1>2. MemType /\ ProcType /\ Linked(Chain) /\ Doing(p, Chain) /\ p # Rmmod
  BY <1>1, InCall
<1>3. p \in Users /\ AbsCall[p] = call[p]
  BY <1>2 DEF Procs, AbsCall
<1>4. CASE CountRead(p)
  <2>1. AbsStack' = AbsStack
    <3>1. UNCHANGED data
      BY <1>4 DEF CountRead, memory
    <3> QED BY <1>4, <3>1, CountReadKeeps, StackSame
  <2>2. pc[p] = "count" /\ pc'[p] = "count2" /\ \A q \in Procs \ {p} : pc'[q] = pc[q]
    BY <1>2, <1>4, GoneTo DEF CountRead
  <2>3. UNCHANGED <<call, number, answer>> /\ call[p].op \in {"push", "pop"}
    BY <1>2, <1>4, <2>2 DEF CountRead, Doing
  <2>4. AbsOutcome(p)' = AbsOutcome(p)
    <3>1. CASE call[p].op = "push"
      BY <1>3, <2>2, <2>3, <3>1, OutcomesHere, OutcomesThere DEF OutcomesAll
    <3>2. CASE call[p].op = "pop"
      BY <1>3, <2>2, <2>3, <3>2, OutcomesHere, OutcomesThere DEF OutcomesAll
    <3> QED BY <2>3, <3>1, <3>2
  <2>5. UNCHANGED <<AbsCall, AbsAnswer, AbsResult>>
    BY <1>1, <2>2, <2>3, <2>4, SeenGoing
  <2> QED BY <2>1, <2>5 DEF Abstract!svars
<1>5. CASE CountWrite(p)
  <2>1. AbsStack' = AbsStack
    <3>1. UNCHANGED data
      BY <1>5 DEF CountWrite
    <3> QED BY <1>5, <3>1, CountWriteKeeps, StackSame
  <2>2. PICK a : Return(p, a) /\ a = AbsOutcome(p) /\ a # <<"none">>
    <3>1. pc[p] = "count2"
      BY <1>5 DEF CountWrite
    <3>2. CASE call[p].op = "push" /\ Return(p, <<"ok">>)
      BY <1>3, <3>1, <3>2, OutcomesHere DEF OutcomesAll
    <3>3. CASE call[p].op = "pop" /\ Return(p, <<"value", number[p]>>)
      BY <1>3, <3>1, <3>3, OutcomesHere DEF OutcomesAll
    <3> QED BY <1>5, <3>2, <3>3 DEF CountWrite
  <2>3. /\ AbsCall' = [AbsCall EXCEPT ![p] = NoCall] /\ AbsAnswer' = [AbsAnswer EXCEPT ![p] = a]
        /\ AbsResult' = [AbsResult EXCEPT ![p] = <<"none">>] /\ AbsResult[p] = a
    BY <1>1, <1>3, <2>2, SeenReturn
  <2> QED BY <1>3, <2>1, <2>2, <2>3 DEF Abstract!Reply, Abstract!NoCall, NoCall
<1>6. CASE Query(p)
  <2>1. /\ AbsStack' = AbsStack /\ size = Len(Chain) /\ (list_empty <=> Chain = <<>>)
        /\ call[p].op = pc[p]
    <3>1. UNCHANGED data
      BY <1>6 DEF Query, memory
    <3> QED BY <1>6, <3>1, QueryKeeps, StackSame
  <2>2. size = Len(AbsStack) /\ (list_empty <=> AbsStack = <<>>)
    BY <1>2, <2>1, StackOf
  <2>3. CASE pc[p] = "size" /\ Return(p, <<"value", size>>)
    <3>1. Abstract!Finish(p, <<"value", Len(AbsStack)>>)
      BY <1>1, <1>3, <2>2, <2>3, FinishAbs
    <3> QED BY <1>3, <2>1, <2>3, <3>1 DEF Abstract!Look
  <2>4. CASE pc[p] = "is_empty" /\ Return(p, <<"value", IF list_empty THEN 1 ELSE 0>>)
    <3>1. Abstract!Finish(p, <<"value", IF AbsStack = <<>> THEN 1 ELSE 0>>)
      <4>1. (IF list_empty THEN 1 ELSE 0) = (IF AbsStack = <<>> THEN 1 ELSE 0)
        BY <2>2
      <4> QED BY <1>1, <1>3, <2>4, <4>1, FinishAbs
    <3> QED BY <1>3, <2>1, <2>4, <3>1 DEF Abstract!Look
  <2> QED BY <1>6, <2>3, <2>4 DEF Query
<1> QED BY <1>4, <1>5, <1>6

\* Clearing drops one value after the other, for a user or at the exit.
LEMMA ClearRefines ==
  ASSUME IInv, NEW p \in Procs, ClearFirst(p) \/ ClearEach(p) \/ ClearDone(p)
  PROVE  \/ p \in Users /\ (Abstract!Drop(p) \/ Abstract!Cleared(p))
         \/ Abstract!Unload
         \/ UNCHANGED Abstract!svars
<1>1. ~Idle(p) /\ pc[p] \in {"clear", "each"}
  BY DEF ClearFirst, ClearEach, ClearDone, Idle
<1>2. MemType /\ ProcType /\ Linked(Chain) /\ \A q \in Procs \ {p} : Idle(q) /\ call[q] = NoCall
  BY <1>1, InCall
<1>3. p \in Users \/ p = Rmmod
  BY DEF Procs
<1>4. AbsStack = <<>> <=> Chain = <<>>
  BY <1>2, StackOf
<1>5. \A u \in Users : AbsCall[u] = call[u]
  BY DEF AbsCall
<1>6. CASE ClearFirst(p)
  <2>1. AbsStack' = AbsStack
    <3>1. UNCHANGED data
      BY <1>6 DEF ClearFirst, memory
    <3> QED BY <1>6, <3>1, ClearFirstKeeps, StackSame
  <2>2. pc'[p] = "each" /\ \A q \in Procs \ {p} : pc'[q] = pc[q]
    BY <1>2, <1>6, GoneTo DEF ClearFirst
  <2> QED BY <1>1, <1>6, <2>1, <2>2, HiddenStep DEF ClearFirst
<1>7. CASE ClearEach(p)
  <2>1. Chain # <<>> /\ Chain' = Tail(Chain) /\ call[p].op = "clear"
    BY <1>7, ClearEachKeeps
  <2>2. UNCHANGED <<data, pc, call, answer, number>>
    BY <1>7 DEF ClearEach
  <2>3. AbsStack' = Tail(AbsStack) /\ AbsStack # <<>>
    BY <1>2, <1>4, <2>1, <2>2, StackMoves
  <2>4. UNCHANGED <<AbsCall, AbsAnswer, AbsResult>>
    BY <2>2 DEF AbsCall, AbsAnswer, AbsResult, AbsOutcome
  <2>5. CASE p \in Users
    BY <1>5, <2>1, <2>3, <2>4, <2>5 DEF Abstract!Drop
  <2>6. CASE p = Rmmod
    <3>1. \A u \in Users : call[u] = NoCall
      BY <1>2, <2>6, StackAssumption DEF Procs
    <3> QED BY <1>5, <2>3, <2>4, <3>1 DEF Abstract!Unload, Abstract!NoCall, NoCall
  <2> QED BY <1>3, <2>5, <2>6
<1>8. CASE ClearDone(p)
  <2>1. AbsStack' = AbsStack /\ Chain = <<>> /\ call[p].op = "clear"
    <3>1. UNCHANGED data
      BY <1>8 DEF ClearDone
    <3> QED BY <1>8, <3>1, ClearDoneKeeps, StackSame
  <2>2. CASE p \in Users
    <3>1. Abstract!Finish(p, <<"ok">>)
      BY <1>1, <1>8, <2>2, FinishAbs DEF ClearDone
    <3> QED BY <1>4, <1>5, <2>1, <2>2, <3>1 DEF Abstract!Cleared
  <2>3. CASE p = Rmmod
    BY <1>1, <1>8, <2>1, <2>3, SeenReturn DEF ClearDone, Abstract!svars
  <2> QED BY <1>3, <2>2, <2>3
<1> QED BY <1>6, <1>7, <1>8

\* Loading and unloading change no stack.
LEMMA LoaderRefines ==
  ASSUME IInv, InitStack \/ InitGroup \/ ExitModule \/ ExitDone
  PROVE  UNCHANGED Abstract!svars
<1>1. Chain' = Chain /\ UNCHANGED <<data, answer, number>>
  BY InitStackKeeps, LoaderKeeps DEF InitStack, InitGroup, ExitModule, ExitDone, memory, locals
<1>2. \A u \in Users : pc'[u] = pc[u] /\ call'[u] = call[u]
  <2>1. CASE ExitModule
    <3>1. Users \subseteq Procs \ {Rmmod} /\ ProcType
      BY StackAssumption DEF Procs, IInv
    <3> QED BY <2>1, <3>1 DEF ExitModule, Goto, ProcType
  <2>2. CASE InitStack \/ InitGroup \/ ExitDone
    BY <2>2 DEF InitStack, InitGroup, ExitDone
  <2> QED BY <2>1, <2>2
<1>3. UNCHANGED <<AbsCall, AbsAnswer, AbsResult>>
  BY <1>1, <1>2 DEF AbsCall, AbsAnswer, AbsResult, AbsOutcome
<1>4. UNCHANGED AbsStack
  BY <1>1, StackSame
<1> QED BY <1>3, <1>4 DEF Abstract!svars

\* A call starts.
LEMMA BeginRefines ==
  ASSUME IInv, TakingTurns', NEW u \in Users,
         NEW r \in Abstract!Requests, Begin(u, r.op, r.arg)
  PROVE  Abstract!Start(u)
<1>1. r.op \in Starts /\ r.arg \in Values \cup {0} /\ r = [op |-> r.op, arg |-> r.arg]
  BY DEF Abstract!Requests, Starts
<1>2. Chain' = Chain /\ Quiet /\ call[u] = NoCall /\ ProcType
  BY <1>1, BeginKeeps DEF IInv
<1>3. /\ call' = [call EXCEPT ![u] = r] /\ pc' = [pc EXCEPT ![u] = r.op]
      /\ UNCHANGED <<data, number, answer>>
  BY <1>1 DEF Begin, Goto, memory, locals
<1>4. UNCHANGED AbsStack
  BY <1>2, <1>3, StackSame
<1>5. AbsCall' = [AbsCall EXCEPT ![u] = r] /\ AbsCall[u] = NoCall /\ UNCHANGED AbsAnswer
  <2>1. DOMAIN call = Procs /\ Users \subseteq Procs
    BY <1>2 DEF ProcType, Procs
  <2> QED BY <1>2, <1>3, <2>1 DEF AbsCall, AbsAnswer
<1>6. UNCHANGED AbsResult
  <2>1. DOMAIN pc = Procs /\ Users \subseteq Procs /\ \A v \in Users : pc[v] = "idle"
    BY <1>2 DEF ProcType, Procs, Quiet, Idle
  <2>2. \A v \in Users : pc'[v] \notin {"count", "count2"}
    BY <1>1, <1>3, <2>1 DEF Starts
  <2>3. \A v \in Users : AbsOutcome(v) = <<"none">> /\ AbsOutcome(v)' = <<"none">>
    BY <2>1, <2>2, OutcomesHere, OutcomesThere DEF OutcomesAll
  <2>4. AbsResult = [v \in Users |-> AbsOutcome(v)] /\ AbsResult' = [v \in Users |-> AbsOutcome(v)']
    BY DEF AbsResult
  <2> QED BY <2>3, <2>4
<1> QED BY <1>4, <1>5, <1>6 DEF Abstract!Start, Abstract!NoCall, NoCall

\* A text that is no number is refused.
LEMMA PushTextRefines ==
  ASSUME IInv, NEW u \in Users, PushText(u)
  PROVE  Abstract!BadText(u)
<1>1. Chain' = Chain /\ UNCHANGED <<pc, call>> /\ call[u] = NoCall /\ ProcType /\ Idle(u)
  BY PushTextKeeps DEF IInv, PushText, Callable
<1>2. /\ answer' = [answer EXCEPT ![u] = <<"invalid">>] /\ number' = [number EXCEPT ![u] = 0]
      /\ UNCHANGED data
  BY DEF PushText, Return, memory
<1>3. UNCHANGED AbsStack
  BY <1>1, <1>2, StackSame
<1>4. DOMAIN answer = Procs /\ DOMAIN number = Procs /\ Users \subseteq Procs
  BY <1>1 DEF ProcType, Procs
<1>5. AbsCall' = AbsCall /\ AbsCall[u] = NoCall /\ AbsAnswer' = [AbsAnswer EXCEPT ![u] = <<"invalid">>]
  BY <1>1, <1>2, <1>4 DEF AbsCall, AbsAnswer
<1>6. UNCHANGED AbsResult
  <2>1. ASSUME NEW v \in Users PROVE AbsOutcome(v)' = AbsOutcome(v)
    <3>1. CASE v = u
      BY <1>1, <3>1, OutcomesHere, OutcomesThere DEF OutcomesAll, Idle
    <3>2. CASE v # u
      <4>1. number'[v] = number[v]
        BY <1>2, <1>4, <3>2
      <4> QED BY <1>1, <4>1 DEF AbsOutcome
    <3> QED BY <3>1, <3>2
  <2>2. AbsResult = [v \in Users |-> AbsOutcome(v)] /\ AbsResult' = [v \in Users |-> AbsOutcome(v)']
    BY DEF AbsResult
  <2> QED BY <2>1, <2>2
<1> QED BY <1>3, <1>5, <1>6 DEF Abstract!BadText, Abstract!NoCall, NoCall

\* For users that take turns, the linked list is a last-in first-out stack with the
\* right answers, whatever the amount of memory and through failing loads and reloads.
THEOREM StackRefinement ==
  Spec /\ []TakingTurns => ImplementsStackSpec
<1>1. Init => Abstract!Init
  <2> SUFFICES ASSUME Init PROVE Abstract!Init
    OBVIOUS
  <2>1. Head0 \in Nodes
    BY NodesInt
  <2>2. Linked(<<>>)
    BY <2>1, EmptyLinked DEF Init
  <2>3. Chain = <<>> /\ MemType /\ Linked(Chain)
    BY <2>2, ChainIs, InitIInv DEF IInv
  <2>4. AbsStack = <<>>
    BY <2>3, StackOf
  <2>5. \A u \in Users : u \in Procs /\ AbsOutcome(u) = <<"none">>
    BY OutcomesHere DEF OutcomesAll, Init, Procs
  <2>6. AbsResult = [u \in Users |-> <<"none">>]
    BY <2>5 DEF AbsResult
  <2>7. AbsCall = [u \in Users |-> NoCall] /\ AbsAnswer = [u \in Users |-> <<"none">>]
    BY <2>5 DEF AbsCall, AbsAnswer, Init
  <2> QED BY <2>4, <2>6, <2>7 DEF Abstract!Init, Abstract!NoCall, NoCall
<1>2. IInv /\ TakingTurns' /\ [Next]_vars => [Abstract!Next]_(Abstract!svars)
  <2> SUFFICES ASSUME IInv, TakingTurns', [Next]_vars PROVE Abstract!Next \/ UNCHANGED Abstract!svars
    OBVIOUS
  <2>1. CASE InitStack \/ InitGroup \/ ExitModule \/ ExitDone
    BY <2>1, LoaderRefines
  <2>2. ASSUME NEW u \in Users, NEW v \in Values, Begin(u, "push", v) PROVE Abstract!Next
    <3> DEFINE r == [op |-> "push", arg |-> v]
    <3>1. r \in Abstract!Requests /\ r.op = "push" /\ r.arg = v
      BY DEF Abstract!Requests
    <3> HIDE DEF r
    <3>2. Abstract!Start(u)
      BY <2>2, <3>1, BeginRefines
    <3> QED BY <3>2 DEF Abstract!Next
  <2>3. ASSUME NEW u \in Users, NEW op \in {"pop", "peek", "size", "is_empty", "clear"}, Begin(u, op, 0)
        PROVE  Abstract!Next
    <3> DEFINE r == [op |-> op, arg |-> 0]
    <3>1. r \in Abstract!Requests /\ r.op = op /\ r.arg = 0
      BY DEF Abstract!Requests
    <3> HIDE DEF r
    <3>2. Abstract!Start(u)
      BY <2>3, <3>1, BeginRefines
    <3> QED BY <3>2 DEF Abstract!Next
  <2>4. ASSUME NEW u \in Users, PushText(u) PROVE Abstract!Next
    BY <2>4, PushTextRefines DEF Abstract!Next
  <2>5. ASSUME NEW p \in Procs, Step(p) PROVE Abstract!Next \/ UNCHANGED Abstract!svars
    <3>1. CASE PushAlloc(p) \/ PushRead(p) \/ PushLink(p)
      BY <3>1, PushRefines DEF Abstract!Next
    <3>2. CASE Test(p) \/ First(p) \/ PopUnlink(p)
      BY <3>2, PopRefines DEF Abstract!Next
    <3>3. CASE CountRead(p) \/ CountWrite(p) \/ Query(p)
      BY <3>3, CountRefines DEF Abstract!Next
    <3>4. CASE ClearFirst(p) \/ ClearEach(p) \/ ClearDone(p)
      BY <3>4, ClearRefines DEF Abstract!Next
    <3> QED BY <2>5, <3>1, <3>2, <3>3, <3>4 DEF Step
  <2>6. CASE UNCHANGED vars
    <3>1. UNCHANGED <<AbsStack, AbsCall, AbsAnswer, AbsResult>>
      <4>1. Chain' = Chain
        BY <2>6, StutterKeeps
      <4>2. UNCHANGED <<data, pc, call, number, answer>>
        BY <2>6 DEF vars, memory, locals
      <4> QED BY <4>1, <4>2, StackSame DEF AbsCall, AbsAnswer, AbsResult, AbsOutcome
    <3> QED BY <3>1 DEF Abstract!svars
  <2> QED BY <2>1, <2>2, <2>3, <2>4, <2>5, <2>6 DEF Next
<1> QED BY <1>1, <1>2, StackInvariance, PTL DEF Spec, ImplementsStackSpec, Abstract!Spec
=============================================================================
