----------------------- MODULE KernelHashtableProofs -----------------------
(***************************************************************************)
(* Proofs about the hash table of module KernelHashtable when no file is   *)
(* used while init or exit runs: for every number of buckets, array size,  *)
(* number searched for and sequence of random values.                      *)
(*                                                                         *)
(* sort() is known only by what it promises, an order of the entries, and  *)
(* bsearch() by its loop: the halving of the window is shown to find a key *)
(* of a sorted sequence exactly when it is there.                          *)
(***************************************************************************)
EXTENDS KernelHashtable, SequenceTheorems, FiniteSetTheorems, WellFoundedInduction, TLAPS

-----------------------------------------------------------------------------
(* The inductive invariant *)

CallType == call \in {Idle} \cup [op : {"search", "result", "rebuild", "bucket_id", "bucket_dump"},
                                  arg : Nat]

\* Callbacks run, and the context is there, only while the module is live, apart
\* from the fill that init does.
PhaseInv ==
  /\ ctx = "there" <=> phase \in {"building", "live"}
  /\ ctx = "freed" => phase = "going"
  /\ call # Idle => phase = "live"
  /\ filler = "init" <=> phase = "building"
  /\ filler = "rebuild" => call.op = "rebuild"

\* A fill has added one entry per turn.
CountInv ==
  /\ IsFiniteSet(Slots)
  /\ filler # "none" => Entries = i /\ i <= array_size
  /\ filler = "none" => Entries \in {0, array_size}
  /\ ctx # "there" => htable = Empty

ResultInv == SearchExact /\ (filler # "none" => exact = 0)

IInv == TypeOK /\ CallType /\ PhaseInv /\ CountInv /\ Placed /\ ResultInv

-----------------------------------------------------------------------------
(* sort() and bsearch() *)

\* A non-empty set of natural numbers has a least element.
LEMMA LeastNat ==
  ASSUME NEW T, T \subseteq Nat, T # {}
  PROVE  \E m \in T : \A n \in T : m <= n
<1> DEFINE R == OpToRel(<, Nat)
<1>1. IsWellFoundedOn(R, Nat)
  BY NatLessThanWellFounded
<1>2. \A x, y \in Nat : x < y => <<x, y>> \in R
  BY DEF OpToRel
<1> HIDE DEF R
<1>3. PICK m \in T : \A y \in T : ~ (<<y, m>> \in R)
  BY <1>1, WFMin
<1>4. \A y \in T : ~ (y < m)
  BY <1>2, <1>3
<1> QED BY <1>4

\* What Orders says, element by element.
LEMMA OrdersAre ==
  ASSUME NEW s \in Seq(Nat), NEW p
  PROVE  p \in Orders(s) <=>
           /\ p \in [1 .. Len(s) -> 1 .. Len(s)]
           /\ \A j, k \in 1 .. Len(s) : p[j] = p[k] => j = k
           /\ \A x \in 1 .. Len(s) : \E k \in 1 .. Len(s) : p[k] = x
           /\ \A j, k \in 1 .. Len(s) : j < k => s[p[j]] <= s[p[k]]
<1> DEFINE D == 1 .. Len(s)
<1>1. \A e \in D : s[e] \in Nat
  OBVIOUS
<1>2. \A a, b \in Nat : cmp_entry_ptr(a, b) <= 0 <=> a <= b
  BY DEF cmp_entry_ptr
<1>3. p \in Orders(s) <=> /\ p \in [D -> D] /\ IsInjective(p)
                          /\ \A x \in D : \E k \in D : p[k] = x
                          /\ \A j, k \in D : j < k => cmp_entry_ptr(s[p[j]], s[p[k]]) <= 0
  BY DEF Orders, Bijection, Injection, Surjection
<1>4. p \in [D -> D] => (IsInjective(p) <=> \A j, k \in D : p[j] = p[k] => j = k)
  BY DEF IsInjective
<1>5. p \in [D -> D] => \A j, k \in D : cmp_entry_ptr(s[p[j]], s[p[k]]) <= 0 <=> s[p[j]] <= s[p[k]]
  BY <1>1, <1>2
<1> QED BY <1>3, <1>4, <1>5

\* Every sequence can be ordered: the last element has a place in an order of
\* the others.
LEMMA OrderExists ==
  ASSUME NEW s \in Seq(Nat)
  PROVE  Orders(s) # {}
<1> DEFINE T == {n \in Nat : \E t \in Seq(Nat) : Len(t) = n /\ Orders(t) = {}}
<1> SUFFICES ASSUME T # {} PROVE FALSE
  OBVIOUS
<1>1. PICK n \in T : \A x \in T : n <= x
  BY LeastNat
<1>2. PICK t \in Seq(Nat) : Len(t) = n /\ Orders(t) = {}
  OBVIOUS
<1>3. n \in Nat
  OBVIOUS
<1>4. n # 0
  <2> SUFFICES ASSUME n = 0 PROVE FALSE
    OBVIOUS
  <2>1. 1 .. Len(t) = {}
    BY <1>2
  <2>2. [k \in 1 .. Len(t) |-> k] \in Orders(t)
    BY <2>1, OrdersAre
  <2> QED BY <1>2, <2>2
<1> DEFINE u == [k \in 1 .. (n - 1) |-> t[k]]
<1>5. u \in Seq(Nat) /\ Len(u) = n - 1 /\ \A k \in 1 .. (n - 1) : u[k] = t[k] /\ t[k] \in Nat
  BY <1>2, <1>3, <1>4
<1>6. t[n] \in Nat
  BY <1>2, <1>3, <1>4
<1> HIDE DEF u
<1>7. Orders(u) # {}
  BY <1>1, <1>3, <1>4, <1>5
<1>8. PICK q : q \in Orders(u)
  BY <1>7
<1>9. /\ q \in [1 .. (n - 1) -> 1 .. (n - 1)]
      /\ \A j, k \in 1 .. (n - 1) : q[j] = q[k] => j = k
      /\ \A x \in 1 .. (n - 1) : \E k \in 1 .. (n - 1) : q[k] = x
      /\ \A j, k \in 1 .. (n - 1) : j < k => u[q[j]] <= u[q[k]]
  <2> DEFINE U == 1 .. Len(u)
  <2>1. U = 1 .. (n - 1)
    BY <1>5
  <2>2. /\ q \in [U -> U]
        /\ \A j, k \in U : q[j] = q[k] => j = k
        /\ \A x \in U : \E k \in U : q[k] = x
        /\ \A j, k \in U : j < k => u[q[j]] <= u[q[k]]
    BY <1>5, <1>8, OrdersAre
  <2> HIDE DEF U
  <2> QED BY <2>1, <2>2
<1>10. \A j, k \in 1 .. (n - 1) : j < k => t[q[j]] <= t[q[k]]
  BY <1>5, <1>9
<1> HIDE DEF T
<1> DEFINE Q == {k \in 1 .. (n - 1) : t[q[k]] > t[n]} \cup {n}
<1>11. PICK m \in Q : \A k \in Q : m <= k
  <2>1. Q \subseteq Nat /\ Q # {}
    BY <1>3
  <2> HIDE DEF Q
  <2> QED BY <2>1, LeastNat
<1>12. m \in 1 .. n
  BY <1>3, <1>4, <1>11
<1>13. \A k \in 1 .. (n - 1) : k < m => t[q[k]] <= t[n]
  <2> SUFFICES ASSUME NEW k \in 1 .. (n - 1), k < m, ~ (t[q[k]] <= t[n]) PROVE FALSE
    OBVIOUS
  <2>1. t[q[k]] \in Nat
    BY <1>5, <1>9
  <2>2. k \in Q
    BY <1>6, <2>1
  <2> QED BY <1>3, <1>11, <1>12, <2>2
<1>14. \A k \in 1 .. (n - 1) : k >= m => t[n] <= t[q[k]]
  <2> TAKE k \in 1 .. (n - 1)
  <2> HAVE k >= m
  <2>1. m # n
    BY <1>3, <1>12
  <2>2. m \in 1 .. (n - 1) /\ t[q[m]] > t[n]
    BY <1>3, <1>11, <2>1
  <2>3. t[q[m]] \in Nat /\ t[q[k]] \in Nat
    BY <1>5, <1>9, <2>2
  <2>4. t[q[m]] <= t[q[k]]
    <3>1. CASE m = k
      BY <2>3, <3>1
    <3>2. CASE m < k
      BY <1>10, <2>2, <3>2
    <3> QED BY <1>3, <2>2, <3>1, <3>2
  <2>5. \A x, y, z \in Nat : x > y /\ x <= z => y <= z
    OBVIOUS
  <2> QED BY <1>6, <2>2, <2>3, <2>4, <2>5, Zenon
<1> HIDE DEF Q
<1> DEFINE p == [k \in 1 .. n |-> IF k < m THEN q[k] ELSE IF k = m THEN n ELSE q[k - 1]]
<1>15. /\ \A k \in 1 .. n : k < m => k \in 1 .. (n - 1) /\ p[k] = q[k]
       /\ p[m] = n
       /\ \A k \in 1 .. n : k > m => k - 1 \in 1 .. (n - 1) /\ k - 1 >= m /\ p[k] = q[k - 1]
       /\ \A k \in 1 .. n : k < m \/ k = m \/ k > m
  BY <1>3, <1>12
<1>16. p \in [1 .. n -> 1 .. n]
  <2>1. \A x \in 1 .. (n - 1) : q[x] \in 1 .. n
    BY <1>3, <1>9
  <2>2. \A k \in 1 .. n : p[k] \in 1 .. n
    <3> TAKE k \in 1 .. n
    <3> HIDE DEF p
    <3>1. n \in 1 .. n
      BY <1>3, <1>4
    <3> QED BY <1>15, <2>1, <3>1
  <2> QED BY <2>2
<1> HIDE DEF p
<1>17. \A k \in 1 .. n : k # m => p[k] \in 1 .. (n - 1) /\ p[k] # n
  <2> TAKE k \in 1 .. n
  <2> HAVE k # m
  <2>1. \A x \in 1 .. (n - 1) : q[x] \in 1 .. (n - 1) /\ q[x] # n
    BY <1>3, <1>9
  <2> QED BY <1>15, <2>1
<1>18. \A j, k \in 1 .. n : p[j] = p[k] => j = k
  <2> TAKE j, k \in 1 .. n
  <2> HAVE p[j] = p[k]
  <2>1. CASE j = m \/ k = m
    BY <1>15, <1>17, <2>1
  <2>2. CASE j < m /\ k < m
    BY <1>9, <1>15, <2>2
  <2>3. CASE j > m /\ k > m
    <3>1. j - 1 = k - 1
      BY <1>9, <1>15, <2>3
    <3> QED BY <3>1
  <2>4. CASE j < m /\ k > m
    <3>1. j = k - 1
      BY <1>9, <1>15, <2>4
    <3> QED BY <1>12, <1>15, <2>4, <3>1
  <2>5. CASE j > m /\ k < m
    <3>1. k = j - 1
      BY <1>9, <1>15, <2>5
    <3> QED BY <1>12, <1>15, <2>5, <3>1
  <2> QED BY <1>15, <2>1, <2>2, <2>3, <2>4, <2>5
<1>19. \A x \in 1 .. n : \E k \in 1 .. n : p[k] = x
  <2> TAKE x \in 1 .. n
  <2>1. CASE x = n
    BY <1>12, <1>15, <2>1
  <2>2. CASE x # n
    <3>1. PICK k \in 1 .. (n - 1) : q[k] = x
      BY <1>3, <1>9, <2>2
    <3>2. CASE k < m
      BY <1>3, <1>15, <3>1, <3>2
    <3>3. CASE k >= m
      <4>1. k + 1 \in 1 .. n /\ k + 1 > m /\ (k + 1) - 1 = k
        BY <1>3, <1>12, <3>3
      <4> QED BY <1>15, <3>1, <4>1
    <3> QED BY <1>12, <3>2, <3>3
  <2> QED BY <2>1, <2>2
<1>20. \A j, k \in 1 .. n : j < k => t[p[j]] <= t[p[k]]
  <2> TAKE j, k \in 1 .. n
  <2> HAVE j < k
  <2>1. CASE k < m
    <3>1. j < m
      BY <1>12, <2>1
    <3> QED BY <1>10, <1>15, <2>1, <3>1
  <2>2. CASE k = m
    BY <1>13, <1>15, <2>2
  <2>3. CASE k > m /\ j < m
    <3>1. j < k - 1
      BY <1>12, <2>3
    <3> QED BY <1>10, <1>15, <2>3, <3>1
  <2>4. CASE k > m /\ j = m
    BY <1>14, <1>15, <2>4
  <2>5. CASE k > m /\ j > m
    <3>1. j - 1 < k - 1
      OBVIOUS
    <3> QED BY <1>10, <1>15, <2>5, <3>1
  <2> QED BY <1>15, <2>1, <2>2, <2>3, <2>4, <2>5
<1>21. p \in Orders(t)
  BY <1>2, <1>16, <1>18, <1>19, <1>20, OrdersAre
<1> QED BY <1>2, <1>21

Sorted(s) == \A j, k \in 1 .. Len(s) : j < k => s[j] <= s[k]

\* sort() yields the same values in ascending order.
LEMMA SortIs ==
  ASSUME NEW s \in Seq(Nat)
  PROVE  /\ sort(s) \in Seq(Nat) /\ Len(sort(s)) = Len(s)
         /\ Sorted(sort(s))
         /\ \E p \in Orders(s) : \A k \in 1 .. Len(s) : sort(s)[k] = s[p[k]]
<1> DEFINE p == CHOOSE p \in Orders(s) : TRUE
           r == [k \in 1 .. Len(s) |-> s[p[k]]]
<1>1. p \in Orders(s)
  BY OrderExists
<1>2. sort(s) = r
  BY DEF sort
<1> HIDE DEF p
<1>3. /\ p \in [1 .. Len(s) -> 1 .. Len(s)]
      /\ \A j, k \in 1 .. Len(s) : j < k => s[p[j]] <= s[p[k]]
  BY <1>1, OrdersAre
<1>4. Len(s) \in Nat /\ \A k \in 1 .. Len(s) : s[p[k]] \in Nat
  BY <1>3
<1>5. r \in [1 .. Len(s) -> Nat]
  BY <1>4
<1>6. r \in Seq(Nat) /\ Len(r) = Len(s)
  BY <1>4, <1>5
<1>7. \A k \in 1 .. Len(s) : r[k] = s[p[k]]
  OBVIOUS
<1> HIDE DEF r
<1>8. Sorted(r)
  BY <1>3, <1>6, <1>7 DEF Sorted
<1> QED BY <1>1, <1>2, <1>6, <1>7, <1>8

\* The two halves of a window of c elements, without its middle.
LEMMA Halves ==
  \A c \in Nat \ {0} : /\ c \div 2 \in 0 .. (c - 1) /\ (c - 1) \div 2 \in 0 .. (c - 1)
                       /\ (c \div 2) + ((c - 1) \div 2) = c - 1
  OBVIOUS

\* The loop of bsearch: a sorted sequence has the key exactly when the window
\* that is left has it.
LEMMA BsearchIs ==
  ASSUME NEW s \in Seq(Nat), Sorted(s), NEW key \in Nat
  PROVE  bsearch(key, s) <=> \E k \in 1 .. Len(s) : s[k] = key
<1> DEFINE n == Len(s)
           D == Windows(n)
           Mid(w) == w[1] + (w[2] \div 2)
           Above(w) == <<Mid(w) + 1, (w[2] - 1) \div 2>>
           Below(w) == <<w[1], w[2] \div 2>>
           Step(f, w) == IF w[2] = 0 THEN FALSE
                         ELSE IF cmp_key_entry(key, s[Mid(w)]) = 0 THEN TRUE
                         ELSE IF cmp_key_entry(key, s[Mid(w)]) > 0 THEN f[Above(w)]
                         ELSE f[Below(w)]
           Has(w) == \E k \in w[1] .. ((w[1] + w[2]) - 1) : s[k] = key
           found == CHOOSE f : f = [w \in D |-> Step(f, w)]
<1>1. n \in Nat /\ \A k \in 1 .. n : s[k] \in Nat
  OBVIOUS
<1>2. \A j, k \in 1 .. n : j < k => s[j] <= s[k]
  BY DEF Sorted
<1>3. bsearch(key, s) <=> found[<<1, n>>]
  BY Zenon DEF bsearch
<1>4. <<1, n>> \in D
  BY <1>1 DEF Windows
<1>5. ASSUME NEW w \in D
      PROVE  /\ w[1] \in 1 .. (n + 1) /\ w[2] \in 0 .. n /\ w[1] + w[2] <= n + 1
             /\ w[2] # 0 => /\ Mid(w) \in w[1] .. ((w[1] + w[2]) - 1) /\ Mid(w) \in 1 .. n
                            /\ Above(w) \in D /\ Above(w)[2] < w[2]
                            /\ Above(w)[1] = Mid(w) + 1
                            /\ Above(w)[1] + Above(w)[2] = w[1] + w[2]
                            /\ Below(w) \in D /\ Below(w)[2] < w[2]
                            /\ Below(w)[1] = w[1] /\ Below(w)[1] + Below(w)[2] = Mid(w)
  <2>1. w[1] \in 1 .. (n + 1) /\ w[2] \in 0 .. n /\ w[1] + w[2] <= n + 1
    BY <1>5 DEF Windows
  <2> DEFINE h == w[2] \div 2
             g == (w[2] - 1) \div 2
  <2>2. ASSUME w[2] # 0
        PROVE  /\ w[1] + h \in w[1] .. ((w[1] + w[2]) - 1) /\ w[1] + h \in 1 .. n
               /\ w[1] + h + 1 \in 1 .. (n + 1) /\ h \in 0 .. n /\ g \in 0 .. n
               /\ h < w[2] /\ g < w[2] /\ (w[1] + h + 1) + g = w[1] + w[2]
    <3>1. w[2] \in 1 .. n
      BY <2>1, <2>2
    <3>2. h = w[2] \div 2 /\ g = (w[2] - 1) \div 2
      OBVIOUS
    <3> HIDE DEF n, h, g
    <3>3. PICK a, c : a = w[1] /\ c = w[2]
      OBVIOUS
    <3>4. a \in 1 .. (n + 1) /\ c \in 1 .. n /\ a + c <= n + 1
      BY <2>1, <3>1, <3>3
    <3>5. h = c \div 2 /\ g = (c - 1) \div 2
      BY <3>2, <3>3
    <3>6. /\ a + h \in a .. ((a + c) - 1) /\ a + h \in 1 .. n
          /\ a + h + 1 \in 1 .. (n + 1) /\ h \in 0 .. n /\ g \in 0 .. n
          /\ h < c /\ g < c /\ (a + h + 1) + g = a + c
      <4>1. c \in Nat \ {0} /\ a \in Int /\ n \in Int
        BY <1>1, <3>4
      <4>2. h \in 0 .. (c - 1) /\ g \in 0 .. (c - 1) /\ h + g = c - 1
        BY <3>5, <4>1, Halves
      <4> QED BY <3>4, <4>1, <4>2
    <3> QED BY <3>3, <3>6
  <2>3. /\ Mid(w) = w[1] + h /\ Above(w) = <<w[1] + h + 1, g>> /\ Below(w) = <<w[1], h>>
        /\ Above(w)[1] = w[1] + h + 1 /\ Above(w)[2] = g /\ Below(w)[1] = w[1] /\ Below(w)[2] = h
    OBVIOUS
  <2> HIDE DEF h, g, Mid, Above, Below
  <2>4. \A a \in 1 .. (n + 1), b \in 0 .. n : a + b <= n + 1 => <<a, b>> \in D
    BY DEF Windows
  <2>5. ASSUME w[2] # 0 PROVE Above(w) \in D /\ Below(w) \in D
    <3>1. w[1] + h + 1 + g <= n + 1 /\ w[1] + h <= n + 1
      BY <2>1, <2>2, <2>5
    <3> QED BY <2>1, <2>2, <2>3, <2>4, <2>5, <3>1
  <2> HIDE DEF D
  <2> QED BY <2>1, <2>2, <2>3, <2>5
<1>6. \A a, b \in Nat : /\ cmp_key_entry(a, b) = 0 <=> a = b
                        /\ cmp_key_entry(a, b) > 0 <=> a > b
  BY DEF cmp_key_entry
<1> HIDE DEF D, Mid, Above, Below
<1>7. ASSUME NEW w \in D
      PROVE  Has(w) <=> IF w[2] = 0 THEN FALSE
                        ELSE IF cmp_key_entry(key, s[Mid(w)]) = 0 THEN TRUE
                        ELSE IF cmp_key_entry(key, s[Mid(w)]) > 0 THEN Has(Above(w))
                        ELSE Has(Below(w))
  <2>1. w[1] \in 1 .. (n + 1) /\ w[2] \in 0 .. n /\ w[1] + w[2] <= n + 1
    BY <1>5
  <2>2. CASE w[2] = 0
    BY <1>1, <2>1, <2>2
  <2>3. CASE w[2] # 0
    <3>1. /\ Mid(w) \in w[1] .. ((w[1] + w[2]) - 1) /\ Mid(w) \in 1 .. n
          /\ Above(w)[1] = Mid(w) + 1 /\ Above(w)[1] + Above(w)[2] = w[1] + w[2]
          /\ Below(w)[1] = w[1] /\ Below(w)[1] + Below(w)[2] = Mid(w)
      BY <1>5, <2>3
    <3> DEFINE m == Mid(w)
               l == w[1]
               t == w[1] + w[2]
    <3>2. l \in 1 .. n /\ t \in 1 .. (n + 1) /\ m \in l .. (t - 1) /\ m \in 1 .. n
      <4> HIDE DEF n
      <4>1. w[1] \in Int /\ w[2] \in Nat /\ w[2] # 0
        BY <2>1, <2>3
      <4> QED BY <1>1, <2>1, <3>1, <4>1
    <3>3. /\ Has(w) <=> \E k \in l .. (t - 1) : s[k] = key
          /\ Has(Above(w)) <=> \E k \in (m + 1) .. (t - 1) : s[k] = key
          /\ Has(Below(w)) <=> \E k \in l .. (m - 1) : s[k] = key
      <4>1. /\ Has(w) <=> \E k \in w[1] .. ((w[1] + w[2]) - 1) : s[k] = key
            /\ Has(Above(w)) <=> \E k \in Above(w)[1] .. ((Above(w)[1] + Above(w)[2]) - 1) : s[k] = key
            /\ Has(Below(w)) <=> \E k \in Below(w)[1] .. ((Below(w)[1] + Below(w)[2]) - 1) : s[k] = key
        OBVIOUS
      <4>2. m + 1 = Above(w)[1] /\ t = Above(w)[1] + Above(w)[2]
            /\ l = Below(w)[1] /\ m = Below(w)[1] + Below(w)[2]
        BY <3>1
      <4>3. Has(w) <=> \E k \in l .. (t - 1) : s[k] = key
        OBVIOUS
      <4> HIDE DEF Has, m, l, t
      <4> QED BY <4>1, <4>2, <4>3, Zenon
    <3> HIDE DEF m, l, t, Has
    <3>4. \A k \in l .. (t - 1) : k \in 1 .. n /\ s[k] \in Nat /\ (k < m => s[k] <= s[m])
                                  /\ (m < k => s[m] <= s[k])
      BY <1>1, <1>2, <3>2
    <3>5. s[m] \in Nat
      BY <1>1, <3>2
    <3>6. CASE key = s[m]
      BY <1>6, <2>3, <3>2, <3>3, <3>5, <3>6 DEF m
    <3>7. CASE key > s[m]
      <4>1. (\E k \in l .. (t - 1) : s[k] = key) <=> (\E k \in (m + 1) .. (t - 1) : s[k] = key)
        <5>1. ASSUME NEW k \in l .. (t - 1), s[k] = key PROVE k \in (m + 1) .. (t - 1)
          <6>1. s[k] \in Nat /\ k \in Int /\ m \in Int /\ t \in Int /\ k <= t - 1
            BY <3>2, <3>4
          <6>2. ~ (k < m) /\ k # m
            BY <3>4, <3>5, <3>7, <5>1, <6>1
          <6> QED BY <6>1, <6>2
        <5>2. \A k \in (m + 1) .. (t - 1) : k \in l .. (t - 1)
          BY <1>1, <3>2
        <5> QED BY <5>1, <5>2
      <4>2. cmp_key_entry(key, s[m]) # 0 /\ cmp_key_entry(key, s[m]) > 0
        BY <1>6, <3>5, <3>7
      <4> QED BY <2>3, <3>3, <4>1, <4>2, Zenon DEF m
    <3>8. CASE key < s[m]
      <4>1. (\E k \in l .. (t - 1) : s[k] = key) <=> (\E k \in l .. (m - 1) : s[k] = key)
        <5>1. ASSUME NEW k \in l .. (t - 1), s[k] = key PROVE k \in l .. (m - 1)
          <6>1. s[k] \in Nat /\ k \in Int /\ m \in Int /\ l \in Int /\ l <= k
            BY <3>2, <3>4
          <6>2. ~ (m < k) /\ k # m
            BY <3>4, <3>5, <3>8, <5>1, <6>1
          <6> QED BY <6>1, <6>2
        <5>2. \A k \in l .. (m - 1) : k \in l .. (t - 1)
          BY <1>1, <3>2
        <5> QED BY <5>1, <5>2
      <4>2. ~ (cmp_key_entry(key, s[m]) > 0) /\ cmp_key_entry(key, s[m]) # 0
        BY <1>6, <3>5, <3>8
      <4> QED BY <2>3, <3>3, <4>1, <4>2, Zenon DEF m
    <3> QED BY <3>5, <3>6, <3>7, <3>8
  <2> QED BY <2>2, <2>3
<1> HIDE DEF Has
<1> DEFINE g == [w \in D |-> Has(w)]
<1>8. g = [w \in D |-> Step(g, w)]
  <2>1. ASSUME NEW w \in D PROVE Has(w) = Step(g, w)
    <3>1. w[2] # 0 => g[Above(w)] = Has(Above(w)) /\ g[Below(w)] = Has(Below(w))
      BY <1>5
    <3>2. Has(w) \in BOOLEAN /\ Has(Above(w)) \in BOOLEAN /\ Has(Below(w)) \in BOOLEAN
      BY DEF Has
    <3> HIDE DEF g
    <3> QED BY <1>7, <3>1, <3>2, Zenon
  <2> HIDE DEF Has, Step
  <2>2. g = [w \in D |-> Step(g, w)]
    BY <2>1, Zenon
  <2> QED BY <2>2
<1> HIDE DEF g, Step
<1>9. found = [w \in D |-> Step(found, w)]
  BY <1>8, Zenon
<1> HIDE DEF found
<1>10. \A w \in D : found[w] = Has(w)
  <2> DEFINE Bad == {d \in Nat : \E w \in D : w[2] = d /\ found[w] # Has(w)}
  <2> SUFFICES ASSUME NEW v \in D, found[v] # Has(v) PROVE FALSE
    OBVIOUS
  <2>1. v[2] \in Nat
    BY <1>1, <1>5
  <2>2. Bad \subseteq Nat /\ Bad # {}
    BY <2>1
  <2>3. PICK d \in Bad : \A e \in Bad : d <= e
    <3> HIDE DEF Bad
    <3> QED BY <2>2, LeastNat
  <2>4. PICK w \in D : w[2] = d /\ found[w] # Has(w)
    OBVIOUS
  <2>5. found[w] = Step(found, w)
    BY <1>9, Zenon
  <2>6. Has(w) = Step(g, w) /\ g[w] = Has(w)
    BY <1>8, Zenon DEF g
  <2>7. ASSUME NEW x \in D, x[2] < w[2] PROVE found[x] = g[x]
    <3>1. x[2] \in Nat /\ w[2] \in Nat
      BY <1>1, <1>5
    <3>2. ~ (x[2] \in Bad)
      BY <2>3, <2>4, <2>7, <3>1
    <3>3. found[x] = Has(x)
      BY <3>1, <3>2
    <3> QED BY <3>3, Zenon DEF g
  <2>8. Step(found, w) = Step(g, w)
    <3>1. CASE w[2] = 0
      BY <3>1, Zenon DEF Step
    <3>2. CASE w[2] # 0
      <4>1. found[Above(w)] = g[Above(w)] /\ found[Below(w)] = g[Below(w)]
        BY <1>5, <2>7, <3>2
      <4> QED BY <4>1, Zenon DEF Step
    <3> QED BY <3>1, <3>2
  <2> QED BY <2>4, <2>5, <2>6, <2>8
<1>11. Has(<<1, n>>) <=> \E k \in 1 .. n : s[k] = key
  <2>1. (1 + n) - 1 = n
    BY <1>1
  <2> QED BY <2>1 DEF Has
<1> QED BY <1>3, <1>4, <1>10, <1>11

-----------------------------------------------------------------------------
(* The table *)

\* hash_min yields a bucket.
LEMMA HashIn == \A x \in Nat : hash_min(x) \in Buckets
<1>1. \A a \in Nat, d \in Nat \ {0} : a % d \in 0 .. (d - 1)
  OBVIOUS
<1>2. \A x \in Nat : 3 * x + 1 \in Nat
  OBVIOUS
<1>3. HASH_TABLE_SIZE \in Nat \ {0}
  BY HashtableAssumption
<1> QED BY <1>1, <1>2, <1>3 DEF hash_min, Buckets

\* An empty table has no entries.
EmptyFact == htable = Empty => /\ Slots = {} /\ IsFiniteSet(Slots) /\ Entries = 0 /\ Placed
                               /\ htable \in [Buckets -> Seq(Nat)]

\* It holds of every table.
LEMMA EmptyTable == EmptyFact
<1> SUFFICES ASSUME htable = Empty
             PROVE  /\ Slots = {} /\ IsFiniteSet(Slots) /\ Entries = 0 /\ Placed
                    /\ htable \in [Buckets -> Seq(Nat)]
  BY DEF EmptyFact
<1>1. \A b \in Buckets : htable[b] = <<>>
  BY DEF Empty
<1>2. Len(<<>>) = 0 /\ 1 .. 0 = {} /\ <<>> \in Seq(Nat)
  OBVIOUS
<1>3. Slots = {}
  <2>1. \A b \in Buckets : {b} \X (1 .. Len(htable[b])) = {}
    BY <1>1, <1>2
  <2> QED BY <2>1 DEF Slots
<1>4. Placed
  <2>1. \A b \in Buckets : DOMAIN htable[b] = {}
    BY <1>1, <1>2
  <2> QED BY <2>1 DEF Placed, Range
<1>5. htable \in [Buckets -> Seq(Nat)]
  BY <1>2 DEF Empty
<1> QED BY <1>3, <1>4, <1>5, FS_EmptySet DEF Entries

\* And of the table after a step.
LEMMA EmptyTableNext == EmptyFact'
BY EmptyTable, PTL

\* What is said of the table stays true while nobody writes it.
LEMMA SameTable ==
  ASSUME UNCHANGED <<array_size, htable>>
  PROVE  Slots' = Slots /\ Entries' = Entries /\ Stored' = Stored /\ Placed' = Placed
<1>1. array_size' = array_size /\ htable' = htable
  OBVIOUS
<1>2. Slots' = Slots
  BY <1>1 DEF Slots
<1>3. Stored' = Stored
  BY <1>1 DEF Stored
<1>4. Placed' = Placed
  BY <1>1 DEF Placed
<1> QED BY <1>2, <1>3, <1>4 DEF Entries

\* A value put in front of its bucket adds one entry, in its place.
LEMMA AddEntry ==
  ASSUME htable \in [Buckets -> Seq(Nat)], IsFiniteSet(Slots), Placed,
         NEW v \in Nat, v < array_size, UNCHANGED array_size,
         htable' = [htable EXCEPT ![hash_min(v)] = <<v>> \o @]
  PROVE  /\ htable' \in [Buckets -> Seq(Nat)] /\ IsFiniteSet(Slots')
         /\ Entries' = Entries + 1 /\ Placed'
<1>1. PICK h : h = hash_min(v)
  OBVIOUS
<1>2. h \in Buckets
  BY <1>1, HashIn
<1>3. PICK s : s = htable[h]
  OBVIOUS
<1>4. s \in Seq(Nat)
  BY <1>2, <1>3
<1>5. PICK t : t = <<v>> \o s
  OBVIOUS
<1>6. /\ t \in Seq(Nat) /\ Len(t) = Len(s) + 1
      /\ \A k \in 1 .. Len(t) : t[k] = IF k = 1 THEN v ELSE s[k - 1]
  BY <1>4, <1>5
<1>7. htable' = [htable EXCEPT ![h] = t]
  BY <1>1, <1>3, <1>5
<1>8. htable'[h] = t /\ \A b \in Buckets : b # h => htable'[b] = htable[b]
  BY <1>2, <1>7
<1>9. htable' \in [Buckets -> Seq(Nat)]
  BY <1>6, <1>7
<1>10. Len(s) \in Nat
  BY <1>4
<1> DEFINE x == <<h, Len(s) + 1>>
<1>11. \A y : y \in Slots <=> \E b \in Buckets : \E k \in 1 .. Len(htable[b]) : y = <<b, k>>
  BY DEF Slots
<1>12. \A y : y \in Slots' <=> \E b \in Buckets : \E k \in 1 .. Len(htable'[b]) : y = <<b, k>>
  BY DEF Slots
<1>13. x \notin Slots
  BY <1>3, <1>10, <1>11
<1>14. Slots' = Slots \cup {x}
  <2>1. \A b \in Buckets : \A k : k \in 1 .. Len(htable'[b]) <=>
                                  \/ k \in 1 .. Len(htable[b])
                                  \/ b = h /\ k = Len(s) + 1
    <3> TAKE b \in Buckets
    <3> TAKE k
    <3>1. CASE b = h
      BY <1>3, <1>6, <1>8, <1>10, <3>1
    <3>2. CASE b # h
      BY <1>8, <3>2
    <3> QED BY <3>1, <3>2
  <2>2. \A y : y \in Slots' <=> y \in Slots \/ y = x
    <3> TAKE y
    <3>1. ASSUME y \in Slots' PROVE y \in Slots \/ y = x
      <4>1. PICK b \in Buckets : \E k \in 1 .. Len(htable'[b]) : y = <<b, k>>
        BY <1>12, <3>1
      <4>2. PICK k \in 1 .. Len(htable'[b]) : y = <<b, k>>
        BY <4>1
      <4>3. k \in 1 .. Len(htable[b]) \/ (b = h /\ k = Len(s) + 1)
        BY <2>1
      <4> QED BY <1>11, <4>2, <4>3
    <3>2. ASSUME y \in Slots PROVE y \in Slots'
      <4>1. PICK b \in Buckets : \E k \in 1 .. Len(htable[b]) : y = <<b, k>>
        BY <1>11, <3>2
      <4>2. PICK k \in 1 .. Len(htable[b]) : y = <<b, k>>
        BY <4>1
      <4>3. k \in 1 .. Len(htable'[b])
        BY <2>1
      <4> QED BY <1>12, <4>2, <4>3
    <3>3. x \in Slots'
      <4>1. Len(s) + 1 \in 1 .. Len(htable'[h])
        BY <1>2, <2>1
      <4> QED BY <1>2, <1>12, <4>1
    <3> QED BY <3>1, <3>2, <3>3
  <2> HIDE DEF x
  <2> QED BY <2>2
<1> HIDE DEF x
<1>15. IsFiniteSet(Slots') /\ Entries' = Entries + 1
  <2>1. IsFiniteSet(Slots \cup {x}) /\ Cardinality(Slots \cup {x}) = Cardinality(Slots) + 1
    BY <1>13, FS_AddElement
  <2> QED BY <1>14, <2>1 DEF Entries
<1>16. Placed'
  <2> SUFFICES ASSUME NEW b \in Buckets, NEW w \in Range(htable'[b])
               PROVE  b = hash_min(w) /\ w < array_size
    BY DEF Placed
  <2>1. CASE b # h
    BY <1>8, <2>1 DEF Placed
  <2>2. CASE b = h
    <3>1. PICK k \in 1 .. Len(t) : w = t[k]
      <4>1. PICK k \in DOMAIN htable'[b] : w = htable'[b][k]
        BY DEF Range
      <4>2. htable'[b] = t /\ DOMAIN t = 1 .. Len(t)
        BY <1>6, <1>8, <2>2
      <4> QED BY <4>1, <4>2
    <3>2. CASE k = 1
      BY <1>1, <1>6, <2>2, <3>1, <3>2
    <3>3. CASE k # 1
      <4>1. k - 1 \in 1 .. Len(s) /\ w = s[k - 1]
        BY <1>6, <1>10, <3>1, <3>3
      <4>2. w \in Range(htable[h])
        BY <1>3, <1>4, <4>1 DEF Range
      <4> QED BY <1>2, <2>2, <4>2 DEF Placed
    <3> QED BY <3>2, <3>3
  <2> QED BY <2>1, <2>2
<1> QED BY <1>9, <1>15, <1>16

\* What ht_search looks for is found exactly when the table has it.
LEMMA SearchRight ==
  ASSUME htable \in [Buckets -> Seq(Nat)], Placed, NEW x \in Nat
  PROVE  x < array_size /\ bsearch(x, sort(collect_bucket(hash_min(x)))) <=> x \in Stored
<1>1. PICK h : h = hash_min(x)
  OBVIOUS
<1>2. h \in Buckets
  BY <1>1, HashIn
<1>3. PICK s : s = collect_bucket(h)
  OBVIOUS
<1>4. s = htable[h] /\ s \in Seq(Nat)
  BY <1>2, <1>3 DEF collect_bucket
<1>5. PICK r : r = sort(s)
  OBVIOUS
<1>6. /\ r \in Seq(Nat) /\ Len(r) = Len(s) /\ Sorted(r)
      /\ \E p \in Orders(s) : \A k \in 1 .. Len(s) : r[k] = s[p[k]]
  BY <1>4, <1>5, SortIs
<1>7. bsearch(x, r) <=> \E k \in 1 .. Len(r) : r[k] = x
  BY <1>6, BsearchIs
<1>8. (\E k \in 1 .. Len(r) : r[k] = x) <=> \E k \in 1 .. Len(s) : s[k] = x
  <2>1. PICK p \in Orders(s) : \A k \in 1 .. Len(s) : r[k] = s[p[k]]
    BY <1>6
  <2>2. /\ p \in [1 .. Len(s) -> 1 .. Len(s)]
        /\ \A y \in 1 .. Len(s) : \E k \in 1 .. Len(s) : p[k] = y
    BY <1>4, OrdersAre
  <2>3. ASSUME NEW k \in 1 .. Len(r), r[k] = x PROVE \E y \in 1 .. Len(s) : s[y] = x
    <3>1. k \in 1 .. Len(s)
      BY <1>6, <2>3
    <3> QED BY <2>1, <2>2, <2>3, <3>1
  <2>4. ASSUME NEW y \in 1 .. Len(s), s[y] = x PROVE \E k \in 1 .. Len(r) : r[k] = x
    <3>1. PICK k \in 1 .. Len(s) : p[k] = y
      BY <2>2
    <3>2. k \in 1 .. Len(r) /\ r[k] = x
      BY <1>6, <2>1, <2>4, <3>1
    <3> QED BY <3>2
  <2> QED BY <2>3, <2>4
<1>9. (\E k \in 1 .. Len(s) : s[k] = x) <=> x \in Range(htable[h])
  BY <1>4 DEF Range
<1>10. x \in Stored <=> x < array_size /\ x \in Range(htable[h])
  BY <1>1, <1>2 DEF Stored, Placed
<1>11. bsearch(x, sort(collect_bucket(hash_min(x)))) <=> bsearch(x, r)
  BY <1>1, <1>3, <1>5
<1> QED BY <1>7, <1>8, <1>9, <1>10, <1>11

-----------------------------------------------------------------------------
(* The steps *)

USE DEF IInv, PhaseInv, CountInv, ResultInv

\* Who may use the table: init while it fills it, else the current callback.
LEMMA Turns ==
  ASSUME IInv
  PROVE  /\ array_size \in Nat /\ 0 \in Buckets
         /\ call # Idle => phase = "live" /\ ctx = "there"
         /\ filler = "init" => call = Idle /\ phase = "building" /\ ctx = "there"
         /\ filler = "rebuild" => call.op = "rebuild" /\ call # Idle
         /\ filler \in {"none", "init", "rebuild"}
         /\ call.op # "none" <=> call # Idle
         /\ call # Idle => call.arg \in Nat
<1>1. HASH_TABLE_SIZE \in Nat \ {0} /\ ArraySizes \subseteq Nat
  BY HashtableAssumption
<1>2. call = Idle \/ call \in [op : {"search", "result", "rebuild", "bucket_id", "bucket_dump"}, arg : Nat]
  BY DEF CallType
<1>3. Idle.op = "none"
  BY DEF Idle
<1>4. /\ call.op # "none" <=> call # Idle
      /\ call # Idle => call.arg \in Nat
  BY <1>2, <1>3
<1> QED BY <1>1, <1>3, <1>4 DEF TypeOK, Buckets

\* Steps that leave the table, the fill and the result alone.
LEMMA KeepTable ==
  ASSUME IInv, UNCHANGED <<array_size, htable, filler, i, exact>>,
         UNCHANGED <<last_found, last_value>>, ctx' \in {ctx, "freed", "null"},
         ctx' # "there" => htable = Empty
  PROVE  CountInv' /\ Placed' /\ ResultInv'
<1>1. Slots' = Slots /\ Entries' = Entries /\ Stored' = Stored /\ Placed' = Placed
  BY SameTable
<1>2. CountInv'
  BY <1>1
<1>3. ResultInv'
  BY <1>1 DEF SearchExact
<1> QED BY <1>1, <1>2, <1>3

\* The loading process keeps the invariant.
LEMMA LoaderStep ==
  ASSUME IInv, ~RacyLifecycle, Loader
  PROVE  IInv'
<1> USE Turns
<1>1. CASE Insmod
  <2> USE <1>1 DEF Insmod, fields
  <2>1. TypeOK' /\ CallType'
    BY DEF TypeOK, CallType
  <2>2. PhaseInv'
    OBVIOUS
  <2>3. htable' = Empty
    OBVIOUS
  <2>4. Slots' = {} /\ IsFiniteSet(Slots') /\ Entries' = 0 /\ Placed'
    <3>1. EmptyFact'
      BY EmptyTableNext
    <3> QED BY <2>3, <3>1 DEF EmptyFact
  <2>5. filler' = "none" /\ ctx' # "there"
    OBVIOUS
  <2>6. CountInv'
    BY <2>3, <2>4, <2>5
  <2>7. ResultInv'
    BY <2>5 DEF SearchExact
  <2> QED BY <2>1, <2>2, <2>4, <2>6, <2>7
<1>2. CASE InitContext
  <2>1. CASE phase' = "failed"
    <3> USE <1>2, <2>1 DEF InitContext, fields
    <3>1. UNCHANGED <<array_size, htable, filler, i, exact, ctx, call, last_found, last_value>>
      OBVIOUS
    <3>2. TypeOK' /\ CallType' /\ PhaseInv'
      BY DEF TypeOK, CallType
    <3>3. CountInv' /\ Placed' /\ ResultInv'
      BY <3>1, KeepTable
    <3> QED BY <3>2, <3>3
  <2>2. CASE phase' # "failed"
    <3> USE <1>2, <2>2 DEF InitContext
    <3>1. /\ phase' = "building" /\ ctx' = "there" /\ htable' = Empty /\ filler' = "init" /\ i' = 0
          /\ exact' = 0 /\ last_found' = 0 /\ last_value' = 0 /\ last_bucket' = 0
          /\ current_bucket_id' = 0 /\ phase = "loading" /\ UNCHANGED <<array_size, call>>
      OBVIOUS
    <3>2. /\ Slots' = {} /\ IsFiniteSet(Slots') /\ Entries' = 0 /\ Placed'
          /\ htable' \in [Buckets -> Seq(Nat)]
      <4>1. EmptyFact'
        BY EmptyTableNext
      <4> QED BY <3>1, <4>1 DEF EmptyFact
    <3>3. TypeOK' /\ CallType' /\ PhaseInv'
      BY <3>1, <3>2 DEF TypeOK, CallType
    <3>4. CountInv' /\ ResultInv'
      BY <3>1, <3>2 DEF SearchExact
    <3> QED BY <3>2, <3>3, <3>4
  <2> QED BY <2>1, <2>2
<1>3. CASE ExitClear
  <2> USE <1>3 DEF ExitClear, fields
  <2>1. /\ phase = "live" /\ call = Idle /\ phase' = "going" /\ ctx' = "freed" /\ htable' = Empty
        /\ filler = "none" /\ UNCHANGED <<array_size, filler, i, call, exact>>
    OBVIOUS
  <2>2. /\ Slots' = {} /\ IsFiniteSet(Slots') /\ Entries' = 0 /\ Placed'
        /\ htable' \in [Buckets -> Seq(Nat)]
    <3>1. EmptyFact'
      BY EmptyTableNext
    <3> QED BY <2>1, <3>1 DEF EmptyFact
  <2>3. TypeOK' /\ CallType' /\ PhaseInv'
    BY <2>1, <2>2 DEF TypeOK, CallType
  <2>4. CountInv' /\ ResultInv'
    BY <2>1, <2>2 DEF SearchExact
  <2> QED BY <2>2, <2>3, <2>4
<1>4. CASE ExitFree
  <2> USE <1>4 DEF ExitFree, fields
  <2>1. TypeOK' /\ CallType' /\ PhaseInv'
    BY DEF TypeOK, CallType
  <2>2. ctx' = "null" /\ htable = Empty
    OBVIOUS
  <2>3. CountInv' /\ Placed' /\ ResultInv'
    BY <2>2, KeepTable
  <2> QED BY <2>1, <2>3
<1>5. CASE Teardown
  <2> USE <1>5 DEF Teardown, fields
  <2>1. TypeOK' /\ CallType' /\ PhaseInv'
    BY DEF TypeOK, CallType
  <2>2. htable' = Empty /\ ctx' # "there" /\ filler' = "none"
    OBVIOUS
  <2>3. IsFiniteSet(Slots') /\ Entries' = 0 /\ Placed'
    <3>1. EmptyFact'
      BY EmptyTableNext
    <3> QED BY <2>2, <3>1 DEF EmptyFact
  <2>4. CountInv' /\ ResultInv'
    BY <2>2, <2>3 DEF SearchExact
  <2> QED BY <2>1, <2>3, <2>4
<1> QED BY <1>1, <1>2, <1>3, <1>4, <1>5 DEF Loader

\* A fill keeps the invariant.
LEMMA BuildStep ==
  ASSUME IInv, Build
  PROVE  IInv'
<1> USE Turns
<1>1. CASE BuildAdd
  <2> USE <1>1 DEF BuildAdd, fields
  <2>1. PICK r \in RandomFrom :
          htable' = [htable EXCEPT ![hash_min(r % array_size)] = <<r % array_size>> \o @]
    OBVIOUS
  <2>2. /\ i < array_size /\ i \in Nat /\ array_size \in Nat /\ r \in Nat
        /\ filler # "none" /\ i' = i + 1
        /\ UNCHANGED <<phase, ctx, array_size, fields, filler, call, exact, answer>>
    BY HashtableAssumption DEF TypeOK
  <2>3. PICK v : v = r % array_size
    OBVIOUS
  <2>4. v \in Nat /\ v < array_size
    BY <2>2, <2>3
  <2>5. htable' = [htable EXCEPT ![hash_min(v)] = <<v>> \o @]
    BY <2>1, <2>3
  <2>6. /\ htable' \in [Buckets -> Seq(Nat)] /\ IsFiniteSet(Slots')
        /\ Entries' = Entries + 1 /\ Placed'
    BY <2>2, <2>4, <2>5, AddEntry DEF TypeOK
  <2>7. TypeOK' /\ CallType' /\ PhaseInv'
    BY <2>2, <2>6 DEF TypeOK, CallType
  <2>8. ctx = "there"
    BY <2>2
  <2>9. CountInv' /\ ResultInv'
    BY <2>2, <2>6, <2>8 DEF SearchExact
  <2> QED BY <2>6, <2>7, <2>9
<1>2. CASE BuildDone
  <2> USE <1>2 DEF BuildDone, fields
  <2>1. TypeOK' /\ CallType' /\ PhaseInv'
    BY DEF TypeOK, CallType
  <2>2. Slots' = Slots /\ Entries' = Entries /\ Stored' = Stored /\ Placed' = Placed
    BY SameTable
  <2>3. CountInv' /\ ResultInv'
    BY <2>2 DEF SearchExact
  <2> QED BY <2>1, <2>2, <2>3
<1>3. CASE BuildFail
  <2> USE <1>3 DEF BuildFail, fields
  <2>1. /\ htable' = Empty /\ filler' = "none" /\ i' = 0 /\ exact = 0
        /\ UNCHANGED <<array_size, fields, exact>>
    OBVIOUS
  <2>2. /\ Slots' = {} /\ IsFiniteSet(Slots') /\ Entries' = 0 /\ Placed'
        /\ htable' \in [Buckets -> Seq(Nat)]
    BY <2>1, EmptyTableNext DEF EmptyFact
  <2>3. TypeOK' /\ CallType' /\ PhaseInv'
    BY <2>1, <2>2 DEF TypeOK, CallType
  <2>4. CountInv' /\ ResultInv'
    BY <2>1, <2>2 DEF SearchExact
  <2> QED BY <2>2, <2>3, <2>4
<1> QED BY <1>1, <1>2, <1>3 DEF Build

\* The start of a callback keeps it.
LEMMA EnterStep ==
  ASSUME IInv, ~RacyLifecycle,
         \/ \E x \in Searches : Enter("search", x)
         \/ \E v \in {0, 1} : Enter("rebuild", v)
         \/ \E b \in BucketIds : Enter("bucket_id", b)
         \/ \E op \in {"result", "bucket_dump"} : Enter(op, 0)
         \/ EnterText
  PROVE  IInv'
<1> USE Turns
<1> DEFINE Ops == {"search", "result", "rebuild", "bucket_id", "bucket_dump"}
<1>1. ASSUME NEW op \in Ops, NEW arg \in Nat, Enter(op, arg)
      PROVE  IInv'
  <2> USE <1>1 DEF Enter, Callable, fields
  <2>1. call' # Idle => phase = "live"
    <3>1. CASE ctx = "null"
      BY <3>1
    <3>2. CASE ctx # "null"
      BY <3>2 DEF TypeOK
    <3> QED BY <3>1, <3>2
  <2>2. CallType'
    BY DEF CallType
  <2>3. TypeOK'
    BY DEF TypeOK
  <2>4. PhaseInv'
    BY <2>1
  <2>5. CountInv' /\ Placed' /\ ResultInv'
    BY KeepTable
  <2> QED BY <2>2, <2>3, <2>4, <2>5
<1>2. CASE EnterText
  <2> USE <1>2 DEF EnterText, fields
  <2>1. TypeOK' /\ CallType' /\ PhaseInv'
    BY DEF TypeOK, CallType
  <2>2. CountInv' /\ Placed' /\ ResultInv'
    BY KeepTable
  <2> QED BY <2>1, <2>2
<1>3. Searches \subseteq Nat /\ BucketIds \subseteq Nat /\ {0, 1} \subseteq Nat
  BY HashtableAssumption
<1> HIDE DEF IInv
<1> QED BY <1>1, <1>2, <1>3

\* The callbacks keep it.
LEMMA UseStep ==
  ASSUME IInv, Use
  PROVE  IInv'
<1> USE Turns DEF Finish, fields
<1>1. CASE Search
  <2> USE <1>1 DEF Search
  <2>1. PICK x \in Nat : x = call.arg
    OBVIOUS
  <2>2. PICK enough \in BOOLEAN : SearchFor(x, enough) /\ exact' = IF enough THEN 1 ELSE 0
    BY <2>1
  <2>3. /\ phase = "live" /\ ctx = "there" /\ filler = "none" /\ call' = Idle
        /\ UNCHANGED <<phase, ctx, array_size, filler, i, htable, current_bucket_id>>
    OBVIOUS
  <2>4. hash_min(x) \in Buckets
    BY HashIn
  <2>5. x < array_size /\ bsearch(x, sort(collect_bucket(hash_min(x)))) <=> x \in Stored
    BY SearchRight DEF TypeOK
  <2>6. /\ last_value' = x /\ last_bucket' \in Buckets /\ last_found' \in {0, 1}
        /\ enough => (last_found' = 1 <=> x \in Stored)
    BY <2>2, <2>4, <2>5 DEF SearchFor
  <2>7. Slots' = Slots /\ Entries' = Entries /\ Stored' = Stored /\ Placed' = Placed
    BY <2>3, SameTable
  <2>8. exact' \in {0, 1} /\ (exact' = 1 => enough)
    BY <2>2
  <2>9. TypeOK' /\ CallType' /\ PhaseInv'
    BY <2>1, <2>3, <2>6, <2>8 DEF TypeOK, CallType
  <2>10. CountInv'
    BY <2>3, <2>7
  <2>11. ResultInv'
    BY <2>3, <2>6, <2>7, <2>8 DEF SearchExact
  <2> QED BY <2>7, <2>9, <2>10, <2>11
<1>2. CASE GetResult
  <2> USE <1>2 DEF GetResult
  <2>1. TypeOK' /\ CallType' /\ PhaseInv'
    BY DEF TypeOK, CallType
  <2>2. CountInv' /\ Placed' /\ ResultInv'
    BY KeepTable
  <2> QED BY <2>1, <2>2
<1>3. CASE Rebuild
  <2> USE <1>3 DEF Rebuild
  <2>1. CASE filler' = "none"
    <3>1. UNCHANGED <<array_size, htable, filler, i, exact, phase, ctx, fields>> /\ call' = Idle
      BY <2>1
    <3>2. TypeOK' /\ CallType' /\ PhaseInv'
      BY <3>1 DEF TypeOK, CallType
    <3>3. CountInv' /\ Placed' /\ ResultInv'
      BY <3>1, KeepTable
    <3> QED BY <3>2, <3>3
  <2>2. CASE filler' # "none"
    <3>1. /\ htable' = Empty /\ filler' = "rebuild" /\ i' = 0 /\ exact' = 0
          /\ phase = "live" /\ call.op = "rebuild"
          /\ UNCHANGED <<phase, ctx, array_size, call, fields>>
      BY <2>2
    <3>2. /\ Slots' = {} /\ IsFiniteSet(Slots') /\ Entries' = 0 /\ Placed'
          /\ htable' \in [Buckets -> Seq(Nat)]
      BY <3>1, EmptyTableNext DEF EmptyFact
    <3>3. TypeOK' /\ CallType' /\ PhaseInv'
      BY <3>1, <3>2 DEF TypeOK, CallType
    <3>4. CountInv' /\ ResultInv'
      BY <3>1, <3>2 DEF SearchExact
    <3> QED BY <3>2, <3>3, <3>4
  <2> QED BY <2>1, <2>2
<1>4. CASE SetBucketId
  <2> USE <1>4 DEF SetBucketId
  <2>1. current_bucket_id' \in Buckets
    <3>1. call.arg \in Nat /\ HASH_TABLE_SIZE \in Nat
      BY HashtableAssumption
    <3>2. current_bucket_id \in Buckets
      BY DEF TypeOK
    <3> QED BY <3>1, <3>2 DEF Buckets
  <2>2. TypeOK' /\ CallType' /\ PhaseInv'
    BY <2>1 DEF TypeOK, CallType
  <2>3. CountInv' /\ Placed' /\ ResultInv'
    BY KeepTable
  <2> QED BY <2>2, <2>3
<1>5. CASE BucketDump
  <2> USE <1>5
  <2>1. /\ call' = Idle
        /\ UNCHANGED <<phase, ctx, array_size, filler, i, htable, fields, exact>>
        /\ call.op = "bucket_dump"
    BY DEF BucketDump
  <2>2. TypeOK' /\ CallType' /\ PhaseInv'
    BY <2>1 DEF TypeOK, CallType
  <2>3. CountInv' /\ Placed' /\ ResultInv'
    BY <2>1, KeepTable
  <2> QED BY <2>2, <2>3
<1> QED BY <1>1, <1>2, <1>3, <1>4, <1>5 DEF Use

\* The invariant holds at the start.
LEMMA InitIInv == Init => IInv
<1> SUFFICES ASSUME Init PROVE IInv
  OBVIOUS
<1> USE DEF Init
<1>1. htable = Empty
  OBVIOUS
<1>2. /\ Slots = {} /\ IsFiniteSet(Slots) /\ Entries = 0 /\ Placed
      /\ htable \in [Buckets -> Seq(Nat)]
  BY <1>1, EmptyTable DEF EmptyFact
<1>3. 0 \in Buckets
  BY HashtableAssumption DEF Buckets
<1>4. TypeOK /\ CallType
  BY <1>2, <1>3 DEF TypeOK, CallType
<1>5. PhaseInv
  BY DEF Idle
<1>6. CountInv /\ ResultInv
  BY <1>2 DEF SearchExact
<1> QED BY <1>2, <1>4, <1>5, <1>6

\* Every step keeps it.
LEMMA NextIInv ==
  ASSUME ~RacyLifecycle
  PROVE  IInv /\ [Next]_vars => IInv'
<1> SUFFICES ASSUME IInv, [Next]_vars PROVE IInv'
  OBVIOUS
<1>1. CASE UNCHANGED vars
  <2> USE <1>1 DEF vars, fields
  <2>1. TypeOK' /\ CallType' /\ PhaseInv'
    BY DEF TypeOK, CallType
  <2>2. CountInv' /\ Placed' /\ ResultInv'
    BY KeepTable
  <2> QED BY <2>1, <2>2
<1>2. CASE Next
  <2> HIDE DEF IInv
  <2> QED BY <1>2, LoaderStep, BuildStep, EnterStep, UseStep DEF Next
<1> QED BY <1>1, <1>2

\* The invariant holds always.
THEOREM HashtableInvariance ==
  ASSUME ~RacyLifecycle
  PROVE  Spec => []IInv
<1> HIDE DEF IInv
<1> QED BY InitIInv, NextIInv, PTL DEF Spec

\* The parameter callbacks keep struct bucket_search_ctx well typed: the result
\* names a bucket there is, and bucket_dump's bucket_id stays in the table.
THEOREM HashtableTypeCorrect ==
  ASSUME ~RacyLifecycle
  PROVE  Spec => []TypeOK
<1>1. IInv => TypeOK
  OBVIOUS
<1> HIDE DEF IInv
<1> QED BY <1>1, HashtableInvariance, PTL

\* A fill is all or nothing, each entry lies where ht_search looks for it, and
\* no callback meets a context that is not there.
THEOREM FillsAreWhole ==
  ASSUME ~RacyLifecycle
  PROVE  Spec => []TableWhole
<1>1. IInv => TableWhole
  <2> SUFFICES ASSUME IInv PROVE TableWhole
    OBVIOUS
  <2>1. ctx # "there" => Entries = 0
    BY EmptyTable DEF EmptyFact
  <2>2. call # Idle => ctx = "there"
    BY Turns
  <2> QED BY <2>1, <2>2 DEF TableWhole
<1> HIDE DEF IInv
<1> QED BY <1>1, HashtableInvariance, PTL

\* ht_search finds a number exactly when the table holds it: the copy of one
\* sorted bucket and its binary search miss nothing.
THEOREM SearchesAreExact ==
  ASSUME ~RacyLifecycle
  PROVE  Spec => []SearchExact
<1>1. IInv => SearchExact
  OBVIOUS
<1> HIDE DEF IInv
<1> QED BY <1>1, HashtableInvariance, PTL

-----------------------------------------------------------------------------
(* The dump *)

\* The k-th value of the sorted sequence is the k-th in ascending order: fewer
\* than k values are below it, and at least k are not above it.
LEMMA Rank ==
  ASSUME NEW b \in Seq(Nat), NEW k \in 1 .. Len(b), NEW v, v = sort(b)[k]
  PROVE  Ranked(b, k, v)
<1> DEFINE n == Len(b)
           s == sort(b)
           L == {j \in 1 .. n : b[j] < v}
           G == {j \in 1 .. n : b[j] <= v}
<1>1. n \in Nat /\ \A j \in 1 .. n : b[j] \in Nat
  OBVIOUS
<1>2. /\ s \in Seq(Nat) /\ Len(s) = n /\ Sorted(s)
      /\ \E p \in Orders(b) : \A x \in 1 .. n : s[x] = b[p[x]]
  BY SortIs
<1>3. PICK p \in Orders(b) : \A x \in 1 .. n : s[x] = b[p[x]]
  BY <1>2
<1>4. /\ p \in [1 .. n -> 1 .. n]
      /\ \A x, y \in 1 .. n : p[x] = p[y] => x = y
      /\ \A y \in 1 .. n : \E x \in 1 .. n : p[x] = y
  BY OrdersAre
<1>5. \A x, y \in 1 .. n : x <= y => s[x] <= s[y] /\ s[x] \in Nat /\ s[y] \in Nat
  <2> TAKE x, y \in 1 .. n
  <2> HAVE x <= y
  <2>1. s[x] \in Nat /\ s[y] \in Nat
    BY <1>1, <1>3, <1>4
  <2>2. CASE x = y
    BY <2>1, <2>2
  <2>3. CASE x < y
    BY <1>2, <2>1, <2>3 DEF Sorted
  <2> QED BY <2>1, <2>2, <2>3
<1>6. s[k] = v /\ v \in Nat /\ k \in 1 .. n
  BY <1>5
<1> HIDE DEF s
<1>7. IsFiniteSet(1 .. n) /\ IsFiniteSet(1 .. (k - 1)) /\ Cardinality(1 .. (k - 1)) = k - 1
      /\ IsFiniteSet(1 .. k) /\ Cardinality(1 .. k) = k
  <2>1. 1 \in Int /\ n \in Int /\ k \in Int /\ k - 1 \in Int /\ k >= 1
    BY <1>1, <1>6
  <2>2. Cardinality(1 .. (k - 1)) = IF 1 > k - 1 THEN 0 ELSE ((k - 1) - 1) + 1
    BY <2>1, FS_Interval
  <2>3. Cardinality(1 .. k) = IF 1 > k THEN 0 ELSE (k - 1) + 1
    BY <2>1, FS_Interval
  <2>4. IsFiniteSet(1 .. n) /\ IsFiniteSet(1 .. (k - 1)) /\ IsFiniteSet(1 .. k)
    BY <2>1, FS_Interval
  <2> QED BY <2>1, <2>2, <2>3, <2>4
<1>8. L \in SUBSET (1 .. n) /\ G \in SUBSET (1 .. n)
  OBVIOUS
<1>9. IsFiniteSet(L) /\ IsFiniteSet(G) /\ Cardinality(L) \in Nat /\ Cardinality(G) \in Nat
  <2> HIDE DEF L, G
  <2>1. IsFiniteSet(L) /\ IsFiniteSet(G)
    BY <1>7, <1>8, FS_Subset
  <2> QED BY <2>1, FS_CardinalityType
<1>10. Cardinality(L) < k
  <2> DEFINE f == [j \in L |-> CHOOSE x \in 1 .. n : p[x] = j]
  <2>1. ASSUME NEW j \in L PROVE f[j] \in 1 .. (k - 1) /\ p[f[j]] = j
    <3>1. j \in 1 .. n /\ b[j] < v
      OBVIOUS
    <3>2. f[j] \in 1 .. n /\ p[f[j]] = j
      BY <1>4, <3>1
    <3> HIDE DEF f, L
    <3>3. s[f[j]] = b[j]
      BY <1>3, <3>2
    <3>4. ~ (k <= f[j])
      <4> SUFFICES ASSUME k <= f[j] PROVE FALSE
        OBVIOUS
      <4>1. v <= b[j] /\ b[j] \in Nat
        BY <1>5, <1>6, <3>2, <3>3
      <4> QED BY <1>6, <3>1, <4>1
    <3> QED BY <1>6, <3>2, <3>4
  <2>2. f \in [L -> 1 .. (k - 1)]
    <3>1. \A j \in L : (CHOOSE x \in 1 .. n : p[x] = j) \in 1 .. (k - 1)
      BY <2>1
    <3> HIDE DEF L
    <3> QED BY <3>1
  <2> HIDE DEF f, L
  <2>3. IsInjective(f)
    BY <2>1, <2>2 DEF IsInjective
  <2>4. f \in Injection(L, 1 .. (k - 1))
    BY <2>2, <2>3 DEF Injection
  <2>5. Cardinality(L) <= Cardinality(1 .. (k - 1))
    BY <1>7, <2>4, FS_Injection
  <2> QED BY <1>6, <1>7, <1>9, <2>5
<1>11. Cardinality(G) >= k
  <2> DEFINE f == [x \in 1 .. k |-> p[x]]
  <2>1. ASSUME NEW x \in 1 .. k PROVE p[x] \in G /\ x \in 1 .. n
    <3>1. x \in 1 .. n /\ x <= k
      BY <1>1, <1>6
    <3>2. p[x] \in 1 .. n
      BY <1>4, <3>1
    <3>3. b[p[x]] = s[x]
      BY <1>3, <3>1
    <3>4. s[x] <= v
      BY <1>5, <1>6, <3>1
    <3> QED BY <3>1, <3>2, <3>3, <3>4
  <2> HIDE DEF G
  <2>2. f \in [1 .. k -> G]
    BY <2>1
  <2>3. IsInjective(f)
    BY <1>4, <2>1 DEF IsInjective
  <2> HIDE DEF f
  <2>4. f \in Injection(1 .. k, G)
    BY <2>2, <2>3 DEF Injection
  <2>5. Cardinality(1 .. k) <= Cardinality(G)
    BY <1>9, <2>4, FS_Injection
  <2> QED BY <1>6, <1>7, <1>9, <2>5
<1> QED BY <1>10, <1>11 DEF Ranked

\* No number, no characters.
LEMMA CharsNone == Chars(<<>>) = 0
<1> DEFINE E == {c \in (1 .. Len(<<>>)) \X (0 .. 10) : c[2] <= Width(<<>>[c[1]])}
<1>1. E = {}
  <2>1. 1 .. Len(<<>>) = {}
    OBVIOUS
  <2> QED BY <2>1
<1>2. Chars(<<>>) = Cardinality(E)
  BY Zenon DEF Chars
<1> HIDE DEF E
<1> QED BY <1>1, <1>2, FS_EmptySet

\* A further number takes its digits and a blank.
LEMMA CharsAppend ==
  ASSUME NEW s \in Seq(Nat), NEW v \in Nat
  PROVE  /\ Chars(s) \in Nat /\ Width(v) \in 1 .. 10
         /\ Chars(Append(s, v)) = Chars(s) + 1 + Width(v)
<1> DEFINE n == Len(s)
           A == {c \in (1 .. n) \X (0 .. 10) : c[2] <= Width(s[c[1]])}
           t == Append(s, v)
           B == {c \in (1 .. (n + 1)) \X (0 .. 10) : c[2] <= Width(t[c[1]])}
           C == {n + 1} \X (0 .. Width(v))
<1>1. n \in Nat /\ Len(t) = n + 1 /\ t[n + 1] = v /\ \A j \in 1 .. n : t[j] = s[j]
  OBVIOUS
<1>2. Width(v) \in 1 .. 10
  <2> DEFINE D == {d \in 1 .. 9 : RADIX ^ d <= v}
  <2>1. D \in SUBSET (1 .. 9) /\ Width(v) = 1 + Cardinality(D)
    BY DEF Width
  <2> HIDE DEF D
  <2>2. IsFiniteSet(1 .. 9) /\ Cardinality(1 .. 9) = 9
    <3>1. 1 \in Int /\ 9 \in Int
      OBVIOUS
    <3>2. IsFiniteSet(1 .. 9) /\ Cardinality(1 .. 9) = IF 1 > 9 THEN 0 ELSE 9 - 1 + 1
      BY <3>1, FS_Interval, Zenon
    <3> QED BY <3>2
  <2>3. IsFiniteSet(D) /\ Cardinality(D) <= 9
    BY <2>1, <2>2, FS_Subset
  <2>4. PICK k : k = Cardinality(D)
    OBVIOUS
  <2>5. k \in Nat /\ k <= 9
    BY <2>3, <2>4, FS_CardinalityType
  <2>6. PICK w : w = Width(v)
    OBVIOUS
  <2>7. w = 1 + k
    BY <2>1, <2>4, <2>6
  <2>8. w \in 1 .. 10
    BY <2>5, <2>7
  <2> QED BY <2>6, <2>8
<1>3. Chars(s) = Cardinality(A) /\ Chars(t) = Cardinality(B)
  BY <1>1, Zenon DEF Chars
<1>4. IsFiniteSet(A) /\ Cardinality(A) \in Nat
  <2>1. IsFiniteSet(1 .. n) /\ IsFiniteSet(0 .. 10)
    <3>1. 1 \in Int /\ n \in Int /\ 0 \in Int /\ 10 \in Int
      BY <1>1
    <3> HIDE DEF n
    <3> QED BY <3>1, FS_Interval, Zenon
  <2>2. IsFiniteSet((1 .. n) \X (0 .. 10))
    BY <2>1, FS_Product
  <2>3. A \in SUBSET ((1 .. n) \X (0 .. 10))
    OBVIOUS
  <2> HIDE DEF A
  <2>4. IsFiniteSet(A)
    BY <2>2, <2>3, FS_Subset
  <2> QED BY <2>4, FS_CardinalityType
<1>5. IsFiniteSet(C) /\ Cardinality(C) = 1 + Width(v)
  <2>1. IsFiniteSet(0 .. Width(v)) /\ Cardinality(0 .. Width(v)) = 1 + Width(v)
    <3>1. PICK w : w = Width(v)
      OBVIOUS
    <3>2. w \in Int /\ w >= 0
      BY <1>2, <3>1
    <3>3. IsFiniteSet(0 .. w) /\ Cardinality(0 .. w) = IF 0 > w THEN 0 ELSE w - 0 + 1
      BY <3>2, FS_Interval
    <3> QED BY <3>1, <3>2, <3>3
  <2>2. IsFiniteSet({n + 1}) /\ Cardinality({n + 1}) = 1
    BY FS_Singleton
  <2>3. IsFiniteSet(C) /\ Cardinality(C) = Cardinality({n + 1}) * Cardinality(0 .. Width(v))
    BY <2>1, <2>2, FS_Product
  <2> HIDE DEF C
  <2> QED BY <1>2, <2>1, <2>2, <2>3
<1>6. B = A \cup C
  <2>1. ASSUME NEW c \in B PROVE c \in A \cup C
    <3>1. /\ c \in (1 .. (n + 1)) \X (0 .. 10) /\ c = <<c[1], c[2]>>
          /\ c[1] \in 1 .. (n + 1) /\ c[2] \in 0 .. 10 /\ c[2] <= Width(t[c[1]])
      OBVIOUS
    <3>2. CASE c[1] \in 1 .. n
      <4>1. t[c[1]] = s[c[1]] /\ c \in (1 .. n) \X (0 .. 10)
        BY <1>1, <3>1, <3>2
      <4> QED BY <3>1, <4>1
    <3>3. CASE c[1] = n + 1
      <4>1. c[2] <= Width(v)
        BY <1>1, <3>1, <3>3
      <4>2. c[2] \in 0 .. Width(v) /\ c[1] \in {n + 1}
        BY <1>2, <3>1, <3>3, <4>1
      <4> QED BY <3>1, <4>2
    <3>4. c[1] \in 1 .. n \/ c[1] = n + 1
      BY <1>1, <3>1
    <3> QED BY <3>2, <3>3, <3>4
  <2>2. ASSUME NEW c \in A PROVE c \in B
    <3>1. /\ c = <<c[1], c[2]>> /\ c[1] \in 1 .. n /\ c[2] \in 0 .. 10
          /\ c[2] <= Width(s[c[1]])
      OBVIOUS
    <3>2. t[c[1]] = s[c[1]] /\ c[1] \in 1 .. (n + 1)
      BY <1>1, <3>1
    <3>3. c \in (1 .. (n + 1)) \X (0 .. 10)
      BY <3>1, <3>2
    <3> QED BY <3>1, <3>2, <3>3
  <2>3. ASSUME NEW c \in C PROVE c \in B
    <3>1. c = <<c[1], c[2]>> /\ c[1] = n + 1 /\ c[2] \in 0 .. Width(v)
      OBVIOUS
    <3>2. c[1] \in 1 .. (n + 1) /\ t[c[1]] = v
      BY <1>1, <3>1
    <3>3. c[2] \in 0 .. 10 /\ c[2] <= Width(v)
      BY <1>2, <3>1
    <3>4. c \in (1 .. (n + 1)) \X (0 .. 10)
      BY <3>1, <3>2, <3>3
    <3> QED BY <3>2, <3>3, <3>4
  <2> HIDE DEF A, B, C
  <2>4. \A c : c \in B <=> c \in A \cup C
    BY <2>1, <2>2, <2>3
  <2> QED BY <2>4
<1>7. A \cap C = {}
  <2>1. \A c \in A : c[1] \in 1 .. n
    OBVIOUS
  <2>2. \A c \in C : c[1] = n + 1
    OBVIOUS
  <2> HIDE DEF A, C
  <2>3. ASSUME NEW c \in A, c \in C PROVE FALSE
    <3>1. c[1] \in 1 .. n /\ c[1] = n + 1
      BY <2>1, <2>2, <2>3
    <3> QED BY <1>1, <3>1
  <2> QED BY <2>3
<1> HIDE DEF A, B, C, t
<1>9. Cardinality(B) = Cardinality(A) + Cardinality(C) - Cardinality({})
  BY <1>4, <1>5, <1>6, <1>7, FS_Union
<1>10. Cardinality({}) = 0
  BY FS_EmptySet
<1>11. Cardinality(B) = Cardinality(A) + 1 + Width(v)
  BY <1>2, <1>4, <1>5, <1>9, <1>10
<1> QED BY <1>2, <1>3, <1>4, <1>11 DEF t

\* What the page shows of a sequence: the longest beginning that fits, and then
\* at most the first digits of the next number.
LEMMA PrintedIs ==
  ASSUME NEW s \in Seq(Nat)
  PROVE  \E whole \in 0 .. Len(s) :
           /\ Chars(SubSeq(s, 1, whole)) <= ROOM
           /\ whole < Len(s) => Chars(Append(SubSeq(s, 1, whole), s[whole + 1])) > ROOM
           /\ \/ Printed(s) = SubSeq(s, 1, whole)
              \/ /\ whole < Len(s)
                 /\ \E d \in 1 .. Width(s[whole + 1]) - 1 :
                      Printed(s) = Append(SubSeq(s, 1, whole),
                                          s[whole + 1] \div (RADIX ^ d))
<1> DEFINE n == Len(s)
           T == {m \in 0 .. n : Chars(SubSeq(s, 1, m)) <= ROOM}
           R == {n - m : m \in T}
<1>1. n \in Nat /\ ROOM \in Nat
  BY HashtableAssumption
<1>2. 0 \in T
  <2>1. SubSeq(s, 1, 0) = <<>> /\ 0 \in 0 .. n
    BY <1>1
  <2>2. Chars(<<>>) = 0
    BY CharsNone
  <2>3. Chars(SubSeq(s, 1, 0)) <= ROOM
    <3>1. Chars(SubSeq(s, 1, 0)) = 0
      BY <2>1, <2>2, Zenon
    <3>2. 0 <= ROOM
      BY <1>1
    <3> QED BY <3>1, <3>2, Zenon
  <2> QED BY <2>1, <2>3
<1>3. PICK r \in R : \A x \in R : r <= x
  <2>1. R \subseteq Nat /\ R # {}
    BY <1>1, <1>2
  <2> HIDE DEF R
  <2> QED BY <2>1, LeastNat
<1>4. \E m \in T : \A x \in T : m >= x
  <2>1. PICK m \in T : r = n - m
    OBVIOUS
  <2>2. \A x \in T : m >= x
    <3> TAKE x \in T
    <3>1. n - x \in R /\ x \in 0 .. n /\ m \in 0 .. n
      OBVIOUS
    <3>2. r <= n - x
      BY <1>3, <3>1
    <3> QED BY <1>1, <2>1, <3>1, <3>2
  <2> QED BY <2>2
<1>5. PICK whole : whole = Max(T)
  OBVIOUS
<1>6. whole \in T /\ \A x \in T : whole >= x
  BY <1>4, <1>5, Zenon DEF Max
<1>7. whole \in 0 .. n /\ Chars(SubSeq(s, 1, whole)) <= ROOM
  BY <1>6
<1>8. PICK text : text = SubSeq(s, 1, whole)
  OBVIOUS
<1>9. text \in Seq(Nat)
  BY <1>1, <1>7, <1>8
<1>10. ASSUME whole < n
       PROVE  /\ s[whole + 1] \in Nat /\ Chars(Append(text, s[whole + 1])) > ROOM
              /\ (Chars(text) + 1) + Width(s[whole + 1]) > ROOM
  <2>1. whole + 1 \in 0 .. n /\ s[whole + 1] \in Nat
    BY <1>1, <1>7, <1>10
  <2>2. Append(text, s[whole + 1]) = SubSeq(s, 1, whole + 1)
    BY <1>1, <1>7, <1>8, <1>10
  <2>3. whole + 1 \notin T
    <3>1. ~ (whole >= whole + 1)
      BY <1>7
    <3> HIDE DEF T
    <3> QED BY <1>6, <3>1
  <2>4. ~ (Chars(SubSeq(s, 1, whole + 1)) <= ROOM)
    BY <2>1, <2>3
  <2>5. /\ Chars(text) \in Nat /\ Width(s[whole + 1]) \in 1 .. 10
        /\ Chars(Append(text, s[whole + 1])) = Chars(text) + 1 + Width(s[whole + 1])
    BY <1>9, <2>1, CharsAppend
  <2>6. PICK c, w : c = Chars(text) /\ w = Width(s[whole + 1])
    OBVIOUS
  <2>7. PICK a : a = Chars(Append(text, s[whole + 1]))
    OBVIOUS
  <2>8. a = c + 1 + w /\ c \in Nat /\ w \in 1 .. 10 /\ ~ (a <= ROOM)
    BY <2>2, <2>4, <2>5, <2>6, <2>7
  <2>9. a > ROOM /\ (c + 1) + w > ROOM
    BY <1>1, <2>8
  <2> QED BY <2>1, <2>6, <2>7, <2>9
<1> DEFINE left == (ROOM - Chars(text)) - 1
<1>11. Printed(s) = IF whole < n /\ left > 0
                    THEN Append(text, s[whole + 1] \div (RADIX ^ (Width(s[whole + 1]) - left)))
                    ELSE text
  BY <1>5, <1>8, Zenon DEF Printed
<1> HIDE DEF left
<1>12. CASE whole < n /\ left > 0
  <2>1. Chars(text) \in Nat /\ Width(s[whole + 1]) \in 1 .. 10
    BY <1>9, <1>10, <1>12, CharsAppend
  <2>2. Width(s[whole + 1]) - left \in 1 .. (Width(s[whole + 1]) - 1)
    <3>1. PICK c, w : c = Chars(text) /\ w = Width(s[whole + 1])
      OBVIOUS
    <3>2. left = (ROOM - c) - 1
      BY <3>1 DEF left
    <3>3. c \in Nat /\ w \in 1 .. 10 /\ (c + 1) + w > ROOM /\ left > 0
      BY <1>10, <1>12, <2>1, <3>1
    <3>4. w - left \in 1 .. (w - 1)
      BY <1>1, <3>2, <3>3
    <3> QED BY <3>1, <3>4
  <2> QED BY <1>7, <1>8, <1>10, <1>11, <1>12, <2>2
<1>13. CASE ~ (whole < n /\ left > 0)
  BY <1>7, <1>8, <1>10, <1>11, <1>13
<1> QED BY <1>12, <1>13

\* Only BucketDump ends a call of bucket_dump.
LEMMA OnlyDump ==
  ASSUME IInv, [Next]_vars, call.op = "bucket_dump", call' = Idle
  PROVE  BucketDump
<1>1. call # Idle
  BY Turns
<1>2. ~ Loader
  BY <1>1, Turns DEF Loader, Insmod, InitContext, ExitClear, ExitFree, Teardown
<1>3. ~ Build
  BY <1>1, Turns DEF Build, BuildAdd, BuildDone, BuildFail
<1>4. ~ EnterText /\ \A op, arg : ~ Enter(op, arg)
  BY <1>1 DEF EnterText, Enter, Callable
<1>5. ~ (UNCHANGED vars)
  BY <1>1 DEF vars
<1>6. Use => BucketDump
  BY DEF Use, Search, GetResult, Rebuild, SetBucketId
<1> HIDE DEF IInv
<1> QED BY <1>2, <1>3, <1>4, <1>5, <1>6 DEF Next

\* bucket_dump prints the bucket in ascending order, each value as often as it
\* occurs: as many values as fit into the page, and after them at most the first
\* digits of the next one.
THEOREM DumpsAreExact ==
  ASSUME ~RacyLifecycle
  PROVE  Spec => DumpExact
<1>1. IInv /\ [Next]_vars => DumpRight
  <2> SUFFICES ASSUME IInv, [Next]_vars,
                      call.op = "bucket_dump", call' = Idle, answer'[1] = "dump"
               PROVE  DumpRight
    BY DEF DumpRight
  <2>1. PICK b : b = htable[current_bucket_id]
    OBVIOUS
  <2>2. PICK s : s = sort(b)
    OBVIOUS
  <2>3. b \in Seq(Nat)
    BY <2>1 DEF TypeOK
  <2>4. s \in Seq(Nat) /\ Len(s) = Len(b) /\ \A k \in 1 .. Len(b) : s[k] \in Range(b)
    <3>1. /\ s \in Seq(Nat) /\ Len(s) = Len(b)
          /\ \E p \in Orders(b) : \A k \in 1 .. Len(b) : s[k] = b[p[k]]
      BY <2>2, <2>3, SortIs
    <3>2. \A p \in Orders(b) : \A k \in 1 .. Len(b) : p[k] \in 1 .. Len(b)
      <4>1. \A p \in Orders(b) : p \in [1 .. Len(b) -> 1 .. Len(b)]
        BY <2>3, OrdersAre
      <4> QED BY <4>1
    <3> QED BY <2>3, <3>1, <3>2 DEF Range
  <2>5. answer' = <<"dump", Len(s), Printed(s)>>
    <3>1. BucketDump
      BY OnlyDump
    <3>2. s = sort(collect_bucket(current_bucket_id))
      BY <2>1, <2>2 DEF collect_bucket
    <3>3. \/ answer' = <<"dump", Len(s), Printed(s)>>
          \/ answer' = <<"dump error", current_bucket_id>>
      BY <3>1, <3>2, Zenon DEF BucketDump, Finish
    <3>4. answer' # <<"dump error", current_bucket_id>>
      <4>1. <<"dump error", current_bucket_id>>[1] # "dump"
        OBVIOUS
      <4> QED BY <4>1, Zenon
    <3> QED BY <3>3, <3>4, Zenon
  <2>6. PICK shown : shown = Printed(s)
    OBVIOUS
  <2>7. answer'[2] = Len(b) /\ answer'[3] = shown
    BY <2>4, <2>5, <2>6
  <2>8. PICK whole \in 0 .. Len(s) :
           /\ Chars(SubSeq(s, 1, whole)) <= ROOM
           /\ whole < Len(s) => Chars(Append(SubSeq(s, 1, whole), s[whole + 1])) > ROOM
           /\ \/ shown = SubSeq(s, 1, whole)
              \/ /\ whole < Len(s)
                 /\ \E d \in 1 .. Width(s[whole + 1]) - 1 :
                      shown = Append(SubSeq(s, 1, whole), s[whole + 1] \div (RADIX ^ d))
    BY <2>4, <2>6, PrintedIs, Zenon
  <2>9. PICK text : text = SubSeq(s, 1, whole)
    OBVIOUS
  <2>10. /\ text \in Seq(Nat) /\ Len(text) = whole /\ \A k \in 1 .. whole : text[k] = s[k]
         /\ Len(s) \in Nat /\ whole \in Nat /\ whole <= Len(s)
    BY <2>4, <2>9
  <2>11. /\ SubSeq(shown, 1, whole) = text
         /\ \/ Len(shown) = whole
            \/ /\ Len(shown) = whole + 1 /\ whole < Len(s)
               /\ \E d \in 1 .. Width(s[whole + 1]) - 1 :
                    shown[whole + 1] = s[whole + 1] \div (RADIX ^ d)
    <3>1. CASE shown = text
      <4>1. SubSeq(text, 1, whole) = text
        BY <2>10
      <4> QED BY <2>10, <3>1, <4>1
    <3>2. CASE /\ whole < Len(s)
               /\ \E d \in 1 .. Width(s[whole + 1]) - 1 :
                    shown = Append(text, s[whole + 1] \div (RADIX ^ d))
      <4>1. PICK d \in 1 .. Width(s[whole + 1]) - 1 :
                   shown = Append(text, s[whole + 1] \div (RADIX ^ d))
        BY <3>2
      <4>2. PICK x : x = s[whole + 1] \div (RADIX ^ d)
        OBVIOUS
      <4>3. /\ Len(shown) = whole + 1 /\ shown[whole + 1] = x
            /\ SubSeq(shown, 1, whole) = text
        BY <2>10, <4>1, <4>2
      <4> QED BY <3>2, <4>2, <4>3
    <3> QED BY <2>8, <2>9, <3>1, <3>2
  <2>12. /\ \A k \in 1 .. whole : Ranked(b, k, text[k])
         /\ whole < Len(b) => Ranked(b, whole + 1, s[whole + 1]) /\ s[whole + 1] \in Range(b)
    <3>1. \A k \in 1 .. Len(b) : Ranked(b, k, s[k])
      BY <2>2, <2>3, Rank
    <3>2. \A k \in 1 .. whole : k \in 1 .. Len(b) /\ text[k] = s[k]
      BY <2>4, <2>10
    <3>3. whole < Len(b) => whole + 1 \in 1 .. Len(b)
      BY <2>4, <2>10
    <3> QED BY <2>4, <3>1, <3>2, <3>3
  <2>13. whole \in 0 .. Len(shown)
    BY <2>10, <2>11
  <2>14. \/ whole = Len(b) /\ whole = Len(shown)
         \/ \E v \in Range(b) :
              /\ Ranked(b, whole + 1, v) /\ Chars(Append(text, v)) > ROOM
              /\ \/ whole = Len(shown)
                 \/ /\ Len(shown) = whole + 1
                    /\ \E d \in 1 .. Width(v) - 1 :
                         shown[whole + 1] = v \div (RADIX ^ d)
    <3>1. CASE whole < Len(b)
      <4>1. Chars(Append(text, s[whole + 1])) > ROOM
        BY <2>4, <2>8, <2>9, <3>1
      <4> QED BY <2>11, <2>12, <3>1, <4>1
    <3>2. CASE whole = Len(b)
      BY <2>4, <2>10, <2>11, <3>2
    <3> QED BY <2>4, <2>10, <3>1, <3>2
  <2>15. Chars(text) <= ROOM
    BY <2>8, <2>9
  <2> QED BY <2>1, <2>7, <2>11, <2>12, <2>13, <2>14, <2>15, Zenon DEF DumpRight
<1> HIDE DEF IInv
<1> QED BY <1>1, HashtableInvariance, PTL DEF Spec, DumpExact
=============================================================================
