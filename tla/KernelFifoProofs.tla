-------------------------- MODULE KernelFifoProofs --------------------------
(***************************************************************************)
(* Proofs about the queue of module KernelFifo when no callback runs while *)
(* init or exit is half done: for every width of unsigned int, every size  *)
(* of an entry that is a power of two and every requested size.            *)
(*                                                                         *)
(* The argument counts entries instead of bytes.  in, out and the size of  *)
(* the buffer are multiples of ENTRY, and the buffer's size divides        *)
(* UINT_MOD, so that a position keeps its slot when it wraps.              *)
(***************************************************************************)
EXTENDS KernelFifo, SequenceTheorems, WellFoundedInduction, TLAPS

-----------------------------------------------------------------------------
(* Arithmetic *)

\* A non-empty set of natural numbers has a least element.
LEMMA LeastNat ==
  ASSUME NEW T, T \subseteq Nat, T # {}
  PROVE  \E m \in T : \A n \in T : m <= n
<1> DEFINE R == OpToRel(<, Nat)
<1>1. IsWellFoundedOn(R, Nat)
  BY NatLessThanWellFounded
<1>2. \A x, y \in Nat : x < y => <<x, y>> \in R
  BY DEF OpToRel
<1> HIDE DEF R
<1>3. PICK m \in T : \A y \in T : ~ (<<y, m>> \in R)
  BY <1>1, WFMin
<1>4. \A y \in T : ~ (y < m)
  BY <1>2, <1>3
<1> QED BY <1>4

\* Quotient and remainder.
LEMMA DivMod ==
  ASSUME NEW d \in Nat \ {0}, NEW a \in Int
  PROVE  a = d * (a \div d) + (a % d) /\ a \div d \in Int /\ a % d \in 0 .. (d - 1)
OBVIOUS

\* They are unique.
LEMMA DivModUnique ==
  ASSUME NEW d \in Nat \ {0}, NEW q \in Int, NEW r \in 0 .. (d - 1)
  PROVE  (d * q + r) % d = r /\ (d * q + r) \div d = q
<1>1. (d * q + r) % d = r
  OBVIOUS
<1>2. (d * q + r) \div d = q
  OBVIOUS
<1> QED BY <1>1, <1>2

\* Products: distributivity and order.
LEMMA Products ==
  ASSUME NEW d \in Int, NEW a \in Int, NEW b \in Int
  PROVE  /\ d * (a + b) = d * a + d * b /\ d * (a - b) = d * a - d * b
         /\ d * a \in Int /\ d * (a * b) = (d * a) * b
OBVIOUS

\* Multiplying by a positive number keeps the order.
LEMMA ProductOrder ==
  ASSUME NEW d \in Nat \ {0}, NEW a \in Int, NEW b \in Int
  PROVE  (a <= b <=> d * a <= d * b) /\ (a < b <=> d * a < d * b) /\ (a = b <=> d * a = d * b)
OBVIOUS

\* The remainder near zero: one turn up or down.
LEMMA ModNear ==
  ASSUME NEW m \in Nat \ {0}
  PROVE  /\ \A a \in 0 .. (m - 1) : a % m = a
         /\ \A a \in m .. (2 * m - 1) : a % m = a - m
         /\ \A a \in (-m) .. (-1) : a % m = a + m
<1>1. ASSUME NEW a \in 0 .. (m - 1) PROVE a % m = a
  OBVIOUS
<1>2. ASSUME NEW a \in m .. (2 * m - 1) PROVE a % m = a - m
  OBVIOUS
<1>3. ASSUME NEW a \in (-m) .. (-1) PROVE a % m = a + m
  OBVIOUS
<1> QED BY <1>1, <1>2, <1>3

\* A remainder of multiples of d is d times the remainder.
LEMMA ModScale ==
  ASSUME NEW d \in Nat \ {0}, NEW m \in Nat \ {0}, NEW x \in Int
  PROVE  (d * x) % (d * m) = d * (x % m)
<1> DEFINE q == x \div m
           r == x % m
<1>1. x = m * q + r /\ q \in Int /\ r \in 0 .. (m - 1)
  BY DivMod
<1> HIDE DEF q, r
<1>2. d * x = (d * m) * q + d * r
  <2>1. d * x = d * (m * q) + d * r
    BY <1>1, Products
  <2> QED BY <1>1, <2>1, Products
<1>3. d * m \in Nat \ {0} /\ d * r \in 0 .. (d * m - 1)
  <2>1. d * r \in Int /\ d * m \in Int /\ d * r < d * m /\ 0 <= d * r
    BY <1>1, ProductOrder, Products
  <2> QED BY <2>1
<1>4. (d * x) % (d * m) = d * r
  <2> DEFINE D == d * m
             R == d * r
  <2>1. D \in Nat \ {0} /\ R \in 0 .. (D - 1) /\ d * x = D * q + R
    BY <1>2, <1>3
  <2> HIDE DEF D, R
  <2>2. (D * q + R) % D = R
    BY <1>1, <2>1, DivModUnique
  <2>3. (d * x) % D = R
    BY <2>1, <2>2
  <2> QED BY <2>3 DEF D, R
<1> QED BY <1>4 DEF r

\* Of two moduli where one divides the other, the smaller one decides.
LEMMA ModMod ==
  ASSUME NEW c \in Nat \ {0}, NEW m \in Nat \ {0}, m % c = 0, NEW x \in Int
  PROVE  (x % m) % c = x % c
<1> DEFINE t == m \div c
           q == x \div m
           r == x % m
           q2 == r \div c
           r2 == r % c
<1>1. x = m * q + r /\ q \in Int /\ r \in 0 .. (m - 1)
  BY DivMod
<1>2. m = c * t /\ t \in Int
  BY DivMod
<1>3. r = c * q2 + r2 /\ q2 \in Int /\ r2 \in 0 .. (c - 1)
  BY <1>1, DivMod
<1> HIDE DEF t, q, r, q2, r2
<1>4. t * q \in Int /\ (c * t) * q = c * (t * q) /\ c * (t * q + q2) = c * (t * q) + c * q2
  <2>1. t * q \in Int
    BY <1>1, <1>2, Products
  <2> QED BY <1>1, <1>2, <1>3, <2>1, Products
<1>5. x = c * (t * q + q2) + r2
  BY <1>1, <1>2, <1>3, <1>4
<1>6. t * q + q2 \in Int
  BY <1>3, <1>4
<1>7. x % c = r2
  BY <1>3, <1>5, <1>6, DivModUnique
<1> QED BY <1>7 DEF r2, r

\* Less than one turn apart is not the same slot.
LEMMA ModDistinct ==
  ASSUME NEW c \in Nat \ {0}, NEW x \in Int, NEW y \in Int, x < y, y < x + c
  PROVE  x % c # y % c
<1> DEFINE q == x \div c
           r == x % c
<1>1. x = c * q + r /\ q \in Int /\ r \in 0 .. (c - 1) /\ c * q \in Int
  BY DivMod, Products
<1> HIDE DEF q, r
<1> DEFINE s == r + (y - x)
<1>2. y = c * q + s /\ s \in Int /\ r < s /\ s < r + c
  BY <1>1
<1> HIDE DEF s
<1>3. CASE s < c
  <2>1. s \in 0 .. (c - 1)
    BY <1>1, <1>2, <1>3
  <2>2. (c * q + s) % c = s
    BY <1>1, <2>1, DivModUnique
  <2> QED BY <1>1, <1>2, <2>2 DEF r
<1>4. CASE s >= c
  <2>1. c * (q + 1) = c * q + c
    BY <1>1, Products
  <2>2. y = c * (q + 1) + (s - c) /\ q + 1 \in Int /\ s - c \in 0 .. (c - 1)
    BY <1>1, <1>2, <1>4, <2>1
  <2>3. y % c = s - c
    <3>1. (c * (q + 1) + (s - c)) % c = s - c
      BY <2>2, DivModUnique
    <3> QED BY <2>2, <3>1
  <2>4. s - c # r
    BY <1>1, <1>2
  <2> QED BY <2>3, <2>4 DEF r
<1> QED BY <1>2, <1>3, <1>4
-----------------------------------------------------------------------------
(* Positions in entries *)

Places == UINT_MOD \div ENTRY   \* entries in one turn of the counters
Cap    == bytes \div ENTRY      \* entries in the buffer
In     == in \div ENTRY
Out    == out \div ENTRY
Count  == (In - Out) % Places   \* entries in the queue

\* A power of two divides UINT_MOD, which holds a whole number of entries.
LEMMA Moduli ==
  /\ UINT_MOD \in Nat \ {0} /\ ENTRY \in Nat \ {0}
  /\ Places \in Nat \ {0} /\ UINT_MOD = ENTRY * Places
<1>1. UINT_BITS \in Nat /\ ENTRY \in Nat \ {0}
  BY FifoAssumption
<1>2. UINT_MOD \in Powers
  BY <1>1 DEF Powers, UINT_MOD
<1>3. UINT_MOD \in Nat \ {0} /\ UINT_MOD % ENTRY = 0
  BY <1>2, FifoAssumption
<1>4. UINT_MOD = ENTRY * Places /\ Places \in Int
  BY <1>1, <1>3, DivMod DEF Places
<1>5. Places > 0
  BY <1>1, <1>3, <1>4, ProductOrder
<1> QED BY <1>1, <1>3, <1>4, <1>5

\* What kfifo_alloc sets up, whatever size was asked for: at least one entry,
\* a whole number of them, and a size that divides UINT_MOD.
LEMMA AllocShape ==
  ASSUME NEW size \in Int, AllocBytes(size) >= 2
  PROVE  \E c \in Nat \ {0} : /\ AllocBytes(size) = ENTRY * c
                              /\ c < Places /\ Places % c = 0
<1> DEFINE n == (size * ENTRY) % UINT_MOD
           p == CHOOSE p \in Powers : p >= n /\ \A q \in Powers : q >= n => p <= q
<1>1. n \in Nat /\ n < UINT_MOD /\ n = ENTRY * (size % Places) /\ size % Places \in Int
  <2>1. size * ENTRY = ENTRY * size /\ ENTRY * size \in Int
    BY Moduli, Products
  <2>2. n = ENTRY * (size % Places) /\ size % Places \in Int
    <3>1. (ENTRY * size) % (ENTRY * Places) = ENTRY * (size % Places)
      BY Moduli, ModScale
    <3>2. size % Places \in 0 .. (Places - 1)
      BY Moduli, DivMod
    <3> QED BY <2>1, <3>1, <3>2, Moduli
  <2>3. n \in 0 .. (UINT_MOD - 1)
    BY <2>1, Moduli, DivMod
  <2> QED BY <2>2, <2>3, Moduli
<1> HIDE DEF n
<1>2. n # 0 /\ AllocBytes(size) = p % UINT_MOD
  BY Moduli DEF AllocBytes, RoundUp, n
<1>3. n >= ENTRY
  <2> DEFINE z == size % Places
  <2>1. z \in Int /\ n = ENTRY * z
    BY <1>1
  <2> HIDE DEF z
  <2>2. ENTRY * 0 = 0 /\ ENTRY * 1 = ENTRY
    BY Moduli
  <2>3. 0 < z
    BY <1>1, <1>2, <2>1, <2>2, Moduli, ProductOrder
  <2>4. 1 <= z
    BY <2>1, <2>3
  <2> QED BY <2>1, <2>2, <2>4, Moduli, ProductOrder
<1>4. UINT_MOD \in Powers /\ Powers \subseteq Nat
  BY Moduli, FifoAssumption DEF Powers, UINT_MOD
<1>5. p \in Powers /\ p >= n /\ p <= UINT_MOD
  <2> DEFINE T == {q \in Powers : q >= n}
  <2>1. T \subseteq Nat /\ UINT_MOD \in T
    <3>1. UINT_MOD >= n
      BY <1>1, Moduli
    <3> QED BY <1>4, <3>1, Zenon
  <2>2. \E m \in T : \A q \in T : m <= q
    BY <2>1, LeastNat
  <2>3. \E m \in Powers : m >= n /\ \A q \in Powers : q >= n => m <= q
    BY <2>2
  <2>4. p \in Powers /\ p >= n /\ \A q \in Powers : q >= n => p <= q
    BY <2>3
  <2> QED BY <1>1, <1>4, <2>4, Moduli
<1> HIDE DEF p
<1>6. p \in Nat \ {0} /\ UINT_MOD % p = 0 /\ p % ENTRY = 0
  BY <1>1, <1>3, <1>4, <1>5, Moduli, FifoAssumption
<1>7. p < UINT_MOD /\ AllocBytes(size) = p
  <2>1. p # UINT_MOD
    <3>1. UINT_MOD % UINT_MOD = 0
      BY Moduli
    <3> QED BY <1>2, <3>1
  <2>2. p \in 0 .. (UINT_MOD - 1)
    BY <1>5, <1>6, <2>1, Moduli
  <2> QED BY <1>2, <2>2, Moduli, ModNear
<1>8. PICK c \in Int : p = ENTRY * c
  <2>1. p = ENTRY * (p \div ENTRY) + (p % ENTRY) /\ p \div ENTRY \in Int
    BY <1>6, Moduli, DivMod
  <2>2. ENTRY * (p \div ENTRY) \in Int
    BY <2>1, Moduli, Products
  <2>3. p = ENTRY * (p \div ENTRY)
    BY <1>6, <2>1, <2>2
  <2> QED BY <2>1, <2>3
<1>9. c \in Nat \ {0} /\ c < Places
  <2>1. ENTRY * 0 = 0
    BY Moduli
  <2>2. 0 < c /\ c < Places
    BY <1>6, <1>7, <1>8, <2>1, Moduli, ProductOrder
  <2> QED BY <2>2
<1>10. Places % c = 0
  <2>1. ENTRY * (Places % c) = 0
    <3>1. (ENTRY * Places) % (ENTRY * c) = ENTRY * (Places % c)
      <4>1. ENTRY \in Nat \ {0} /\ Places \in Int
        BY Moduli
      <4> QED BY <1>9, <4>1, ModScale, Zenon
    <3>2. UINT_MOD % p = (ENTRY * Places) % (ENTRY * c)
      BY <1>8, Moduli, Zenon
    <3> QED BY <1>6, <3>1, <3>2, Zenon
  <2>2. Places % c \in Int /\ ENTRY * 0 = 0
    BY <1>9, Moduli, DivMod
  <2> QED BY <2>1, <2>2, Moduli, ProductOrder
<1> QED BY <1>7, <1>8, <1>9, <1>10

\* The queue that a callback finds.
QueueInv ==
  /\ Cap \in Nat \ {0} /\ bytes = ENTRY * Cap /\ Cap < Places /\ Places % Cap = 0
  /\ In \in 0 .. (Places - 1) /\ in = ENTRY * In
  /\ Out \in 0 .. (Places - 1) /\ out = ENTRY * Out
  /\ Count <= Cap
  /\ buffer \in [0 .. (Cap - 1) -> Values \cup {0}]

\* kfifo's figures in entries.
LEMMA Figures ==
  ASSUME QueueInv
  PROVE  /\ Count \in 0 .. Cap
         /\ kfifo_len = ENTRY * Count /\ kfifo_len \div ENTRY = Count
         /\ kfifo_avail = ENTRY * (Cap - Count) /\ kfifo_avail \div ENTRY = Cap - Count
         /\ kfifo_is_empty <=> Count = 0
         /\ kfifo_is_full <=> Count = Cap
         /\ kfifo_len < ENTRY <=> Count = 0
         /\ kfifo_avail < ENTRY <=> Count = Cap
<1> DEFINE d == ENTRY
           m == Places
           n == Count
           c == Cap
<1>1. d \in Nat \ {0} /\ m \in Nat \ {0} /\ UINT_MOD = d * m
  BY Moduli
<1>2. /\ c \in Nat \ {0} /\ In \in Int /\ Out \in Int /\ in = d * In /\ out = d * Out /\ bytes = d * c
      /\ n <= c /\ In \in 0 .. (m - 1) /\ Out \in 0 .. (m - 1)
  BY <1>1 DEF QueueInv
<1>3. n \in 0 .. c
  BY <1>1, <1>2, DivMod DEF Count
<1>4. kfifo_len = d * n
  <2>1. in - out = d * (In - Out) /\ In - Out \in Int
    BY <1>1, <1>2, Products
  <2> QED BY <1>1, <2>1, ModScale DEF kfifo_len, Count
<1>5. kfifo_avail = d * (c - n)
  BY <1>1, <1>2, <1>3, <1>4, Products DEF kfifo_avail
<1>6. n = 0 <=> In = Out
  <2>1. CASE In >= Out
    <3>1. n = In - Out
      BY <1>1, <1>2, <2>1, ModNear DEF Count
    <3> QED BY <1>2, <3>1
  <2>2. CASE In < Out
    <3>1. In - Out \in (-m) .. (-1)
      BY <1>1, <1>2, <2>2
    <3>2. n = In - Out + m
      BY <1>1, <3>1, ModNear DEF Count
    <3> QED BY <1>1, <1>2, <2>2, <3>2
  <2> QED BY <1>2, <2>1, <2>2
<1>7. in = out <=> In = Out
  BY <1>1, <1>2, ProductOrder
<1> HIDE DEF d, m, n, c
<1>8. d * 1 = d /\ d * 0 = 0
  BY <1>1
<1>9. (d * n < d <=> n = 0) /\ (d * (c - n) < d <=> c = n)
  BY <1>1, <1>2, <1>3, <1>8, ProductOrder
<1>10. d * n > d * c - 1 <=> n = c
  <2>1. d * n \in Int /\ d * c \in Int /\ (d * n < d * c <=> n < c)
    BY <1>1, <1>2, <1>3, ProductOrder, Products
  <2> QED BY <1>2, <1>3, <2>1
<1>11. (d * n) \div d = n /\ (d * (c - n)) \div d = c - n
  <2>1. \A q \in Int : d * q + 0 = d * q /\ (d * q + 0) \div d = q
    BY <1>1, DivModUnique, Products
  <2>2. n \in Int /\ c - n \in Int
    BY <1>2, <1>3
  <2> QED BY <2>1, <2>2
<1> QED
  <2>1. kfifo_is_empty <=> n = 0
    BY <1>6, <1>7 DEF kfifo_is_empty
  <2>2. kfifo_is_full <=> n = c
    BY <1>2, <1>4, <1>10 DEF kfifo_is_full
  <2> QED BY <1>3, <1>4, <1>5, <1>9, <1>11, <2>1, <2>2 DEF d, n, c

\* The positions on the circle of m places: one step of either end.
LEMMA Turn ==
  ASSUME NEW m \in Nat \ {0}, NEW a \in 0 .. (m - 1), NEW b \in 0 .. (m - 1)
  PROVE  LET n == (a - b) % m
         IN  /\ n \in 0 .. (m - 1)
             /\ (b + n) % m = a
             /\ n + 1 < m => (((a + 1) % m) - b) % m = n + 1
             /\ n > 0 => (a - ((b + 1) % m)) % m = n - 1
<1> DEFINE n == (a - b) % m
<1>1. n = IF a >= b THEN a - b ELSE a - b + m
  <2>1. CASE a >= b
    BY <2>1, ModNear
  <2>2. CASE a < b
    <3>1. a - b \in (-m) .. (-1)
      BY <2>2
    <3> QED BY <2>2, <3>1, ModNear
  <2> QED BY <2>1, <2>2
<1>2. n \in 0 .. (m - 1)
  BY <1>1
<1> HIDE DEF n
<1>3. (b + n) % m = a
  <2>1. CASE a >= b
    BY <1>1, <2>1, ModNear
  <2>2. CASE a < b
    <3>1. b + n \in m .. (2 * m - 1) /\ b + n - m = a
      BY <1>1, <2>2
    <3> QED BY <1>2, <3>1, ModNear
  <2> QED BY <2>1, <2>2
<1>4. ASSUME NEW e \in 0 .. (m - 1) PROVE (e + 1) % m = IF e + 1 < m THEN e + 1 ELSE 0
  <2>1. CASE e + 1 < m
    BY <2>1, ModNear
  <2>2. CASE e + 1 = m
    <3>1. e + 1 \in m .. (2 * m - 1)
      BY <2>2
    <3>2. (e + 1) % m = e + 1 - m
      BY <3>1, ModNear
    <3> QED BY <2>2, <3>2
  <2> QED BY <2>1, <2>2
<1>5. \A x \in (-m + 1) .. (m - 1) : x % m = IF x >= 0 THEN x ELSE x + m
  <2> SUFFICES ASSUME NEW x \in (-m + 1) .. (m - 1) PROVE x % m = IF x >= 0 THEN x ELSE x + m
    OBVIOUS
  <2>1. CASE x >= 0
    BY <2>1, ModNear
  <2>2. CASE x < 0
    <3>1. x \in (-m) .. (-1)
      BY <2>2
    <3> QED BY <2>2, <3>1, ModNear
  <2> QED BY <2>1, <2>2
<1>6. ASSUME n + 1 < m PROVE (((a + 1) % m) - b) % m = n + 1
  <2> DEFINE e == (a + 1) % m
  <2>1. e = IF a + 1 < m THEN a + 1 ELSE 0
    BY <1>4
  <2> HIDE DEF e
  <2>2. e - b \in (-m + 1) .. (m - 1)
    BY <2>1
  <2>3. (e - b) % m = IF e - b >= 0 THEN e - b ELSE e - b + m
    BY <1>5, <2>2
  <2>4. (e - b) % m = n + 1
    BY <1>1, <1>6, <2>1, <2>3
  <2> QED BY <2>4 DEF e
<1>7. ASSUME n > 0 PROVE (a - ((b + 1) % m)) % m = n - 1
  <2> DEFINE e == (b + 1) % m
  <2>1. e = IF b + 1 < m THEN b + 1 ELSE 0
    BY <1>4
  <2> HIDE DEF e
  <2>2. a - e \in (-m + 1) .. (m - 1)
    BY <2>1
  <2>3. (a - e) % m = IF a - e >= 0 THEN a - e ELSE a - e + m
    BY <1>5, <2>2
  <2>4. (a - e) % m = n - 1
    BY <1>1, <1>7, <2>1, <2>3
  <2> QED BY <2>4 DEF e
<1> QED BY <1>2, <1>3, <1>6, <1>7 DEF n

\* The same for the positions of the queue.
LEMMA TurnQueue ==
  ASSUME In \in 0 .. (Places - 1), Out \in 0 .. (Places - 1)
  PROVE  /\ Count \in 0 .. (Places - 1)
         /\ (Out + Count) % Places = In
         /\ Count + 1 < Places => (((In + 1) % Places) - Out) % Places = Count + 1
         /\ Count > 0 => (In - ((Out + 1) % Places)) % Places = Count - 1
<1>1. \A m \in Nat \ {0} : \A a, b \in 0 .. (m - 1) :
        LET n == (a - b) % m
        IN  /\ n \in 0 .. (m - 1)
            /\ (b + n) % m = a
            /\ n + 1 < m => (((a + 1) % m) - b) % m = n + 1
            /\ n > 0 => (a - ((b + 1) % m)) % m = n - 1
  BY Turn, Zenon
<1>2. Places \in Nat \ {0}
  BY Moduli
<1> QED BY <1>1, <1>2, Zenon DEF Count

\* A position and its slot, counted in entries.
LEMMA SlotOf ==
  ASSUME QueueInv, NEW x \in Int
  PROVE  Slot((ENTRY * x) % UINT_MOD) = x % Cap /\ x % Cap \in 0 .. (Cap - 1)
<1>1. Cap \in Nat \ {0} /\ bytes = ENTRY * Cap /\ Places % Cap = 0
  BY DEF QueueInv
<1>2. (ENTRY * x) % UINT_MOD = ENTRY * (x % Places) /\ x % Places \in Int
  <2>1. (ENTRY * x) % (ENTRY * Places) = ENTRY * (x % Places)
    BY Moduli, ModScale
  <2>2. x % Places \in 0 .. (Places - 1)
    BY Moduli, DivMod
  <2> QED BY <2>1, <2>2, Moduli
<1> DEFINE y == x % Places
<1>3. y \in Int /\ y % Cap = x % Cap
  BY <1>1, <1>2, Moduli, ModMod
<1> HIDE DEF y
<1>4. (ENTRY * y) % (ENTRY * Cap) = ENTRY * (y % Cap) /\ y % Cap \in 0 .. (Cap - 1)
  <2>1. (ENTRY * y) % (ENTRY * Cap) = ENTRY * (y % Cap)
    BY <1>1, <1>3, Moduli, ModScale
  <2>2. y % Cap \in 0 .. (Cap - 1)
    BY <1>1, <1>3, DivMod
  <2> QED BY <2>1, <2>2
<1> DEFINE z == y % Cap
<1>5. z \in Int /\ (ENTRY * y) % bytes = ENTRY * z
  BY <1>1, <1>4
<1> HIDE DEF z
<1>6. (ENTRY * z) \div ENTRY = z
  <2>1. (ENTRY * z + 0) \div ENTRY = z /\ ENTRY * z \in Int
    BY <1>5, Moduli, DivModUnique, Products
  <2> QED BY <2>1
<1>7. Slot(ENTRY * y) = z
  BY <1>5, <1>6, Zenon DEF Slot
<1> QED BY <1>2, <1>3, <1>4, <1>7 DEF y, z

\* Where kfifo_in writes and kfifo_out reads.
LEMMA EndSlots ==
  ASSUME QueueInv
  PROVE  /\ Slot(in) = (Out + Count) % Cap /\ Slot(in) \in 0 .. (Cap - 1)
         /\ Slot(out) = Out % Cap /\ Slot(out) \in 0 .. (Cap - 1)
<1>1. /\ In \in 0 .. (Places - 1) /\ Out \in 0 .. (Places - 1) /\ in = ENTRY * In /\ out = ENTRY * Out
      /\ Count \in 0 .. Cap /\ Cap \in Nat \ {0} /\ Places % Cap = 0
  BY Figures DEF QueueInv
<1>2. ASSUME NEW x \in 0 .. (Places - 1) PROVE (ENTRY * x) % UINT_MOD = ENTRY * x
  <2>1. ENTRY * 0 = 0 /\ ENTRY * x \in Int /\ 0 <= ENTRY * x /\ ENTRY * x < ENTRY * Places
    BY Moduli, ProductOrder, Products
  <2>2. ENTRY * x \in 0 .. (UINT_MOD - 1)
    BY <2>1, Moduli
  <2> QED BY <2>2, Moduli, ModNear
<1>3. Slot(in) = In % Cap /\ In % Cap \in 0 .. (Cap - 1)
  <2>1. in = (ENTRY * In) % UINT_MOD /\ In \in Int
    BY <1>1, <1>2
  <2> QED BY <2>1, SlotOf
<1>4. Slot(out) = Out % Cap /\ Out % Cap \in 0 .. (Cap - 1)
  <2>1. out = (ENTRY * Out) % UINT_MOD /\ Out \in Int
    BY <1>1, <1>2
  <2> QED BY <2>1, SlotOf
<1>5. (Out + Count) % Cap = In % Cap
  <2>1. (Out + Count) % Places = In
    BY <1>1, TurnQueue
  <2>2. Out + Count \in Int
    BY <1>1
  <2>3. ((Out + Count) % Places) % Cap = (Out + Count) % Cap
    BY <1>1, <2>2, Moduli, ModMod
  <2> QED BY <2>1, <2>3
<1> QED BY <1>3, <1>4, <1>5

\* A position moves on by one entry.
LEMMA MoveOn ==
  ASSUME NEW x \in 0 .. (Places - 1)
  PROVE  /\ (ENTRY * x + ENTRY) % UINT_MOD = ENTRY * ((x + 1) % Places)
         /\ ((ENTRY * x + ENTRY) % UINT_MOD) \div ENTRY = (x + 1) % Places
         /\ (x + 1) % Places \in 0 .. (Places - 1)
<1>1. ENTRY * x + ENTRY = ENTRY * (x + 1) /\ x + 1 \in Int
  <2>1. ENTRY * (x + 1) = ENTRY * x + ENTRY * 1 /\ ENTRY * 1 = ENTRY
    BY Moduli, Products
  <2> QED BY <2>1
<1> DEFINE y == (x + 1) % Places
<1>2. (ENTRY * (x + 1)) % (ENTRY * Places) = ENTRY * y
  BY <1>1, Moduli, ModScale
<1>3. y \in 0 .. (Places - 1)
  BY <1>1, Moduli, DivMod
<1> HIDE DEF y
<1>4. (ENTRY * y) \div ENTRY = y
  <2>1. y \in Int
    BY <1>3
  <2>2. (ENTRY * y + 0) \div ENTRY = y /\ ENTRY * y \in Int
    BY <2>1, Moduli, DivModUnique, Products
  <2> QED BY <2>2
<1>5. (ENTRY * x + ENTRY) % UINT_MOD = ENTRY * y
  BY <1>1, <1>2, Moduli, Zenon
<1> QED BY <1>3, <1>4, <1>5 DEF y
-----------------------------------------------------------------------------
(* The inductive invariant *)

DeviceInv ==
  /\ phase \in {"absent", "loading", "device", "live", "failed", "going", "gone"}
  /\ dev \in {"null", "raw", "ready", "freed"}
  /\ phase = "device" <=> dev = "raw"
  /\ phase = "live" <=> dev = "ready"
  /\ phase = "going" <=> dev = "freed"
  /\ initial_size \in InitialSizes \cup {0}
  /\ max_size \in InitialSizes \cup {0}
  /\ dev \in {"raw", "ready"} => max_size > 0

CallInv ==
  /\ call \in [op : {"none", "enqueue", "clear"} \cup Readers \cup Queries,
               arg : Values \cup {0}]
  /\ call # Idle => dev = "ready"

NoQueueInv == bytes = 0 /\ in = 0 /\ out = 0 /\ buffer = <<>>

IInv == /\ DeviceInv /\ CallInv
        /\ dev = "ready" => QueueInv
        /\ dev # "ready" => NoQueueInv

\* kfifo_in of one entry into a queue with room.
LEMMA PutEntry ==
  ASSUME QueueInv, Count < Cap, NEW v \in Values \cup {0},
         in' = (in + ENTRY) % UINT_MOD, buffer' = [buffer EXCEPT ![Slot(in)] = v],
         UNCHANGED <<bytes, out>>
  PROVE  QueueInv' /\ Count' = Count + 1 /\ Cap' = Cap /\ Out' = Out
<1>1. /\ In \in 0 .. (Places - 1) /\ Out \in 0 .. (Places - 1) /\ in = ENTRY * In /\ out = ENTRY * Out
      /\ Count \in 0 .. Cap /\ Cap \in Nat \ {0} /\ Cap < Places
  BY Figures DEF QueueInv
<1>2. Cap' = Cap /\ Out' = Out
  BY DEF Cap, Out
<1>3. in' = ENTRY * In' /\ In' = (In + 1) % Places /\ In' \in 0 .. (Places - 1)
  <2>1. /\ in' = ENTRY * ((In + 1) % Places) /\ in' \div ENTRY = (In + 1) % Places
        /\ (In + 1) % Places \in 0 .. (Places - 1)
    BY <1>1, MoveOn
  <2>2. In' = in' \div ENTRY
    BY DEF In
  <2> QED BY <2>1, <2>2
<1>4. Count' = Count + 1
  <2>1. Count + 1 < Places
    BY <1>1, Moduli
  <2>2. (((In + 1) % Places) - Out) % Places = Count + 1
    BY <1>1, <2>1, TurnQueue
  <2>3. Count' = (In' - Out') % Places
    BY DEF Count
  <2> QED BY <1>2, <1>3, <2>2, <2>3
<1>5. buffer' \in [0 .. (Cap - 1) -> Values \cup {0}]
  BY EndSlots DEF QueueInv
<1>6. Count' <= Cap
  BY <1>1, <1>4
<1> QED BY <1>2, <1>3, <1>4, <1>5, <1>6 DEF QueueInv

\* kfifo_out of one entry.
LEMMA TakeEntry ==
  ASSUME QueueInv, Count > 0, out' = (out + ENTRY) % UINT_MOD, UNCHANGED <<bytes, in, buffer>>
  PROVE  /\ QueueInv' /\ Count' = Count - 1 /\ Cap' = Cap
         /\ Out' = (Out + 1) % Places
<1>1. /\ In \in 0 .. (Places - 1) /\ Out \in 0 .. (Places - 1) /\ in = ENTRY * In /\ out = ENTRY * Out
      /\ Count \in 0 .. Cap /\ Cap \in Nat \ {0} /\ Cap < Places
  BY Figures DEF QueueInv
<1>2. Cap' = Cap /\ In' = In
  BY DEF Cap, In
<1>3. out' = ENTRY * Out' /\ Out' = (Out + 1) % Places /\ Out' \in 0 .. (Places - 1)
  <2>1. /\ out' = ENTRY * ((Out + 1) % Places) /\ out' \div ENTRY = (Out + 1) % Places
        /\ (Out + 1) % Places \in 0 .. (Places - 1)
    BY <1>1, MoveOn
  <2>2. Out' = out' \div ENTRY
    BY DEF Out
  <2> QED BY <2>1, <2>2
<1>4. Count' = Count - 1
  <2>1. (In - ((Out + 1) % Places)) % Places = Count - 1
    BY <1>1, TurnQueue
  <2>2. Count' = (In' - Out') % Places
    BY DEF Count
  <2>3. In' = In /\ Out' = (Out + 1) % Places
    BY <1>2, <1>3
  <2>4. Count' = (In - ((Out + 1) % Places)) % Places
    BY <2>2, <2>3, Zenon
  <2> QED BY <2>1, <2>4, Zenon
<1>5. Count' <= Cap
  BY <1>1, <1>4
<1> QED BY <1>2, <1>3, <1>4, <1>5 DEF QueueInv

\* An empty queue at the start of its buffer.
LEMMA EmptyQueue ==
  ASSUME NEW c \in Nat \ {0}, bytes' = ENTRY * c, c < Places, Places % c = 0,
         in' = 0, out' = 0, buffer' \in [0 .. (c - 1) -> Values \cup {0}]
  PROVE  QueueInv' /\ Count' = 0 /\ Cap' = c
<1>1. Cap' = c
  <2>1. (ENTRY * c + 0) \div ENTRY = c /\ ENTRY * c \in Int
    BY Moduli, DivModUnique, Products
  <2> QED BY <2>1 DEF Cap
<1>2. In' = 0 /\ Out' = 0 /\ ENTRY * 0 = 0
  <2>1. ENTRY * 0 = 0 /\ (ENTRY * 0 + 0) \div ENTRY = 0
    BY Moduli, DivModUnique
  <2> QED BY <2>1 DEF In, Out
<1>3. Count' = 0
  <2>1. 0 % Places = 0
    BY Moduli, ModNear
  <2>2. Count' = (In' - Out') % Places
    BY DEF Count
  <2> QED BY <1>2, <2>1, <2>2
<1> QED BY <1>1, <1>2, <1>3, Moduli DEF QueueInv

\* The loader's steps.
LEMMA LoaderIInv ==
  ASSUME ~RacyLifecycle, IInv, Loader
  PROVE  IInv'
<1> USE DEF DeviceInv, CallInv, NoQueueInv
<1>1. CASE Insmod
  BY <1>1 DEF Insmod, IInv, kfifo, QueueInv, Count, Cap, In, Out
<1>2. CASE InitDevice
  BY <1>2 DEF InitDevice, IInv, kfifo
<1>3. CASE InitQueue
  <2>1. CASE phase' = "failed"
    BY <1>3, <2>1 DEF InitQueue, IInv, kfifo
  <2>2. CASE phase' # "failed"
    <3>1. /\ AllocBytes(max_size) >= 2 /\ phase' = "live" /\ dev' = "ready" /\ max_size \in Int
          /\ bytes' = AllocBytes(max_size) /\ in' = 0 /\ out' = 0 /\ UNCHANGED <<max_size, initial_size, call>>
          /\ buffer' = [s \in 0 .. (bytes' \div ENTRY - 1) |-> 0]
      BY <1>3, <2>2, FifoAssumption DEF InitQueue, IInv
    <3>2. PICK c \in Nat \ {0} : AllocBytes(max_size) = ENTRY * c /\ c < Places /\ Places % c = 0
      BY <3>1, AllocShape
    <3>3. (ENTRY * c) \div ENTRY = c
      <4>1. (ENTRY * c + 0) \div ENTRY = c /\ ENTRY * c \in Int
        BY Moduli, DivModUnique, Products
      <4> QED BY <4>1
    <3>4. buffer' \in [0 .. (c - 1) -> Values \cup {0}]
      <4>1. bytes' \div ENTRY = c
        BY <3>1, <3>2, <3>3
      <4> QED BY <3>1, <4>1
    <3>5. QueueInv'
      BY <3>1, <3>2, <3>4, EmptyQueue
    <3> QED BY <1>3, <3>1, <3>5 DEF InitQueue, IInv
  <2> QED BY <2>1, <2>2
<1>4. CASE CleanupQueue
  BY <1>4 DEF CleanupQueue, IInv
<1>5. CASE CleanupDevice
  BY <1>5 DEF CleanupDevice, IInv, kfifo
<1>6. CASE Teardown
  BY <1>6 DEF Teardown, IInv, kfifo
<1> QED BY <1>1, <1>2, <1>3, <1>4, <1>5, <1>6 DEF Loader

\* The start of a callback.
LEMMA EnterIInv ==
  ASSUME ~RacyLifecycle, IInv,
         \/ \E v \in Values : Enter("enqueue", v)
         \/ \E op \in Readers \cup Queries \cup {"clear"} : Enter(op, 0)
         \/ EnqueueText
  PROVE  IInv'
<1>1. UNCHANGED <<phase, initial_size, dev, max_size, bytes, in, out, buffer>>
  BY DEF Enter, EnqueueText, module_vars, kfifo
<1>2. CallInv'
  <2>1. CASE UNCHANGED call
    BY <1>1, <2>1 DEF IInv, CallInv
  <2>2. CASE call' # call
    <3>1. dev = "ready"
      BY <2>2 DEF Enter, EnqueueText, Callable, IInv, DeviceInv
    <3>2. call' \in [op : {"none", "enqueue", "clear"} \cup Readers \cup Queries, arg : Values \cup {0}]
      BY <2>2 DEF Enter, EnqueueText
    <3> QED BY <1>1, <3>1, <3>2 DEF CallInv
  <2> QED BY <2>1, <2>2
<1>3. DeviceInv' /\ (dev' = "ready" => QueueInv') /\ (dev' # "ready" => NoQueueInv')
  BY <1>1 DEF IInv, DeviceInv, QueueInv, NoQueueInv, Count, Cap, In, Out
<1> QED BY <1>2, <1>3 DEF IInv

\* A callback that uses the queue finds it; it is over afterwards.
LEMMA InUse ==
  ASSUME IInv, Use
  PROVE  /\ dev = "ready" /\ QueueInv /\ call # Idle
         /\ call' = Idle /\ UNCHANGED <<phase, initial_size, dev, max_size, bytes>>
<1>1. call # Idle
  BY DEF Use, Enqueue, Dequeue, Peek, Query, Clear, Idle
<1>2. call' = Idle /\ UNCHANGED <<phase, initial_size, dev, max_size, bytes>>
  BY DEF Use, Enqueue, Dequeue, Peek, Query, Clear, Finish, module_vars, kfifo
<1> QED BY <1>1, <1>2 DEF IInv, CallInv

\* What each callback does to the queue, counted in entries.
LEMMA UseEffect ==
  ASSUME IInv, Use
  PROVE  /\ QueueInv'
         /\ Enqueue => \/ Count = Cap /\ UNCHANGED <<in, buffer>> /\ answer' = <<"refused">>
                       \/ /\ Count < Cap /\ in' = (in + ENTRY) % UINT_MOD /\ answer' = <<"ok">>
                          /\ buffer' = [buffer EXCEPT ![Slot(in)] = call.arg]
         /\ Dequeue => \/ Count = 0 /\ UNCHANGED out /\ answer' = Shown(FIFO_EMPTY)
                       \/ /\ Count > 0 /\ out' = (out + ENTRY) % UINT_MOD
                          /\ answer' = Shown(buffer[Slot(out)])
<1>1. QueueInv /\ UNCHANGED bytes /\ call.arg \in Values \cup {0}
  BY InUse DEF IInv, CallInv
<1>2. /\ Count \in 0 .. Cap /\ Cap \in Nat \ {0}
      /\ (kfifo_is_empty <=> Count = 0) /\ (kfifo_is_full <=> Count = Cap)
      /\ (kfifo_len < ENTRY <=> Count = 0) /\ (kfifo_avail < ENTRY <=> Count = Cap)
      /\ kfifo_len \in Int /\ kfifo_avail \in Int /\ ENTRY \in Int
  <2>1. ENTRY * Count \in Int /\ ENTRY * (Cap - Count) \in Int
    BY <1>1, Figures, Moduli, Products DEF QueueInv
  <2> QED BY <1>1, <2>1, Figures, Moduli DEF QueueInv
<1>3. ASSUME Enqueue
      PROVE  /\ UNCHANGED out
             /\ \/ Count = Cap /\ UNCHANGED <<in, buffer>> /\ answer' = <<"refused">>
                \/ /\ Count < Cap /\ in' = (in + ENTRY) % UINT_MOD /\ answer' = <<"ok">>
                   /\ buffer' = [buffer EXCEPT ![Slot(in)] = call.arg]
  BY <1>2, <1>3 DEF Enqueue, Finish
<1>4. ASSUME Dequeue
      PROVE  /\ UNCHANGED <<in, buffer>>
             /\ \/ Count = 0 /\ UNCHANGED out /\ answer' = Shown(FIFO_EMPTY)
                \/ /\ Count > 0 /\ out' = (out + ENTRY) % UINT_MOD
                   /\ answer' = Shown(buffer[Slot(out)])
  BY <1>2, <1>4 DEF Dequeue, Finish, kfifo_is_empty
<1>5. ASSUME UNCHANGED <<in, out, buffer>> PROVE QueueInv'
  BY <1>1, <1>5 DEF QueueInv, Count, Cap, In, Out
<1>6. CASE Enqueue
  <2>1. QueueInv'
    BY <1>1, <1>3, <1>5, <1>6, PutEntry
  <2>2. ~Dequeue
    BY <1>6 DEF Enqueue, Dequeue
  <2> QED BY <1>3, <1>6, <2>1, <2>2
<1>7. CASE Dequeue
  <2>1. QueueInv'
    BY <1>1, <1>4, <1>5, <1>7, TakeEntry
  <2>2. ~Enqueue
    BY <1>7 DEF Enqueue, Dequeue
  <2> QED BY <1>4, <1>7, <2>1, <2>2
<1>8. CASE Peek \/ Query
  <2>1. QueueInv'
    BY <1>5, <1>8 DEF Peek, Query, kfifo
  <2>2. ~Enqueue /\ ~Dequeue
    BY <1>8 DEF Enqueue, Dequeue, Peek, Query
  <2> QED BY <2>1, <2>2
<1>9. CASE Clear
  <2>1. bytes' = ENTRY * Cap /\ Cap < Places /\ Places % Cap = 0 /\ Cap \in Nat \ {0} /\ in' = 0 /\ out' = 0
        /\ buffer' \in [0 .. (Cap - 1) -> Values \cup {0}]
    BY <1>1, <1>9 DEF Clear, QueueInv
  <2>2. QueueInv'
    BY <2>1, EmptyQueue
  <2>3. ~Enqueue /\ ~Dequeue
    BY <1>9 DEF Enqueue, Dequeue, Clear
  <2> QED BY <2>2, <2>3
<1> QED BY <1>6, <1>7, <1>8, <1>9 DEF Use

\* Every step keeps the invariant.
LEMMA NextIInv ==
  ASSUME ~RacyLifecycle, IInv, [Next]_vars
  PROVE  IInv'
<1>1. CASE Loader
  BY <1>1, LoaderIInv
<1>2. CASE Use
  <2>1. DeviceInv' /\ CallInv' /\ dev' = "ready"
    BY <1>2, InUse DEF IInv, DeviceInv, CallInv, Idle
  <2> QED BY <1>2, <2>1, UseEffect DEF IInv
<1>3. CASE UNCHANGED vars
  BY <1>3 DEF vars, kfifo, IInv, DeviceInv, CallInv, QueueInv, NoQueueInv, Count, Cap, In, Out
<1>4. CASE \/ \E v \in Values : Enter("enqueue", v)
           \/ \E op \in Readers \cup Queries \cup {"clear"} : Enter(op, 0)
           \/ EnqueueText
  BY <1>4, EnterIInv
<1> QED BY <1>1, <1>2, <1>3, <1>4 DEF Next

\* The invariant holds from the start.
LEMMA InitIInv == Init => IInv
<1> SUFFICES ASSUME Init PROVE IInv
  OBVIOUS
<1> QED BY DEF Init, IInv, DeviceInv, CallInv, NoQueueInv, Idle, Readers, Queries

\* The device, the call and the queue stay in step: positions and sizes are whole
\* numbers of entries, and callbacks meet an allocated queue.
THEOREM FifoInvariance ==
  ASSUME ~RacyLifecycle
  PROVE  Spec => []IInv
<1>1. IInv /\ [Next]_vars => IInv'
  BY NextIInv
<1> QED BY <1>1, InitIInv, PTL DEF Spec

\* Every variable of the module and of its kfifo keeps its type, whatever size
\* the user asks for.
THEOREM FifoTypeCorrect ==
  ASSUME ~RacyLifecycle
  PROVE  Spec => []TypeOK
<1>1. IInv => TypeOK
  <2> SUFFICES ASSUME IInv PROVE TypeOK
    OBVIOUS
  <2>1. /\ bytes \in 0 .. (UINT_MOD - 1) /\ in \in 0 .. (UINT_MOD - 1) /\ out \in 0 .. (UINT_MOD - 1)
        /\ buffer \in [Slots -> Values \cup {0}]
    <3>1. CASE dev = "ready"
      <4>1. QueueInv
        BY <3>1 DEF IInv
      <4>2. ASSUME NEW x \in 0 .. (Places - 1) PROVE ENTRY * x \in 0 .. (UINT_MOD - 1)
        <5>1. ENTRY * 0 = 0 /\ ENTRY * x \in Int /\ 0 <= ENTRY * x /\ ENTRY * x < ENTRY * Places
          BY Moduli, ProductOrder, Products
        <5> QED BY <5>1, Moduli
      <4>3. Cap \in 0 .. (Places - 1) /\ bytes = ENTRY * Cap
        BY <4>1, Moduli DEF QueueInv
      <4>4. Slots = 0 .. (Cap - 1)
        BY DEF Slots, Cap
      <4> QED BY <4>1, <4>2, <4>3, <4>4 DEF QueueInv
    <3>2. CASE dev # "ready"
      <4>1. bytes = 0 /\ in = 0 /\ out = 0 /\ buffer = <<>>
        BY <3>2 DEF IInv, NoQueueInv
      <4>2. Slots = {}
        <5>1. 0 \div ENTRY = 0
          BY Moduli
        <5> QED BY <4>1, <5>1 DEF Slots
      <4> QED BY <4>1, <4>2, Moduli
    <3> QED BY <3>1, <3>2
  <2> QED BY <2>1 DEF IInv, DeviceInv, CallInv, TypeOK
<1> QED BY <1>1, FifoInvariance, PTL

\* No entry is torn and none is overwritten before it is read, however often the
\* positions wrap.
THEOREM EntriesNeverTorn ==
  ASSUME ~RacyLifecycle
  PROVE  Spec => []EntriesWhole
<1>1. IInv => EntriesWhole
  <2> SUFFICES ASSUME IInv PROVE EntriesWhole
    OBVIOUS
  <2>1. CASE dev = "ready"
    <3>1. QueueInv
      BY <2>1 DEF IInv
    <3>2. /\ Count \in 0 .. Cap /\ kfifo_len = ENTRY * Count /\ Cap \in Nat \ {0}
          /\ bytes = ENTRY * Cap
      BY <3>1, Figures DEF QueueInv
    <3>3. ENTRY * Count <= ENTRY * Cap
      BY <3>2, Moduli, ProductOrder
    <3>4. \A q \in Int : (ENTRY * q) % ENTRY = 0
      <4> SUFFICES ASSUME NEW q \in Int PROVE (ENTRY * q) % ENTRY = 0
        OBVIOUS
      <4>1. 0 \in 0 .. (ENTRY - 1)
        BY Moduli
      <4>2. (ENTRY * q + 0) % ENTRY = 0 /\ ENTRY * q \in Int
        BY <4>1, Moduli, DivModUnique, Products
      <4> QED BY <4>2
    <3> QED BY <3>2, <3>3, <3>4 DEF EntriesWhole
  <2>2. CASE dev # "ready"
    <3>1. bytes = 0 /\ in = 0 /\ out = 0
      BY <2>2 DEF IInv, NoQueueInv
    <3>2. 0 % UINT_MOD = 0 /\ 0 % ENTRY = 0
      BY Moduli, ModNear
    <3> QED BY <3>1, <3>2 DEF EntriesWhole, kfifo_len
  <2> QED BY <2>1, <2>2
<1> QED BY <1>1, FifoInvariance, PTL

\* A callback past its test of fifo_dev finds the queue allocated, and a module
\* that is out or failed to load owns no memory.
THEOREM QueueOwned ==
  ASSUME ~RacyLifecycle
  PROVE  Spec => []QueueThere
<1>1. IInv => QueueThere
  BY DEF IInv, DeviceInv, CallInv, QueueThere
<1> QED BY <1>1, FifoInvariance, PTL
-----------------------------------------------------------------------------
(* The module implements FifoSpec *)

QueueShape ==
  dev = "ready" /\ QueueInv =>
    /\ Count \in Nat /\ Cap \in Nat \ {0} /\ Count <= Cap
    /\ Queue = [k \in 1 .. Count |-> buffer[(Out + (k - 1)) % Cap]]
    /\ \A k \in 1 .. Count : buffer[(Out + (k - 1)) % Cap] \in Values \cup {0}

\* The queue between out and in, counted in entries.
LEMMA QueueIs == QueueShape
<1> SUFFICES ASSUME dev = "ready", QueueInv
             PROVE  /\ Count \in Nat /\ Cap \in Nat \ {0} /\ Count <= Cap
                    /\ Queue = [k \in 1 .. Count |-> buffer[(Out + (k - 1)) % Cap]]
                    /\ \A k \in 1 .. Count : buffer[(Out + (k - 1)) % Cap] \in Values \cup {0}
  BY DEF QueueShape
<1>1. /\ Count \in 0 .. Cap /\ Cap \in Nat \ {0} /\ kfifo_len \div ENTRY = Count
      /\ Out \in 0 .. (Places - 1) /\ out = ENTRY * Out
  BY Figures DEF QueueInv
<1>2. ASSUME NEW k \in 1 .. Count
      PROVE  /\ Slot((out + (k - 1) * ENTRY) % UINT_MOD) = (Out + (k - 1)) % Cap
             /\ (Out + (k - 1)) % Cap \in 0 .. (Cap - 1)
  <2>1. Out \in Int /\ k - 1 \in Int /\ Out + (k - 1) \in Int
    BY <1>1, Moduli
  <2>2. out + (k - 1) * ENTRY = ENTRY * (Out + (k - 1))
    <3>1. ENTRY * (Out + (k - 1)) = ENTRY * Out + ENTRY * (k - 1)
      BY <2>1, Moduli, Products
    <3>2. (k - 1) * ENTRY = ENTRY * (k - 1)
      BY <2>1, Moduli
    <3> QED BY <1>1, <3>1, <3>2
  <2> QED BY <2>1, <2>2, SlotOf
<1>3. Queue = [k \in 1 .. Count |-> buffer[(Out + (k - 1)) % Cap]]
  BY <1>1, <1>2 DEF Queue
<1>4. buffer \in [0 .. (Cap - 1) -> Values \cup {0}]
  BY DEF QueueInv
<1> QED BY <1>1, <1>2, <1>3, <1>4

\* The same after a step.
LEMMA QueueIsNext == QueueShape'
BY QueueIs, PTL

\* The queue is a sequence of values, oldest first.
LEMMA QueueSeq ==
  ASSUME NEW b, NEW c \in Nat \ {0}, NEW o \in Int, NEW n \in Nat, NEW S,
         \A k \in 1 .. n : b[(o + (k - 1)) % c] \in S,
         NEW q, q = [k \in 1 .. n |-> b[(o + (k - 1)) % c]]
  PROVE  q \in Seq(S) /\ Len(q) = n /\ (q = <<>> <=> n = 0)
<1>1. q \in [1 .. n -> S]
  OBVIOUS
<1>2. q \in Seq(S) /\ Len(q) = n
  BY <1>1
<1>3. q = <<>> <=> n = 0
  BY <1>2, EmptySeq
<1> QED BY <1>2, <1>3

AbsOpen == dev = "ready"
AbsCap  == IF dev = "ready" THEN bytes \div ENTRY ELSE 0

\* An enqueue that has room appends.
LEMMA AppendsEntry ==
  ASSUME IInv, Enqueue, Count < Cap
  PROVE  Queue' = Append(Queue, call.arg) /\ answer' = <<"ok">> /\ Len(Queue) < AbsCap
<1>1. Use
  BY DEF Use
<1>2. dev = "ready" /\ dev' = "ready" /\ QueueInv /\ call.arg \in Values \cup {0}
  BY <1>1, InUse DEF IInv, CallInv
<1>3. /\ answer' = <<"ok">> /\ in' = (in + ENTRY) % UINT_MOD /\ UNCHANGED <<bytes, out>>
      /\ buffer' = [buffer EXCEPT ![Slot(in)] = call.arg]
  <2>1. Cap \in Nat /\ Count \in 0 .. Cap
    BY <1>2, Figures DEF QueueInv
  <2> QED BY <1>1, <2>1, UseEffect DEF Enqueue
<1>4. QueueInv' /\ Count' = Count + 1 /\ Cap' = Cap /\ Out' = Out
  BY <1>2, <1>3, PutEntry
<1>5. /\ Count \in Nat /\ Cap \in Nat \ {0}
      /\ Queue = [k \in 1 .. Count |-> buffer[(Out + (k - 1)) % Cap]]
      /\ \A k \in 1 .. Count : buffer[(Out + (k - 1)) % Cap] \in Values \cup {0}
  BY <1>2, QueueIs DEF QueueShape
<1>6. /\ Queue' = [k \in 1 .. (Count + 1) |-> buffer'[(Out + (k - 1)) % Cap]]
      /\ \A k \in 1 .. (Count + 1) : buffer'[(Out + (k - 1)) % Cap] \in Values \cup {0}
  BY <1>2, <1>4, QueueIsNext DEF QueueShape
<1>7. Slot(in) = (Out + Count) % Cap /\ Out \in Int /\ Slot(in) \in 0 .. (Cap - 1)
      /\ buffer \in [0 .. (Cap - 1) -> Values \cup {0}]
  BY <1>2, EndSlots, Moduli DEF QueueInv
<1>8. /\ Queue \in Seq(Values \cup {0}) /\ Len(Queue) = Count
      /\ Queue' \in Seq(Values \cup {0}) /\ Len(Queue') = Count + 1
  BY <1>5, <1>6, <1>7, QueueSeq
<1>9. ASSUME NEW k \in 1 .. Count PROVE Queue'[k] = Queue[k]
  <2> DEFINE x == Out + (k - 1)
  <2>1. x \in Int /\ Out + Count \in Int /\ x < Out + Count /\ Out + Count < x + Cap
    BY <1>5, <1>7
  <2>2. x % Cap # (Out + Count) % Cap
    BY <1>5, <2>1, ModDistinct
  <2>3. x % Cap \in 0 .. (Cap - 1)
    BY <1>5, <2>1, DivMod
  <2>4. buffer'[x % Cap] = buffer[x % Cap]
    BY <1>3, <1>7, <2>2, <2>3
  <2> QED BY <1>5, <1>6, <2>4
<1>10. Queue'[Count + 1] = call.arg
  <2>1. Out + (Count + 1 - 1) = Out + Count /\ Count + 1 \in 1 .. (Count + 1)
    BY <1>5, <1>7
  <2>2. Queue'[Count + 1] = buffer'[(Out + Count) % Cap]
    <3> DEFINE n == Count + 1
    <3>1. n \in 1 .. n /\ Out + (n - 1) = Out + Count /\ Queue' = [k \in 1 .. n |-> buffer'[(Out + (k - 1)) % Cap]]
      BY <1>5, <1>6, <1>7, <2>1
    <3> HIDE DEF n
    <3>2. Queue'[n] = buffer'[(Out + (n - 1)) % Cap]
      BY <3>1
    <3> QED BY <3>1, <3>2 DEF n
  <2> QED BY <1>3, <1>7, <2>2
<1>11. Queue' = Append(Queue, call.arg)
  <2>1. /\ Append(Queue, call.arg) \in Seq(Values \cup {0})
        /\ Len(Append(Queue, call.arg)) = Count + 1
        /\ \A k \in 1 .. Count : Append(Queue, call.arg)[k] = Queue[k]
        /\ Append(Queue, call.arg)[Count + 1] = call.arg
    <3> DEFINE q == Queue
               v == call.arg
    <3>1. q \in Seq(Values \cup {0}) /\ v \in Values \cup {0} /\ Len(q) = Count
      BY <1>2, <1>8
    <3> HIDE DEF q, v
    <3>2. /\ Append(q, v) \in Seq(Values \cup {0}) /\ Len(Append(q, v)) = Len(q) + 1
          /\ \A k \in 1 .. Len(q) : Append(q, v)[k] = q[k]
          /\ Append(q, v)[Len(q) + 1] = v
      BY <3>1, AppendProperties
    <3> QED BY <3>1, <3>2 DEF q, v
  <2>2. \A k \in 1 .. (Count + 1) : k \in 1 .. Count \/ k = Count + 1
    BY <1>5
  <2>3. \A k \in 1 .. (Count + 1) : Queue'[k] = Append(Queue, call.arg)[k]
    BY <1>9, <1>10, <2>1, <2>2
  <2> QED BY <1>8, <2>1, <2>3, SeqEqual
<1>12. Len(Queue) < AbsCap
  BY <1>2, <1>8 DEF AbsCap, Cap
<1> QED BY <1>3, <1>11, <1>12

\* A position may wrap before it is mapped to its slot.
LEMMA ModShift ==
  ASSUME NEW c \in Nat \ {0}, NEW m \in Nat \ {0}, m % c = 0, NEW x \in Int, NEW y \in Int
  PROVE  ((x % m) + y) % c = (x + y) % c
<1> DEFINE t == m \div c
           q == x \div m
           z == (x % m) + y
           q2 == z \div c
           r2 == z % c
<1>1. x = m * q + (x % m) /\ q \in Int /\ x % m \in Int /\ z \in Int
  BY DivMod
<1>2. m = c * t /\ t \in Int
  BY DivMod
<1>3. z = c * q2 + r2 /\ q2 \in Int /\ r2 \in 0 .. (c - 1)
  BY <1>1, DivMod
<1>4. x + y = m * q + z
  <2>1. m * q \in Int
    BY <1>1, Products
  <2> QED BY <1>1, <2>1
<1> HIDE DEF t, q, z, q2, r2
<1>5. t * q \in Int /\ (c * t) * q = c * (t * q) /\ c * (t * q + q2) = c * (t * q) + c * q2
  <2>1. t * q \in Int
    BY <1>1, <1>2, Products
  <2> QED BY <1>1, <1>2, <1>3, <2>1, Products
<1>6. x + y = c * (t * q + q2) + r2 /\ t * q + q2 \in Int
  BY <1>2, <1>3, <1>4, <1>5
<1>7. (x + y) % c = r2
  BY <1>3, <1>6, DivModUnique
<1> QED BY <1>7 DEF r2, z

\* A dequeue or a peek of a queue that is not empty shows its head.
LEMMA OldestEntry ==
  ASSUME dev = "ready", QueueInv, Count > 0
  PROVE  /\ Queue # <<>> /\ Head(Queue) = buffer[Slot(out)] /\ Head(Queue) \in Values \cup {0}
<1>1. /\ Count \in Nat /\ Cap \in Nat \ {0}
      /\ Queue = [k \in 1 .. Count |-> buffer[(Out + (k - 1)) % Cap]]
      /\ \A k \in 1 .. Count : buffer[(Out + (k - 1)) % Cap] \in Values \cup {0}
  BY QueueIs DEF QueueShape
<1>2. Slot(out) = Out % Cap /\ Out \in Int
  BY EndSlots, Moduli DEF QueueInv
<1>3. Queue \in Seq(Values \cup {0}) /\ Len(Queue) = Count /\ Queue # <<>>
  BY <1>1, <1>2, QueueSeq
<1>4. Queue[1] = buffer[Slot(out)] /\ Queue[1] \in Values \cup {0}
  <2>1. 1 \in 1 .. Count /\ Out + (1 - 1) = Out
    BY <1>1, <1>2
  <2> QED BY <1>1, <1>2, <2>1
<1>5. Head(Queue) = Queue[1]
  BY <1>3, HeadTailProperties
<1> QED BY <1>3, <1>4, <1>5

\* A dequeue removes the head.
LEMMA RemovesEntry ==
  ASSUME IInv, Dequeue, Count > 0
  PROVE  Queue' = Tail(Queue) /\ answer' = Shown(Head(Queue)) /\ Queue # <<>>
         /\ Head(Queue) \in Values \cup {0}
<1>1. Use
  BY DEF Use
<1>2. dev = "ready" /\ dev' = "ready" /\ QueueInv
  BY <1>1, InUse
<1>3. /\ answer' = Shown(buffer[Slot(out)]) /\ out' = (out + ENTRY) % UINT_MOD
      /\ UNCHANGED <<bytes, in, buffer>>
  <2>1. Cap \in Nat /\ Count \in 0 .. Cap
    BY <1>2, Figures DEF QueueInv
  <2> QED BY <1>1, <2>1, UseEffect DEF Dequeue
<1>4. QueueInv' /\ Count' = Count - 1 /\ Cap' = Cap /\ Out' = (Out + 1) % Places
  BY <1>2, <1>3, TakeEntry
<1>5. /\ Count \in Nat /\ Cap \in Nat \ {0}
      /\ Queue = [k \in 1 .. Count |-> buffer[(Out + (k - 1)) % Cap]]
      /\ \A k \in 1 .. Count : buffer[(Out + (k - 1)) % Cap] \in Values \cup {0}
  BY <1>2, QueueIs DEF QueueShape
<1>6. /\ Queue' = [k \in 1 .. (Count - 1) |-> buffer[(Out' + (k - 1)) % Cap]]
      /\ \A k \in 1 .. (Count - 1) : buffer[(Out' + (k - 1)) % Cap] \in Values \cup {0}
  BY <1>2, <1>3, <1>4, QueueIsNext DEF QueueShape
<1>7. Out \in Int /\ Out + 1 \in Int /\ Out' \in Int /\ Count - 1 \in Nat /\ Places % Cap = 0
  <2>1. Out \in Int /\ Places % Cap = 0
    BY <1>2, Moduli DEF QueueInv
  <2>2. Out + 1 \in Int /\ Count - 1 \in Nat
    BY <1>5, <2>1
  <2>3. (Out + 1) % Places \in 0 .. (Places - 1)
    BY <2>2, Moduli, DivMod
  <2> QED BY <1>4, <2>1, <2>2, <2>3, Moduli
<1>8. Queue \in Seq(Values \cup {0}) /\ Len(Queue) = Count /\ Queue # <<>>
  <2>1. Out \in Int /\ Cap \in Nat \ {0}
    BY <1>5, <1>7
  <2> DEFINE q == Queue
             n == Count
  <2>2. n \in Nat /\ q = [k \in 1 .. n |-> buffer[(Out + (k - 1)) % Cap]]
        /\ \A k \in 1 .. n : buffer[(Out + (k - 1)) % Cap] \in Values \cup {0}
    BY <1>5
  <2> HIDE DEF q, n
  <2>3. q \in Seq(Values \cup {0}) /\ Len(q) = n
    BY <2>1, <2>2, QueueSeq
  <2>4. Queue # <<>>
    BY <1>2, OldestEntry
  <2> QED BY <2>3, <2>4 DEF q, n
<1>9. Queue' \in Seq(Values \cup {0}) /\ Len(Queue') = Count - 1
  <2> DEFINE o == Out'
             n == Count - 1
             q == Queue'
  <2>1. o \in Int /\ n \in Nat /\ q = [k \in 1 .. n |-> buffer[(o + (k - 1)) % Cap]]
        /\ \A k \in 1 .. n : buffer[(o + (k - 1)) % Cap] \in Values \cup {0}
    BY <1>6, <1>7
  <2> HIDE DEF o, n, q
  <2>2. q \in Seq(Values \cup {0}) /\ Len(q) = n
    BY <1>5, <2>1, QueueSeq
  <2> QED BY <2>2 DEF q, n
<1>10. ASSUME NEW k \in 1 .. (Count - 1) PROVE Queue'[k] = Queue[k + 1]
  <2>1. k - 1 \in Int /\ Out + 1 + (k - 1) = Out + (k + 1 - 1) /\ k + 1 \in 1 .. Count
    BY <1>5, <1>7
  <2>2. (((Out + 1) % Places) + (k - 1)) % Cap = (Out + 1 + (k - 1)) % Cap
    <3> DEFINE x == Out + 1
               y == k - 1
    <3>1. x \in Int /\ y \in Int /\ Places \in Nat \ {0} /\ Places % Cap = 0
      BY <1>7, <2>1, Moduli
    <3>2. Cap \in Nat \ {0}
      BY <1>5
    <3> HIDE DEF x, y
    <3>3. ((x % Places) + y) % Cap = (x + y) % Cap
      BY <3>1, <3>2, ModShift
    <3> QED BY <3>3 DEF x, y
  <2>3. Queue'[k] = buffer[(Out' + (k - 1)) % Cap]
    BY <1>6
  <2>4. Queue[k + 1] = buffer[(Out + (k + 1 - 1)) % Cap]
    <3> DEFINE j == k + 1
    <3>1. j \in 1 .. Count
      BY <2>1
    <3> HIDE DEF j
    <3>2. Queue[j] = buffer[(Out + (j - 1)) % Cap]
      BY <1>5, <3>1
    <3> QED BY <3>2 DEF j
  <2> QED BY <1>4, <2>1, <2>2, <2>3, <2>4
<1>11. Queue' = Tail(Queue)
  <2>1. /\ Tail(Queue) \in Seq(Values \cup {0}) /\ Len(Tail(Queue)) = Count - 1
        /\ \A k \in 1 .. (Count - 1) : Tail(Queue)[k] = Queue[k + 1]
    BY <1>8, HeadTailProperties
  <2>2. \A k \in 1 .. (Count - 1) : Queue'[k] = Tail(Queue)[k]
    BY <1>10, <2>1
  <2> QED BY <1>9, <2>1, <2>2, SeqEqual
<1> QED BY <1>2, <1>3, <1>11, OldestEntry

\* What the parameter files show is what FifoSpec reports.
LEMMA ShownValues ==
  /\ Shown(FIFO_EMPTY) = <<"empty">>
  /\ \A v \in Int : Shown(v) = Abstract!Reported(v)
  /\ \A op : \A n \in Nat : Figure(op, n) = <<op, n>>
  /\ \A op \in {"enqueue", "clear"} \cup Readers \cup Queries :
       NoDevice(op) \in {<<"refused">>, <<"uninit">>, <<"error", -4>>, <<"ok">>}
<1>1. Shown(FIFO_EMPTY) = <<"empty">> /\ Shown(FIFO_INVALID) = <<"uninit">>
  BY DEF Shown, FIFO_EMPTY, FIFO_INVALID
<1>2. ASSUME NEW v \in Int PROVE Shown(v) = Abstract!Reported(v)
  BY DEF Shown, FIFO_EMPTY, FIFO_INVALID, Abstract!Reported
<1>3. ASSUME NEW op PROVE Figure(op, FIFO_INVALID) = <<"error", -4>>
  BY DEF Figure, FIFO_INVALID
<1>4. ASSUME NEW op, NEW n \in Nat PROVE Figure(op, n) = <<op, n>>
  BY DEF Figure
<1>5. ASSUME NEW op \in {"enqueue", "clear"} \cup Readers \cup Queries
      PROVE  NoDevice(op) \in {<<"refused">>, <<"uninit">>, <<"error", -4>>, <<"ok">>}
  <2>1. CASE op = "enqueue"
    BY <2>1 DEF NoDevice, Readers, Queries
  <2>2. CASE op \in Readers
    BY <1>1, <2>2 DEF NoDevice, Readers, Queries
  <2>3. CASE op \in Queries
    BY <1>3, <2>3 DEF NoDevice, Readers, Queries
  <2>4. CASE op = "clear"
    BY <2>4 DEF NoDevice, Readers, Queries
  <2> QED BY <2>1, <2>2, <2>3, <2>4
<1> QED BY <1>1, <1>2, <1>4, <1>5

\* The abstract state without a queue.
LEMMA Closed ==
  /\ dev # "ready" => Queue = <<>> /\ AbsCap = 0
  /\ dev' # "ready" => Queue' = <<>> /\ AbsCap' = 0
BY DEF Queue, AbsCap

\* The loader opens and closes the queue, or does nothing that FifoSpec sees.
LEMMA LoaderRefines ==
  ASSUME ~RacyLifecycle, IInv, IInv', Loader
  PROVE  Abstract!Open \/ Abstract!Close \/ UNCHANGED Abstract!fvars
<1>1. CASE InitQueue /\ dev' = "ready"
  <2>1. /\ bytes' = AllocBytes(max_size) /\ in' = 0 /\ out' = 0 /\ dev = "raw" /\ max_size \in InitialSizes
        /\ max_size > 0 /\ UNCHANGED <<call, answer>>
    BY <1>1 DEF InitQueue, IInv, DeviceInv
  <2>2. Count' = 0
    <3>1. In' = 0 /\ Out' = 0
      <4>1. 0 \div ENTRY = 0
        BY Moduli
      <4> QED BY <2>1, <4>1 DEF In, Out
    <3>2. Count' = (In' - Out') % Places
      BY DEF Count
    <3>3. 0 % Places = 0
      BY Moduli, ModNear
    <3> QED BY <3>1, <3>2, <3>3
  <2>3. Queue' = <<>>
    <3>1. Queue' = [k \in 1 .. Count' |-> buffer'[(Out' + (k - 1)) % Cap']]
      BY <1>1, QueueIsNext DEF QueueShape, IInv
    <3> QED BY <2>2, <3>1
  <2>4. bytes' \div ENTRY \in {AllocBytes(n) \div ENTRY : n \in {m \in InitialSizes : m > 0}}
    BY <2>1
  <2>5. Abstract!Open
    BY <1>1, <2>1, <2>3, <2>4 DEF Abstract!Open
  <2> QED BY <2>5
<1>2. CASE CleanupQueue
  <2>1. dev = "ready" /\ dev' = "freed" /\ call = Idle /\ UNCHANGED <<call, answer>>
    BY <1>2 DEF CleanupQueue, IInv, DeviceInv
  <2>2. Queue' = <<>>
    BY <2>1, Closed
  <2>3. Abstract!Close
    BY <2>1, <2>2 DEF Abstract!Close, Abstract!NoCall, Idle
  <2> QED BY <2>3
<1>3. CASE Loader /\ ~CleanupQueue /\ ~(InitQueue /\ dev' = "ready")
  <2>1. dev # "ready" /\ dev' # "ready" /\ UNCHANGED <<call, answer>>
    BY <1>3 DEF Loader, Insmod, InitDevice, InitQueue, CleanupDevice, Teardown, IInv, DeviceInv
  <2>2. UNCHANGED Abstract!fvars
    BY <2>1, Closed DEF Abstract!fvars
  <2> QED BY <2>2
<1> QED BY <1>1, <1>2, <1>3

\* A callback starts, or is answered at once.
LEMMA EnterRefines ==
  ASSUME ~RacyLifecycle, IInv, IInv',
         NEW op \in {"enqueue", "clear"} \cup Readers \cup Queries,
         NEW arg, op = "enqueue" => arg \in Values, op # "enqueue" => arg = 0,
         Enter(op, arg)
  PROVE  Abstract!Start \/ Abstract!NoQueue
<1>1. UNCHANGED <<dev, bytes, in, out, buffer>> /\ call = Idle
  BY DEF Enter, Callable, module_vars, kfifo
<1>2. UNCHANGED Queue /\ UNCHANGED AbsCap /\ UNCHANGED AbsOpen
  BY <1>1 DEF Queue, AbsCap, AbsOpen, kfifo_len, Slot
<1>3. CASE dev = "null"
  <2>1. answer' = NoDevice(op) /\ UNCHANGED call
    BY <1>3 DEF Enter
  <2>2. answer' \in {<<"refused">>, <<"uninit">>, <<"error", -4>>, <<"ok">>}
    BY <2>1, ShownValues
  <2>3. Abstract!NoQueue
    BY <1>2, <1>3, <2>1, <2>2 DEF Abstract!NoQueue, AbsCap, AbsOpen
  <2> QED BY <2>3
<1>4. CASE dev # "null"
  <2>1. call' = [op |-> op, arg |-> arg] /\ UNCHANGED answer /\ dev = "ready"
    BY <1>4 DEF Enter, Callable, IInv, DeviceInv
  <2>2. call' \in Abstract!Requests
    BY <2>1 DEF Abstract!Requests, Readers, Queries
  <2>3. Abstract!Start
    BY <1>1, <1>2, <2>1, <2>2 DEF Abstract!Start, Abstract!NoCall, Idle, AbsCap, AbsOpen
  <2> QED BY <2>3
<1> QED BY <1>3, <1>4

\* A callback that uses the queue has the effect and the answer of FifoSpec.
LEMMA UseRefines ==
  ASSUME IInv, IInv', Use
  PROVE  Abstract!Enqueue \/ Abstract!Dequeue \/ Abstract!Peek \/ Abstract!Query \/ Abstract!Clear
<1>1. /\ dev = "ready" /\ dev' = "ready" /\ QueueInv /\ QueueInv' /\ call' = Idle
      /\ UNCHANGED bytes
  BY InUse DEF IInv
<1>2. /\ Count \in 0 .. Cap /\ Cap \in Nat \ {0} /\ kfifo_len \div ENTRY = Count
      /\ kfifo_avail \div ENTRY = Cap - Count
      /\ (kfifo_is_empty <=> Count = 0) /\ (kfifo_is_full <=> Count = Cap)
      /\ (kfifo_len < ENTRY <=> Count = 0)
      /\ kfifo_len \in Int /\ ENTRY \in Int
  <2>1. ENTRY * Count \in Int
    BY <1>1, Figures, Moduli, Products DEF QueueInv
  <2> QED BY <1>1, <2>1, Figures, Moduli DEF QueueInv
<1>3. /\ Queue \in Seq(Values \cup {0}) /\ Len(Queue) = Count /\ (Queue = <<>> <=> Count = 0)
      /\ AbsCap = Cap /\ AbsCap' = AbsCap
  <2> DEFINE q == Queue
             n == Count
             o == Out
  <2>1. o \in Int /\ Cap \in Nat \ {0} /\ n \in Nat
    BY <1>1, <1>2, Moduli DEF QueueInv
  <2>2. q = [k \in 1 .. n |-> buffer[(o + (k - 1)) % Cap]]
        /\ \A k \in 1 .. n : buffer[(o + (k - 1)) % Cap] \in Values \cup {0}
    BY <1>1, QueueIs DEF QueueShape
  <2> HIDE DEF q, n, o
  <2>3. q \in Seq(Values \cup {0}) /\ Len(q) = n
    BY <2>1, <2>2, QueueSeq
  <2>4. q = <<>> <=> n = 0
    BY <2>3, EmptySeq
  <2> QED BY <1>1, <2>3, <2>4 DEF q, n, AbsCap, Cap
<1>4. ASSUME UNCHANGED <<in, out, buffer>> PROVE UNCHANGED Queue
  BY <1>1, <1>4 DEF Queue, kfifo_len, Slot
<1> DEFINE Served(op, q, a) == call.op = op /\ Queue' = q /\ answer' = a
<1>5. ASSUME NEW op, NEW q, NEW a, Served(op, q, a) PROVE Abstract!Serve(op, q, a)
  BY <1>1, <1>3, <1>5 DEF Abstract!Serve, Abstract!NoCall, Idle, AbsCap
<1>6. Values \cup {0} \subseteq Int
  BY FifoAssumption
<1>7. CASE Enqueue
  <2>1. CASE Count < Cap
    <3>1. Served("enqueue", Append(Queue, call.arg), <<"ok">>) /\ Len(Queue) < AbsCap
      BY <1>7, <2>1, AppendsEntry DEF Enqueue
    <3>2. Abstract!Enqueue
      BY <1>5, <3>1 DEF Abstract!Enqueue, AbsCap
    <3> QED BY <3>2
  <2>2. CASE Count = Cap
    <3>1. UNCHANGED <<in, out, buffer>> /\ answer' = <<"refused">> /\ call.op = "enqueue"
      BY <1>2, <1>7, <2>2, UseEffect DEF Enqueue
    <3>2. Served("enqueue", Queue, <<"refused">>) /\ Len(Queue) = AbsCap
      BY <1>3, <1>4, <2>2, <3>1
    <3>3. Abstract!Enqueue
      BY <1>5, <3>2 DEF Abstract!Enqueue, AbsCap
    <3> QED BY <3>3
  <2> QED BY <1>2, <2>1, <2>2
<1>8. CASE Dequeue
  <2>1. CASE Count > 0
    <3>1. /\ Queue' = Tail(Queue) /\ answer' = Shown(Head(Queue)) /\ Queue # <<>>
          /\ Head(Queue) \in Int
      BY <1>6, <1>8, <2>1, RemovesEntry
    <3>2. Served("dequeue", Tail(Queue), Abstract!Reported(Head(Queue)))
      BY <1>8, <3>1, ShownValues DEF Dequeue
    <3>3. Abstract!Dequeue
      BY <1>5, <3>1, <3>2 DEF Abstract!Dequeue
    <3> QED BY <3>3
  <2>2. CASE Count = 0
    <3>1. UNCHANGED <<in, out, buffer>> /\ answer' = <<"empty">> /\ call.op = "dequeue"
      BY <1>2, <1>8, <2>2, UseEffect, ShownValues DEF Dequeue
    <3>2. Served("dequeue", Queue, <<"empty">>) /\ Queue = <<>>
      BY <1>3, <1>4, <2>2, <3>1
    <3>3. Abstract!Dequeue
      BY <1>5, <3>2 DEF Abstract!Dequeue
    <3> QED BY <3>3
  <2> QED BY <1>2, <2>1, <2>2
<1>9. CASE Peek
  <2>0. UNCHANGED Queue /\ call.op = "peek"
    BY <1>4, <1>9 DEF Peek, kfifo
  <2>1. CASE Count > 0
    <3>1. answer' = Shown(buffer[Slot(out)])
      BY <1>2, <1>9, <2>1 DEF Peek, Finish
    <3>2. Queue # <<>> /\ Head(Queue) = buffer[Slot(out)] /\ Head(Queue) \in Int
      BY <1>1, <1>6, <2>1, OldestEntry
    <3>3. Served("peek", Queue, Abstract!Reported(Head(Queue)))
      BY <2>0, <3>1, <3>2, ShownValues
    <3>4. Abstract!Peek
      BY <1>5, <3>2, <3>3 DEF Abstract!Peek
    <3> QED BY <3>4
  <2>2. CASE Count = 0
    <3>1. Served("peek", Queue, <<"empty">>) /\ Queue = <<>>
      BY <1>2, <1>3, <1>9, <2>0, <2>2, ShownValues DEF Peek, Finish
    <3>2. Abstract!Peek
      BY <1>5, <3>1 DEF Abstract!Peek
    <3> QED BY <3>2
  <2> QED BY <1>2, <2>1, <2>2
<1>10. CASE Query
  <2>0. UNCHANGED Queue
    BY <1>4, <1>10 DEF Query, kfifo
  <2>1. \A op : \A n \in Nat : Figure(op, n) = <<op, n>>
    BY ShownValues
  <2>2. CASE call.op = "size"
    <3>1. Served("size", Queue, <<"size", Len(Queue)>>)
      BY <1>2, <1>3, <1>10, <2>0, <2>1, <2>2 DEF Query, Finish, fifo_size
    <3>2. Abstract!Query
      BY <1>5, <3>1 DEF Abstract!Query
    <3> QED BY <3>2
  <2>3. CASE call.op = "available"
    <3>1. Cap - Count \in Nat
      BY <1>2
    <3>2. Served("available", Queue, <<"available", AbsCap - Len(Queue)>>)
      BY <1>2, <1>3, <1>10, <2>0, <2>1, <2>3, <3>1 DEF Query, Finish, fifo_available
    <3>3. Abstract!Query
      BY <1>5, <3>2 DEF Abstract!Query, AbsCap
    <3> QED BY <3>3
  <2>4. CASE call.op = "is_empty"
    <3>1. Served("is_empty", Queue, <<"is_empty", IF Queue = <<>> THEN 1 ELSE 0>>)
      BY <1>2, <1>3, <1>10, <2>0, <2>1, <2>4 DEF Query, Finish
    <3>2. Abstract!Query
      BY <1>5, <3>1 DEF Abstract!Query, Abstract!Flag
    <3> QED BY <3>2
  <2>5. CASE call.op = "is_full"
    <3>1. Served("is_full", Queue, <<"is_full", IF Len(Queue) = AbsCap THEN 1 ELSE 0>>)
      BY <1>2, <1>3, <1>10, <2>0, <2>1, <2>5 DEF Query, Finish
    <3>2. Abstract!Query
      BY <1>5, <3>1 DEF Abstract!Query, Abstract!Flag, AbsCap
    <3> QED BY <3>2
  <2> QED BY <1>10, <2>2, <2>3, <2>4, <2>5 DEF Query
<1>11. CASE Clear
  <2>1. Count' = 0
    <3>1. In' = 0 /\ Out' = 0
      <4>1. 0 \div ENTRY = 0
        BY Moduli
      <4> QED BY <1>11, <4>1 DEF Clear, In, Out
    <3>2. Count' = (In' - Out') % Places
      BY DEF Count
    <3>3. 0 % Places = 0
      BY Moduli, ModNear
    <3> QED BY <3>1, <3>2, <3>3
  <2>2. Queue' = <<>>
    <3>1. Queue' = [k \in 1 .. Count' |-> buffer'[(Out' + (k - 1)) % Cap']]
      BY <1>1, QueueIsNext DEF QueueShape
    <3> QED BY <2>1, <3>1
  <2>3. Served("clear", <<>>, <<"ok">>)
    BY <1>11, <2>2 DEF Clear, Finish
  <2>4. Abstract!Clear
    BY <1>5, <2>3 DEF Abstract!Clear
  <2> QED BY <2>4
<1> QED BY <1>7, <1>8, <1>9, <1>10, <1>11 DEF Use

\* The module is a first-in first-out queue with as many places as its buffer has
\* entries: across wrap-around, clear and reload every answer is the one FifoSpec
\* gives, also for negative numbers.
THEOREM FifoRefinement ==
  ASSUME ~RacyLifecycle
  PROVE  Spec => ImplementsFifoSpec
<1>1. Init => Abstract!Init
  BY DEF Init, Abstract!Init, Abstract!NoCall, Idle, Queue
<1>2. IInv /\ IInv' /\ [Next]_vars => [Abstract!Next]_(Abstract!fvars)
  <2> SUFFICES ASSUME IInv, IInv', [Next]_vars PROVE Abstract!Next \/ UNCHANGED Abstract!fvars
    OBVIOUS
  <2>1. CASE Loader
    BY <2>1, LoaderRefines DEF Abstract!Next
  <2>2. CASE Use
    BY <2>2, UseRefines DEF Abstract!Next
  <2>3. ASSUME NEW v \in Values, Enter("enqueue", v) PROVE Abstract!Next
    BY <2>3, EnterRefines DEF Abstract!Next
  <2>4. ASSUME NEW op \in Readers \cup Queries \cup {"clear"}, Enter(op, 0) PROVE Abstract!Next
    <3>1. op # "enqueue" /\ op \in {"enqueue", "clear"} \cup Readers \cup Queries
      BY DEF Readers, Queries
    <3> QED BY <2>4, <3>1, EnterRefines DEF Abstract!Next
  <2>5. CASE EnqueueText
    <3>1. UNCHANGED <<dev, bytes, in, out, buffer, call>> /\ call = Idle /\ answer' = <<"invalid">>
      BY <2>5 DEF EnqueueText, Callable, module_vars, kfifo
    <3>2. UNCHANGED Queue
      BY <3>1 DEF Queue, kfifo_len, Slot
    <3>3. Abstract!BadText
      BY <3>1, <3>2 DEF Abstract!BadText, Abstract!NoCall, Idle
    <3> QED BY <3>3 DEF Abstract!Next
  <2>6. CASE UNCHANGED vars
    <3>1. UNCHANGED <<dev, bytes, in, out, buffer, call, answer>>
      BY <2>6 DEF vars, kfifo
    <3>2. UNCHANGED Queue
      BY <3>1 DEF Queue, kfifo_len, Slot
    <3> QED BY <3>1, <3>2 DEF Abstract!fvars
  <2> QED BY <2>1, <2>2, <2>3, <2>4, <2>5, <2>6 DEF Next
<1> QED BY <1>1, <1>2, FifoInvariance, PTL DEF Spec, ImplementsFifoSpec, Abstract!Spec
=============================================================================
