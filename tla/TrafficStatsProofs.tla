------------------------- MODULE TrafficStatsProofs -------------------------
(***************************************************************************)
(* Proofs about the traffic statistics module, for every set of tasks and  *)
(* connections, every hash function, every limit and every width of the    *)
(* counters.                                                               *)
(***************************************************************************)
EXTENDS TrafficStats, FiniteSetTheorems, SequenceTheorems, TLAPS

Handling == {"record", "found", "missing"}

InTable(c) == \E j \in 1 .. Len(order) : order[j] = c

\* The types of the table, the probes and the calls ...
KernelType ==
  /\ phase \in {"absent", "send", "backout", "live", "nosend", "cleanup", "gone"}
  /\ probes \subseteq Kinds
  /\ order \in Seq(Conns)
  /\ recv \in [Conns -> 0 .. (U64_MOD - 1)]
  /\ send \in [Conns -> 0 .. (U64_MOD - 1)]
  /\ lock \in Tasks \cup {NoTask}
  /\ pc \in [Tasks -> {"idle", "call", "record", "found", "missing"}]
  /\ cur \in [Tasks -> [kind : Kinds \cup {"none"}, conn : Conns \cup {"none"}, bytes : Int,
                        real : Nat]]
  /\ moved \in [Kinds -> [Conns -> Nat]]

Lines == [conn : Conns, recv : Nat, send : Nat, whole : BOOLEAN]

\* ... and of the reader.
ReaderType ==
  /\ rpc \in {"idle", "collect", "unsorted", "sorting", "print", "done"}
  /\ top_n \in TopNs \cup {0}
  /\ entries \in Seq(Conns)
  /\ out \in Seq(Lines)
  /\ Len(out) <= Len(entries)
  /\ rpc \notin {"print", "done"} => out = <<>>
  /\ rpc \in {"idle", "collect"} => entries = <<>>
  /\ dirty \in BOOLEAN /\ calm \in BOOLEAN
  /\ base \in [Kinds -> [Conns -> Nat]]

\* What a task in a call has; a handler runs only while its probe is armed, and
\* the lock belongs to the handler that has looked its connection up.
HandlerInv ==
  \A t \in Tasks :
    /\ pc[t] = "call" => /\ cur[t].kind \in Kinds /\ cur[t].conn \in Conns
                         /\ cur[t].kind = "recv" => cur[t].bytes \in RecvCounts
    /\ pc[t] \in Handling => /\ cur[t].kind \in probes /\ cur[t].conn \in Conns \ Unbound
                             /\ cur[t].bytes \in 0 .. (U64_MOD - 1)
                             /\ SendReturns \subseteq Nat => cur[t].bytes = cur[t].real
    /\ pc[t] \in {"found", "missing"} <=> lock = t
    /\ pc[t] = "found" => InTable(cur[t].conn)
    /\ pc[t] = "missing" => ~InTable(cur[t].conn)

\* The probes of each phase; what is out has no entries.
PhaseInv ==
  /\ phase \in {"absent", "cleanup", "gone"} => probes = {}
  /\ phase \in {"send", "backout"} => probes = {"send"}
  /\ phase = "live" => probes = Kinds
  /\ phase = "nosend" => probes = {"recv"}
  /\ phase \in {"absent", "gone"} => order = <<>>

\* One entry per connection; its counters are exact until they wrap.
TableInv ==
  /\ \A j, k \in 1 .. Len(order) : j # k => order[j] # order[k]
  /\ \A j \in 1 .. Len(order) : order[j] \notin Unbound
  /\ \A c \in Conns : ~InTable(c) =>
       send[c] = 0 /\ recv[c] = 0 /\ moved["send"][c] = 0 /\ moved["recv"][c] = 0
  /\ SendReturns \subseteq Nat => \A c \in Conns :
       /\ moved["send"][c] < U64_MOD => send[c] = moved["send"][c]
       /\ moved["recv"][c] < U64_MOD => recv[c] = moved["recv"][c]

KernelInv == KernelType /\ HandlerInv /\ PhaseInv /\ TableInv

IInv == KernelInv /\ ReaderType
-----------------------------------------------------------------------------
(* The table *)

\* hash_add puts the connection somewhere between the entries that are there.
LEMMA HashAdd ==
  ASSUME order \in Seq(Conns), NEW c \in Conns
  PROVE  /\ hash_add(c) \in Seq(Conns) /\ Len(hash_add(c)) = Len(order) + 1
         /\ \E n \in 0 .. Len(order) :
              /\ \A j \in 1 .. n : hash_add(c)[j] = order[j]
              /\ hash_add(c)[n + 1] = c
              /\ \A j \in (n + 2) .. (Len(order) + 1) : hash_add(c)[j] = order[j - 1]
<1> DEFINE lower == {k \in 1 .. Len(order) : Bucket[order[k]] < Bucket[c]}
           n == Cardinality(lower)
           a == SubSeq(order, 1, n)
           b == SubSeq(order, n + 1, Len(order))
<1>1. Len(order) \in Nat
  BY LenProperties
<1>2. n \in 0 .. Len(order)
  <2>1. IsFiniteSet(1 .. Len(order)) /\ Cardinality(1 .. Len(order)) = Len(order)
    BY <1>1, FS_Interval
  <2>2. lower \subseteq 1 .. Len(order)
    OBVIOUS
  <2>3. IsFiniteSet(lower) /\ n <= Len(order)
    BY <2>1, <2>2, FS_Subset
  <2> QED BY <2>3, <1>1, FS_CardinalityType
<1>3. hash_add(c) = a \o <<c>> \o b
  BY DEF hash_add
<1> HIDE DEF n
<1>4. a \in Seq(Conns) /\ Len(a) = n /\ \A j \in 1 .. n : a[j] = order[j]
  BY <1>1, <1>2, SubSeqProperties
<1>5. /\ b \in Seq(Conns) /\ Len(b) = Len(order) - n
      /\ \A j \in 1 .. (Len(order) - n) : b[j] = order[n + j]
  BY <1>1, <1>2, SubSeqProperties
<1>6. <<c>> \in Seq(Conns) /\ Len(<<c>>) = 1 /\ <<c>>[1] = c
  OBVIOUS
<1> HIDE DEF a, b
<1>7. /\ a \o <<c>> \in Seq(Conns) /\ Len(a \o <<c>>) = n + 1
      /\ \A j \in 1 .. n : (a \o <<c>>)[j] = order[j]
      /\ (a \o <<c>>)[n + 1] = c
  BY <1>2, <1>4, <1>6, ConcatProperties
<1> DEFINE d == a \o <<c>>
<1> HIDE DEF d
<1>8. /\ d \o b \in Seq(Conns) /\ Len(d \o b) = Len(order) + 1
      /\ \A j \in 1 .. (n + 1) : (d \o b)[j] = d[j]
      /\ \A j \in (n + 2) .. (Len(order) + 1) : (d \o b)[j] = order[j - 1]
  <2>1. d \in Seq(Conns) /\ Len(d) = n + 1
    BY <1>7 DEF d
  <2>2. /\ d \o b \in Seq(Conns) /\ Len(d \o b) = Len(d) + Len(b)
        /\ \A j \in 1 .. (Len(d) + Len(b)) :
             (d \o b)[j] = IF j <= Len(d) THEN d[j] ELSE b[j - Len(d)]
    BY <2>1, <1>5, ConcatProperties
  <2>3. ASSUME NEW j \in (n + 2) .. (Len(order) + 1) PROVE (d \o b)[j] = order[j - 1]
    <3>1. j - (n + 1) \in 1 .. (Len(order) - n) /\ n + (j - (n + 1)) = j - 1
      BY <1>1, <1>2
    <3>2. b[j - (n + 1)] = order[j - 1]
      BY <1>5, <3>1
    <3> QED BY <1>1, <1>2, <1>5, <2>1, <2>2, <3>2
  <2> QED BY <1>1, <1>2, <1>5, <2>1, <2>2, <2>3
<1>9. hash_add(c) = d \o b
  BY <1>3 DEF d
<1>10. \A j \in 1 .. n : j \in 1 .. (n + 1) /\ (d \o b)[j] = order[j]
  BY <1>1, <1>2, <1>7, <1>8 DEF d
<1>11. (d \o b)[n + 1] = c
  BY <1>2, <1>7, <1>8 DEF d
<1> HIDE DEF d
<1> QED BY <1>2, <1>8, <1>9, <1>10, <1>11

\* The table has the new connection and those it had, none of them twice.
LEMMA HashAddTable ==
  ASSUME KernelType, TableInv, NEW c \in Conns, ~InTable(c), order' = hash_add(c)
  PROVE  /\ order' \in Seq(Conns)
         /\ \A e : InTable(e)' <=> InTable(e) \/ e = c
         /\ \A j, k \in 1 .. Len(order') : j # k => order'[j] # order'[k]
<1>1. order \in Seq(Conns) /\ Len(order) \in Nat
  BY LenProperties DEF KernelType
<1>2. PICK n \in 0 .. Len(order) :
        /\ \A j \in 1 .. n : order'[j] = order[j]
        /\ order'[n + 1] = c
        /\ \A j \in (n + 2) .. (Len(order) + 1) : order'[j] = order[j - 1]
  BY <1>1, HashAdd
<1>3. order' \in Seq(Conns) /\ Len(order') = Len(order) + 1
  BY <1>1, HashAdd
<1>4. ASSUME NEW e PROVE InTable(e)' <=> InTable(e) \/ e = c
  <2>1. ASSUME InTable(e)' PROVE InTable(e) \/ e = c
    <3>1. PICK j \in 1 .. (Len(order) + 1) : order'[j] = e
      BY <1>3, <2>1 DEF InTable
    <3>2. j \in 1 .. n \/ j = n + 1 \/ (j \in (n + 2) .. (Len(order) + 1) /\ j - 1 \in 1 .. Len(order))
      BY <1>1
    <3> QED BY <1>1, <1>2, <3>1, <3>2 DEF InTable
  <2>2. ASSUME InTable(e) PROVE InTable(e)'
    <3>1. PICK j \in 1 .. Len(order) : order[j] = e
      BY <2>2 DEF InTable
    <3>2. CASE j <= n
      <4>1. j \in 1 .. n /\ j \in 1 .. Len(order')
        BY <1>1, <1>3, <3>2
      <4> QED BY <1>2, <3>1, <4>1 DEF InTable
    <3>3. CASE j > n
      <4>1. j + 1 \in (n + 2) .. (Len(order) + 1) /\ j + 1 \in 1 .. Len(order') /\ (j + 1) - 1 = j
        BY <1>1, <1>3, <3>3
      <4>2. order'[j + 1] = e
        BY <1>2, <3>1, <4>1
      <4> QED BY <4>1, <4>2 DEF InTable
    <3> QED BY <1>1, <3>2, <3>3
  <2>3. InTable(c)'
    <3>1. n + 1 \in 1 .. Len(order')
      BY <1>1, <1>3
    <3> QED BY <1>2, <3>1 DEF InTable
  <2> QED BY <2>1, <2>2, <2>3
<1>5. ASSUME NEW j \in 1 .. Len(order'), NEW k \in 1 .. Len(order'), j < k
      PROVE  order'[j] # order'[k]
  <2>1. \A i \in 1 .. Len(order) : order[i] # c
    BY DEF InTable
  <2>2. \A i, m \in 1 .. Len(order) : i # m => order[i] # order[m]
    BY DEF TableInv
  <2>3. \A i \in 1 .. (Len(order) + 1) :
          \/ i \in 1 .. n /\ i \in 1 .. Len(order) /\ order'[i] = order[i]
          \/ i = n + 1 /\ order'[i] = c
          \/ i > n + 1 /\ i - 1 \in 1 .. Len(order) /\ order'[i] = order[i - 1]
    <3> SUFFICES ASSUME NEW i \in 1 .. (Len(order) + 1)
                 PROVE  \/ i \in 1 .. n /\ i \in 1 .. Len(order) /\ order'[i] = order[i]
                        \/ i = n + 1 /\ order'[i] = c
                        \/ i > n + 1 /\ i - 1 \in 1 .. Len(order) /\ order'[i] = order[i - 1]
      OBVIOUS
    <3>1. \/ i \in 1 .. n /\ i \in 1 .. Len(order)
          \/ i = n + 1
          \/ i > n + 1 /\ i - 1 \in 1 .. Len(order) /\ i \in (n + 2) .. (Len(order) + 1)
      BY <1>1
    <3> QED BY <1>2, <3>1
  <2>4. j \in 1 .. (Len(order) + 1) /\ k \in 1 .. (Len(order) + 1) /\ n \in Nat
    BY <1>1, <1>3
  <2>5. CASE j <= n
    <3>1. j \in 1 .. Len(order) /\ order'[j] = order[j]
      BY <2>3, <2>4, <2>5
    <3> QED BY <1>5, <2>1, <2>2, <2>3, <2>4, <2>5, <3>1
  <2>6. CASE j = n + 1
    BY <1>5, <2>1, <2>3, <2>4, <2>6
  <2>7. CASE j > n + 1
    <3>1. j - 1 \in 1 .. Len(order) /\ order'[j] = order[j - 1]
      BY <2>3, <2>4, <2>7
    <3>2. k - 1 \in 1 .. Len(order) /\ order'[k] = order[k - 1]
      BY <1>5, <2>3, <2>4, <2>7
    <3> QED BY <1>5, <2>2, <2>4, <3>1, <3>2
  <2> QED BY <2>4, <2>5, <2>6, <2>7
<1>6. \A j, k \in 1 .. Len(order') : j # k => j < k \/ k < j
  BY <1>1, <1>3
<1> QED BY <1>3, <1>4, <1>5, <1>6
-----------------------------------------------------------------------------
(* Steps *)

\* Initially nothing is loaded, called or read.
LEMMA InitIInv == Init => IInv
<1> SUFFICES ASSUME Init PROVE IInv
  OBVIOUS
<1>1. /\ phase = "absent" /\ probes = {} /\ order = <<>> /\ recv = Zero /\ send = Zero
      /\ lock = NoTask /\ pc = [t \in Tasks |-> "idle"] /\ cur = [t \in Tasks |-> NoCall]
      /\ moved = MovedNothing /\ base = MovedNothing
  BY DEF Init
<1>2. U64_MOD \in Nat \ {0}
  BY TrafficAssumption
<1>3. Zero \in [Conns -> 0 .. (U64_MOD - 1)] /\ MovedNothing \in [Kinds -> [Conns -> Nat]]
  BY <1>2 DEF Zero, MovedNothing
<1>4. KernelType
  <2>1. NoCall \in [kind : Kinds \cup {"none"}, conn : Conns \cup {"none"}, bytes : Int, real : Nat]
    BY DEF NoCall
  <2>2. order \in Seq(Conns)
    BY <1>1
  <2> QED BY <1>1, <1>3, <2>1, <2>2 DEF KernelType
<1>5. HandlerInv
  BY <1>1, TrafficAssumption DEF HandlerInv, Handling
<1>6. PhaseInv
  BY <1>1 DEF PhaseInv
<1>7. TableInv
  BY <1>1, <1>2 DEF TableInv, Zero, MovedNothing, Kinds
<1>8. ReaderType
  <2>1. out = <<>> /\ entries = <<>> /\ rpc = "idle" /\ top_n = 0 /\ dirty = FALSE /\ calm = FALSE
    BY DEF Init
  <2>2. <<>> \in Seq(Conns) /\ <<>> \in Seq(Lines) /\ Len(<<>>) <= Len(<<>>)
    OBVIOUS
  <2> QED BY <1>1, <1>3, <2>1, <2>2 DEF ReaderType
<1> QED BY <1>4, <1>5, <1>6, <1>7, <1>8 DEF IInv, KernelInv

\* Loading and unloading: a probe goes when none of its handlers runs, and the
\* entries go when no probe is left.
LEMMA LoaderIInv ==
  ASSUME IInv, Loader
  PROVE  IInv'
<1>1. KernelType /\ HandlerInv /\ PhaseInv /\ TableInv /\ ReaderType
  BY DEF IInv, KernelInv
<1>2. UNCHANGED <<lock, pc, cur, rpc, top_n, entries, out, dirty, base, calm>>
  BY DEF Loader, InitSend, InitRecv, UnregisterSend, UnregisterRecv, StatsExit, Teardown, reader,
     history
<1>3. ReaderType'
  BY <1>1, <1>2 DEF ReaderType
<1>4. CASE StatsExit
  <2>1. /\ phase = "cleanup" /\ phase' = "gone" /\ lock = NoTask /\ UNCHANGED probes
        /\ order' = <<>> /\ recv' = Zero /\ send' = Zero /\ moved' = MovedNothing
    BY <1>4 DEF StatsExit
  <2>2. probes = {} /\ U64_MOD \in Nat \ {0}
    BY <1>1, <2>1, TrafficAssumption DEF PhaseInv
  <2>3. Zero \in [Conns -> 0 .. (U64_MOD - 1)] /\ MovedNothing \in [Kinds -> [Conns -> Nat]]
    BY <2>2 DEF Zero, MovedNothing
  <2>4. order' \in Seq(Conns) /\ Len(order') = 0
    BY <2>1
  <2>5. KernelType'
    BY <1>1, <1>2, <2>1, <2>3, <2>4 DEF KernelType
  <2>6. \A t \in Tasks : pc[t] \notin Handling
    BY <1>1, <2>2 DEF HandlerInv
  <2>7. HandlerInv'
    BY <1>1, <1>2, <2>6 DEF HandlerInv, Handling
  <2>8. PhaseInv'
    BY <2>1, <2>2 DEF PhaseInv
  <2>9. TableInv'
    BY <2>1, <2>2, <2>4 DEF TableInv, Zero, MovedNothing, Kinds
  <2> QED BY <1>3, <2>5, <2>7, <2>8, <2>9 DEF IInv, KernelInv
<1>5. CASE InitSend \/ InitRecv \/ UnregisterSend \/ UnregisterRecv \/ Teardown
  <2>1. UNCHANGED <<order, recv, send, moved>>
    BY <1>5 DEF InitSend, InitRecv, UnregisterSend, UnregisterRecv, Teardown, table, history
  <2>2. KernelType' /\ PhaseInv'
    <3>1. CASE InitSend
      BY <1>1, <1>2, <2>1, <3>1 DEF InitSend, KernelType, PhaseInv, Kinds
    <3>2. CASE InitRecv
      BY <1>1, <1>2, <2>1, <3>2 DEF InitRecv, KernelType, PhaseInv, Kinds
    <3>3. CASE UnregisterSend
      BY <1>1, <1>2, <2>1, <3>3 DEF UnregisterSend, KernelType, PhaseInv, Kinds
    <3>4. CASE UnregisterRecv
      BY <1>1, <1>2, <2>1, <3>4 DEF UnregisterRecv, KernelType, PhaseInv, Kinds
    <3>5. CASE Teardown
      BY <1>1, <1>2, <2>1, <3>5 DEF Teardown, KernelType, PhaseInv
    <3> QED BY <1>5, <3>1, <3>2, <3>3, <3>4, <3>5
  <2>3. \A t \in Tasks : pc[t] \in Handling => cur[t].kind \in probes'
    <3>1. \A t \in Tasks : pc[t] \in Handling => cur[t].kind \in probes /\ InHandler(cur[t].kind)
      BY <1>1 DEF HandlerInv, Handling, InHandler
    <3>2. CASE InitSend \/ InitRecv \/ Teardown
      BY <1>1, <3>1, <3>2 DEF InitSend, InitRecv, Teardown, PhaseInv, KernelType
    <3>3. CASE UnregisterSend
      BY <3>1, <3>3 DEF UnregisterSend
    <3>4. CASE UnregisterRecv
      BY <3>1, <3>4 DEF UnregisterRecv
    <3> QED BY <1>5, <3>2, <3>3, <3>4
  <2>4. HandlerInv'
    BY <1>1, <1>2, <2>1, <2>3 DEF HandlerInv, InTable
  <2>5. TableInv'
    BY <1>1, <2>1 DEF TableInv, InTable
  <2> QED BY <1>3, <2>2, <2>4, <2>5 DEF IInv, KernelInv
<1> QED BY <1>4, <1>5 DEF Loader

\* The line a read prints is about the next entry of its array; a whole line has
\* the entry's counters, a cut one numbers that are not larger.
LEMMA LineAdded ==
  ASSUME KernelType, ReaderType, PrintLine, Len(out) < Len(entries)
  PROVE  \E l \in Lines :
           /\ out' = Append(out, l) /\ l.conn = entries[Len(out) + 1]
           /\ l.recv <= recv[l.conn] /\ l.send <= send[l.conn]
           /\ l.whole => l.recv = recv[l.conn] /\ l.send = send[l.conn]
           /\ Len(out) <= PAGE_LINES
<1>1. Len(out) \in Nat /\ Len(entries) \in Nat
  BY LenProperties DEF ReaderType
<1>2. PICK c : c = entries[Len(out) + 1]
  OBVIOUS
<1>3. c \in Conns
  <2>1. Len(out) + 1 \in 1 .. Len(entries)
    BY <1>1
  <2> QED BY <1>2, <2>1, ElementOfSeq DEF ReaderType
<1>4. recv[c] \in Nat /\ send[c] \in Nat
  BY <1>3, TrafficAssumption DEF KernelType
<1>5. CASE Len(out) < PAGE_LINES /\ out' = Append(out, LineOf(c, TRUE, recv[c], send[c]))
  <2> DEFINE l == LineOf(c, TRUE, recv[c], send[c])
  <2>1. l \in Lines /\ l.conn = c /\ l.recv = recv[c] /\ l.send = send[c]
        /\ out' = Append(out, l)
    BY <1>3, <1>4, <1>5 DEF Lines, LineOf
  <2>2. Len(out) <= PAGE_LINES
    BY <1>1, <1>5, TrafficAssumption
  <2>3. \A n \in Nat : n <= n
    OBVIOUS
  <2> HIDE DEF l
  <2> QED BY <1>2, <1>4, <2>1, <2>2, <2>3
<1>6. CASE /\ Len(out) = PAGE_LINES
           /\ \E r \in CutNumber(recv[c]), w \in CutNumber(send[c]) :
                out' = Append(out, LineOf(c, FALSE, r, w))
  <2>1. PICK r \in CutNumber(recv[c]), w \in CutNumber(send[c]) :
          out' = Append(out, LineOf(c, FALSE, r, w))
    BY <1>6
  <2>2. r \in 0 .. recv[c] /\ w \in 0 .. send[c]
    BY <1>4 DEF CutNumber
  <2> DEFINE l == LineOf(c, FALSE, r, w)
  <2>3. l \in Lines /\ l.conn = c /\ l.recv = r /\ l.send = w /\ ~l.whole
        /\ out' = Append(out, l)
    BY <1>3, <1>4, <2>1, <2>2 DEF Lines, LineOf
  <2>4. l.recv <= recv[c] /\ l.send <= send[c] /\ Len(out) <= PAGE_LINES
    <3>1. r <= recv[c] /\ w <= send[c]
      BY <1>4, <2>2
    <3>2. Len(out) <= PAGE_LINES
      BY <1>1, <1>6
    <3> QED BY <2>3, <3>1, <3>2
  <2> HIDE DEF l
  <2>5. l.conn = entries[Len(out) + 1] /\ l.recv <= recv[l.conn] /\ l.send <= send[l.conn]
    BY <1>2, <2>3, <2>4
  <2> QED BY <2>3, <2>4, <2>5, Zenon
<1> QED BY <1>2, <1>5, <1>6 DEF PrintLine

\* The reader changes nothing but its own.
LEMMA ReaderIInv ==
  ASSUME IInv, TopStart \/ Reader
  PROVE  IInv'
<1>1. KernelInv /\ KernelType /\ ReaderType
  BY DEF IInv, KernelInv
<1>2. UNCHANGED <<phase, probes, order, recv, send, lock, pc, cur, moved>>
  BY DEF TopStart, Reader, TopNoMemory, TopCollect, TopSortBegin, TopSortEnd, TopPrint, TopReturn,
     kernel, table
<1>3. KernelInv'
  BY <1>1, <1>2 DEF KernelInv, KernelType, HandlerInv, PhaseInv, TableInv, InTable
<1>4. Len(entries) \in Nat /\ Len(out) \in Nat /\ Len(order) \in Nat
  BY <1>1, LenProperties DEF ReaderType, KernelType
<1>5. ReaderType'
  <2>1. CASE TopStart
    BY <1>1, <2>1 DEF TopStart, ReaderType
  <2>2. CASE TopNoMemory \/ TopReturn
    <3>1. ReaderReset
      BY <2>2 DEF TopNoMemory, TopReturn
    <3>2. MovedNothing \in [Kinds -> [Conns -> Nat]]
      BY DEF MovedNothing, Zero
    <3>3. <<>> \in Seq(Conns) /\ <<>> \in Seq(Lines) /\ Len(<<>>) <= Len(<<>>)
      OBVIOUS
    <3> QED BY <3>1, <3>2, <3>3 DEF ReaderReset, ReaderType
  <2>3. CASE TopCollect
    <3>1. [k \in Kinds |-> IF k = "send" THEN send ELSE recv] \in [Kinds -> [Conns -> Nat]]
      BY <1>1, TrafficAssumption DEF KernelType, Kinds
    <3>2. entries' \in Seq(Conns) /\ Len(out) <= Len(entries') /\ UNCHANGED <<out, top_n, dirty>>
      <4>1. out = <<>> /\ UNCHANGED <<out, top_n, dirty>>
        BY <1>1, <2>3 DEF TopCollect, ReaderType
      <4>2. CASE UNCHANGED entries
        BY <1>1, <4>1, <4>2 DEF ReaderType
      <4>3. CASE entries' # entries
        <5>1. entries' = SubSeq(order, 1, Count)
          BY <2>3, <4>3 DEF TopCollect
        <5>2. Count \in 0 .. Len(order)
          BY <1>4, TrafficAssumption DEF Count
        <5>3. entries' \in Seq(Conns) /\ Len(entries') \in Nat
          BY <1>1, <5>1, <5>2, SubSeqProperties, LenProperties DEF KernelType
        <5> QED BY <4>1, <5>3
      <4> QED BY <4>2, <4>3
    <3> QED BY <1>1, <2>3, <3>1, <3>2 DEF TopCollect, ReaderType
  <2>4. CASE TopSortBegin
    BY <1>1, <2>4 DEF TopSortBegin, ReaderType
  <2>5. CASE TopSortEnd
    <3>1. entries' \in [1 .. Len(entries) -> Range(entries)]
      BY <2>5 DEF TopSortEnd, Orderings
    <3>2. Range(entries) \subseteq Conns
      BY <1>1, RangeOfSeq DEF ReaderType
    <3>3. entries' \in [1 .. Len(entries) -> Conns]
      BY <3>1, <3>2
    <3>4. entries' \in Seq(Conns) /\ Len(entries') = Len(entries)
      BY <1>4, <3>3
    <3> QED BY <1>1, <2>5, <3>4 DEF TopSortEnd, ReaderType
  <2>6. CASE TopPrint
    <3>1. CASE UNCHANGED out
      BY <1>1, <2>6, <3>1 DEF TopPrint, ReaderType
    <3>2. CASE out' # out
      <4>1. PrintLine /\ Len(out) < Len(entries) /\ UNCHANGED <<rpc, entries>>
        BY <2>6, <3>2 DEF TopPrint
      <4>2. PICK l \in Lines : out' = Append(out, l)
        BY <1>1, <4>1, LineAdded
      <4>4. out' \in Seq(Lines) /\ Len(out') = Len(out) + 1
        BY <1>1, <4>2, AppendProperties DEF ReaderType
      <4>5. Len(out') <= Len(entries')
        BY <1>4, <4>1, <4>4
      <4> QED BY <1>1, <2>6, <4>1, <4>4, <4>5 DEF TopPrint, ReaderType
    <3> QED BY <3>1, <3>2
  <2> QED BY <2>1, <2>2, <2>3, <2>4, <2>5, <2>6 DEF Reader
<1> QED BY <1>3, <1>5 DEF IInv

\* Calls and their lookups leave the reader and the table alone.
LEMMA CallIInv ==
  ASSUME IInv, NEW t \in Tasks, CallTcp(t) \/ ReturnTcp(t) \/ RecordLock(t)
  PROVE  IInv'
<1>1. KernelType /\ HandlerInv /\ PhaseInv /\ TableInv /\ ReaderType
  BY DEF IInv, KernelInv
<1>2. UNCHANGED <<phase, probes, order, recv, send, moved, rpc, top_n, entries, out, dirty, base, calm>>
  BY DEF CallTcp, ReturnTcp, RecordLock, table, reader, history
<1>3. ReaderType' /\ PhaseInv' /\ TableInv'
  <2>1. ReaderType'
    BY <1>1, <1>2 DEF ReaderType
  <2>2. PhaseInv' /\ TableInv'
    BY <1>1, <1>2 DEF PhaseInv, TableInv, InTable
  <2> QED BY <2>1, <2>2
<1> DEFINE Calls == [kind : Kinds \cup {"none"}, conn : Conns \cup {"none"}, bytes : Int, real : Nat]
<1>4. cur[t] \in Calls /\ pc[t] \in {"idle", "call", "record", "found", "missing"}
  BY <1>1 DEF KernelType
<1>5. CASE CallTcp(t)
  <2>1. PICK k \in probes, c \in Conns, n \in RecvCounts :
          cur' = [cur EXCEPT ![t] = [kind |-> k, conn |-> c, bytes |-> IF k = "recv" THEN n ELSE 0,
                                     real |-> 0]]
    BY <1>5 DEF CallTcp
  <2> DEFINE q == [kind |-> k, conn |-> c, bytes |-> IF k = "recv" THEN n ELSE 0, real |-> 0]
  <2>2. q \in Calls /\ q.kind \in Kinds /\ q.conn \in Conns /\ (q.kind = "recv" => q.bytes \in RecvCounts)
    BY <1>1, TrafficAssumption DEF KernelType
  <2>3. pc[t] = "idle" /\ pc' = [pc EXCEPT ![t] = "call"] /\ UNCHANGED lock /\ cur' = [cur EXCEPT ![t] = q]
    BY <1>5, <2>1 DEF CallTcp
  <2> HIDE DEF q
  <2>4. /\ cur' \in [Tasks -> Calls] /\ cur'[t] = q /\ pc'[t] = "call"
        /\ pc' \in [Tasks -> {"idle", "call", "record", "found", "missing"}]
        /\ \A s \in Tasks \ {t} : cur'[s] = cur[s] /\ pc'[s] = pc[s]
    BY <1>1, <2>2, <2>3 DEF KernelType
  <2>5. KernelType'
    BY <1>1, <1>2, <2>3, <2>4 DEF KernelType
  <2>6. HandlerInv'
    BY <1>1, <1>2, <2>2, <2>3, <2>4 DEF HandlerInv, Handling, InTable
  <2> QED BY <1>3, <2>5, <2>6 DEF IInv, KernelInv
<1>6. CASE RecordLock(t)
  <2>1. /\ pc[t] = "record" /\ lock = NoTask /\ lock' = t /\ UNCHANGED cur
        /\ pc' = [pc EXCEPT ![t] = IF Find(cur[t].conn) = {} THEN "missing" ELSE "found"]
    BY <1>6 DEF RecordLock
  <2>2. Find(cur[t].conn) = {} <=> ~InTable(cur[t].conn)
    <3>1. order \in Seq(Conns) /\ DOMAIN order = 1 .. Len(order)
      BY <1>1, LenProperties DEF KernelType
    <3> QED BY <3>1 DEF Find, Range, InTable
  <2>3. /\ pc'[t] = IF InTable(cur[t].conn) THEN "found" ELSE "missing"
        /\ pc' \in [Tasks -> {"idle", "call", "record", "found", "missing"}]
        /\ \A s \in Tasks \ {t} : pc'[s] = pc[s]
    BY <1>1, <2>1, <2>2 DEF KernelType
  <2>4. KernelType'
    BY <1>1, <1>2, <2>1, <2>3 DEF KernelType
  <2>5. HandlerInv'
    BY <1>1, <1>2, <2>1, <2>3, TrafficAssumption DEF HandlerInv, Handling, InTable
  <2> QED BY <1>3, <2>4, <2>5 DEF IInv, KernelInv
<1>7. CASE ReturnTcp(t)
  <2>1. pc[t] = "call" /\ UNCHANGED lock /\ cur[t].kind \in Kinds /\ cur[t].conn \in Conns
        /\ (cur[t].kind = "recv" => cur[t].bytes \in RecvCounts)
    BY <1>1, <1>7 DEF ReturnTcp, HandlerInv
  <2>2. PICK n \in IF cur[t].kind = "send" THEN SendReturns ELSE {cur[t].bytes} :
        \E b \in IF cur[t].kind = "send" THEN SendBytes(n) ELSE RecvBytes(n) :
          \/ /\ cur[t].kind \in probes /\ cur[t].conn \notin Unbound
             /\ cur' = [cur EXCEPT ![t] = [@ EXCEPT !.bytes = b, !.real = IF n > 0 THEN n ELSE 0]]
             /\ pc' = [pc EXCEPT ![t] = "record"]
          \/ /\ cur' = [cur EXCEPT ![t] = NoCall]
             /\ pc' = [pc EXCEPT ![t] = "idle"]
    BY <1>7 DEF ReturnTcp
  <2>8. PICK b \in IF cur[t].kind = "send" THEN SendBytes(n) ELSE RecvBytes(n) :
          \/ /\ cur[t].kind \in probes /\ cur[t].conn \notin Unbound
             /\ cur' = [cur EXCEPT ![t] = [@ EXCEPT !.bytes = b, !.real = IF n > 0 THEN n ELSE 0]]
             /\ pc' = [pc EXCEPT ![t] = "record"]
          \/ /\ cur' = [cur EXCEPT ![t] = NoCall]
             /\ pc' = [pc EXCEPT ![t] = "idle"]
    BY <2>2
  <2>3. n \in SendReturns \cup RecvCounts /\ n \in Int /\ 2 * n < U32_MOD
        /\ (cur[t].kind = "send" => n \in SendReturns)
        /\ U32_MOD \in Nat \ {0} /\ U64_MOD \in Nat \ {0} /\ U32_MOD <= U64_MOD
    BY <2>1, TrafficAssumption DEF Kinds
  <2> DEFINE m == IF n > 0 THEN n ELSE 0
  <2>4. b \in 0 .. (U64_MOD - 1) /\ m \in Nat /\ (SendReturns \subseteq Nat => b = m)
    <3>1. CASE cur[t].kind = "send"
      <4>1. b \in {n % U64_MOD, n % U32_MOD}
        BY <2>8, <3>1 DEF SendBytes
      <4>2. n % U64_MOD \in 0 .. (U64_MOD - 1) /\ n % U32_MOD \in 0 .. (U32_MOD - 1)
        BY <2>3
      <4>3. n >= 0 => n % U64_MOD = n /\ n % U32_MOD = n
        BY <2>3
      <4> QED BY <2>3, <3>1, <4>1, <4>2, <4>3
    <3>2. CASE cur[t].kind # "send"
      <4>1. b = m
        BY <2>8, <3>2 DEF RecvBytes
      <4> QED BY <2>3, <4>1
    <3> QED BY <3>1, <3>2
  <2> DEFINE q == [cur[t] EXCEPT !.bytes = b, !.real = m]
  <2> HIDE DEF m
  <2>9. b \in Int
    BY <2>4
  <2>5. q \in Calls /\ q.kind = cur[t].kind /\ q.conn = cur[t].conn /\ q.bytes = b /\ q.real = m
    BY <1>4, <2>4, <2>9
  <2>6. CASE /\ cur[t].kind \in probes /\ cur[t].conn \notin Unbound
             /\ cur' = [cur EXCEPT ![t] = [@ EXCEPT !.bytes = b, !.real = IF n > 0 THEN n ELSE 0]]
             /\ pc' = [pc EXCEPT ![t] = "record"]
    <3>1. cur' = [cur EXCEPT ![t] = q]
      BY <1>1, <2>6 DEF KernelType, m
    <3> HIDE DEF q
    <3>2. /\ cur' \in [Tasks -> Calls] /\ cur'[t] = q /\ pc'[t] = "record"
          /\ pc' \in [Tasks -> {"idle", "call", "record", "found", "missing"}]
          /\ \A s \in Tasks \ {t} : cur'[s] = cur[s] /\ pc'[s] = pc[s]
      BY <1>1, <2>5, <2>6, <3>1 DEF KernelType
    <3>3. KernelType'
      BY <1>1, <1>2, <2>1, <3>2 DEF KernelType
    <3>4. HandlerInv'
      <4> SUFFICES ASSUME NEW s \in Tasks
                   PROVE  /\ pc'[s] = "call" => /\ cur'[s].kind \in Kinds /\ cur'[s].conn \in Conns
                                                /\ cur'[s].kind = "recv" => cur'[s].bytes \in RecvCounts
                          /\ pc'[s] \in Handling => /\ cur'[s].kind \in probes /\ cur'[s].conn \in Conns \ Unbound
                                                    /\ cur'[s].bytes \in 0 .. (U64_MOD - 1)
                                                    /\ SendReturns \subseteq Nat => cur'[s].bytes = cur'[s].real
                          /\ pc'[s] \in {"found", "missing"} <=> lock = s
                          /\ pc'[s] = "found" => InTable(cur'[s].conn)
                          /\ pc'[s] = "missing" => ~InTable(cur'[s].conn)
        BY <1>2, <2>1 DEF HandlerInv, InTable
      <4>1. CASE s = t
        BY <1>1, <2>1, <2>4, <2>5, <2>6, <3>2, <4>1 DEF HandlerInv, Handling
      <4>2. CASE s # t
        BY <1>1, <3>2, <4>2 DEF HandlerInv
      <4> QED BY <4>1, <4>2
    <3> QED BY <1>3, <3>3, <3>4 DEF IInv, KernelInv
  <2>7. CASE cur' = [cur EXCEPT ![t] = NoCall] /\ pc' = [pc EXCEPT ![t] = "idle"]
    <3>1. NoCall \in Calls
      BY DEF NoCall
    <3>2. /\ cur' \in [Tasks -> Calls] /\ pc'[t] = "idle"
          /\ pc' \in [Tasks -> {"idle", "call", "record", "found", "missing"}]
          /\ \A s \in Tasks \ {t} : cur'[s] = cur[s] /\ pc'[s] = pc[s]
      BY <1>1, <2>7, <3>1 DEF KernelType
    <3>3. KernelType'
      BY <1>1, <1>2, <2>1, <3>2 DEF KernelType
    <3>4. HandlerInv'
      BY <1>1, <1>2, <2>1, <3>2 DEF HandlerInv, Handling, InTable
    <3> QED BY <1>3, <3>3, <3>4 DEF IInv, KernelInv
  <2> QED BY <2>8, <2>6, <2>7
<1> QED BY <1>5, <1>6, <1>7

\* The handler that has the lock leaves; no other one has looked anything up.
LEMMA DoneInv ==
  ASSUME KernelType, HandlerInv, NEW t \in Tasks, pc[t] \in {"found", "missing"}, Done(t)
  PROVE  /\ lock' = NoTask
         /\ pc' \in [Tasks -> {"idle", "call", "record", "found", "missing"}]
         /\ cur' \in [Tasks -> [kind : Kinds \cup {"none"}, conn : Conns \cup {"none"}, bytes : Int,
                                real : Nat]]
         /\ HandlerInv'
<1> DEFINE Calls == [kind : Kinds \cup {"none"}, conn : Conns \cup {"none"}, bytes : Int, real : Nat]
<1>1. /\ lock' = NoTask /\ pc' = [pc EXCEPT ![t] = "idle"] /\ cur' = [cur EXCEPT ![t] = NoCall]
      /\ UNCHANGED <<phase, probes>>
  BY DEF Done
<1>2. NoCall \in Calls
  BY DEF NoCall
<1>3. /\ pc' \in [Tasks -> {"idle", "call", "record", "found", "missing"}]
      /\ cur' \in [Tasks -> Calls] /\ pc'[t] = "idle"
      /\ \A s \in Tasks \ {t} : cur'[s] = cur[s] /\ pc'[s] = pc[s]
  BY <1>1, <1>2 DEF KernelType
<1>4. lock = t /\ \A s \in Tasks \ {t} : pc[s] \notin {"found", "missing"}
  BY DEF HandlerInv
<1>5. HandlerInv'
  BY <1>1, <1>3, <1>4, TrafficAssumption DEF HandlerInv, Handling
<1> QED BY <1>1, <1>3, <1>5

\* The history grows by the bytes that the recorded call moved.
LEMMA RecordedMoved ==
  ASSUME KernelType, ReaderType, NEW t \in Tasks, cur[t].kind \in Kinds, cur[t].conn \in Conns,
         Recorded(t), UNCHANGED reader
  PROVE  /\ moved' \in [Kinds -> [Conns -> Nat]]
         /\ \A k \in Kinds, c \in Conns :
              moved'[k][c] = IF k = cur[t].kind /\ c = cur[t].conn THEN moved[k][c] + cur[t].real
                                                                   ELSE moved[k][c]
         /\ ReaderType'
<1>1. cur[t].real \in Nat
  BY DEF KernelType
<1> DEFINE kk == cur[t].kind
           cc == cur[t].conn
           row == [moved[kk] EXCEPT ![cc] = @ + cur[t].real]
<1>2. moved' = [moved EXCEPT ![kk] = row]
  BY DEF Recorded
<1>3. row \in [Conns -> Nat] /\ row[cc] = moved[kk][cc] + cur[t].real
      /\ \A c \in Conns : c # cc => row[c] = moved[kk][c]
  BY <1>1 DEF KernelType
<1> HIDE DEF row
<1>4. moved' \in [Kinds -> [Conns -> Nat]] /\ moved'[kk] = row /\ \A k \in Kinds : k # kk => moved'[k] = moved[k]
  BY <1>2, <1>3 DEF KernelType
<1>5. dirty' \in BOOLEAN /\ calm' \in BOOLEAN /\ UNCHANGED base
  BY DEF Recorded
<1>6. ReaderType'
  BY <1>5 DEF ReaderType, reader
<1> QED BY <1>3, <1>4, <1>6

\* Adding to the entry that was found.
LEMMA RecordAddIInv ==
  ASSUME IInv, NEW t \in Tasks, RecordAdd(t)
  PROVE  IInv'
<1> DEFINE k == cur[t].kind
           c == cur[t].conn
           b == cur[t].bytes
<1>1. KernelType /\ HandlerInv /\ PhaseInv /\ TableInv /\ ReaderType
  BY DEF IInv, KernelInv
<1>2. pc[t] = "found" /\ Recorded(t) /\ Done(t) /\ UNCHANGED <<order, phase, probes>> /\ UNCHANGED reader
  BY DEF RecordAdd, Done
<1>3. /\ k \in Kinds /\ c \in Conns \ Unbound /\ b \in 0 .. (U64_MOD - 1) /\ InTable(c)
      /\ SendReturns \subseteq Nat => b = cur[t].real
      /\ cur[t].real \in Nat /\ U64_MOD \in Nat \ {0}
  BY <1>1, <1>2, TrafficAssumption DEF HandlerInv, Handling, KernelType
<1>4. IF k = "send" THEN send' = Plus(send, c, b) /\ UNCHANGED recv
                    ELSE recv' = Plus(recv, c, b) /\ UNCHANGED send
  BY DEF RecordAdd, Find
<1>5. /\ lock' = NoTask
      /\ pc' \in [Tasks -> {"idle", "call", "record", "found", "missing"}]
      /\ cur' \in [Tasks -> [kind : Kinds \cup {"none"}, conn : Conns \cup {"none"}, bytes : Int,
                             real : Nat]]
      /\ HandlerInv'
  BY <1>1, <1>2, DoneInv
<1>6. /\ moved' \in [Kinds -> [Conns -> Nat]]
      /\ \A kk \in Kinds, cc \in Conns :
           moved'[kk][cc] = IF kk = k /\ cc = c THEN moved[kk][cc] + cur[t].real ELSE moved[kk][cc]
      /\ ReaderType'
  BY <1>1, <1>2, <1>3, RecordedMoved
<1> HIDE DEF k, c, b
<1>7. ASSUME NEW f \in [Conns -> 0 .. (U64_MOD - 1)]
      PROVE  /\ Plus(f, c, b) \in [Conns -> 0 .. (U64_MOD - 1)]
             /\ \A e \in Conns \ {c} : Plus(f, c, b)[e] = f[e]
             /\ f[c] + b < U64_MOD => Plus(f, c, b)[c] = f[c] + b
  <2>1. f[c] \in 0 .. (U64_MOD - 1) /\ f[c] + b \in Nat
    BY <1>3
  <2>2. (f[c] + b) % U64_MOD \in 0 .. (U64_MOD - 1)
    BY <1>3, <2>1
  <2>3. f[c] + b < U64_MOD => (f[c] + b) % U64_MOD = f[c] + b
    BY <1>3, <2>1
  <2> QED BY <1>3, <2>2, <2>3 DEF Plus
<1>8. recv \in [Conns -> 0 .. (U64_MOD - 1)] /\ send \in [Conns -> 0 .. (U64_MOD - 1)]
  BY <1>1 DEF KernelType
<1>9. recv' \in [Conns -> 0 .. (U64_MOD - 1)] /\ send' \in [Conns -> 0 .. (U64_MOD - 1)]
  BY <1>4, <1>7, <1>8
<1>10. KernelType'
  BY <1>1, <1>2, <1>5, <1>6, <1>9 DEF KernelType
<1>11. PhaseInv'
  BY <1>1, <1>2 DEF PhaseInv
<1>12. TableInv'
  <2>1. \A e : InTable(e)' <=> InTable(e)
    BY <1>2 DEF InTable
  <2>2. ASSUME NEW e \in Conns, ~InTable(e)
        PROVE  send'[e] = 0 /\ recv'[e] = 0 /\ moved'["send"][e] = 0 /\ moved'["recv"][e] = 0
    <3>1. e # c
      BY <1>3, <2>2
    <3>2. send'[e] = send[e] /\ recv'[e] = recv[e]
      BY <1>4, <1>7, <1>8, <3>1
    <3>3. moved'["send"][e] = moved["send"][e] /\ moved'["recv"][e] = moved["recv"][e]
      BY <1>6, <3>1 DEF Kinds
    <3> QED BY <1>1, <2>2, <3>2, <3>3 DEF TableInv
  <2>3. ASSUME SendReturns \subseteq Nat, NEW e \in Conns
        PROVE  /\ moved'["send"][e] < U64_MOD => send'[e] = moved'["send"][e]
               /\ moved'["recv"][e] < U64_MOD => recv'[e] = moved'["recv"][e]
    <3>1. /\ moved["send"][e] \in Nat /\ moved["recv"][e] \in Nat
          /\ moved["send"][e] < U64_MOD => send[e] = moved["send"][e]
          /\ moved["recv"][e] < U64_MOD => recv[e] = moved["recv"][e]
      BY <1>1, <2>3 DEF TableInv, KernelType, Kinds
    <3>2. CASE e # c
      <4>1. send'[e] = send[e] /\ recv'[e] = recv[e]
        BY <1>4, <1>7, <1>8, <3>2
      <4>2. moved'["send"][e] = moved["send"][e] /\ moved'["recv"][e] = moved["recv"][e]
        BY <1>6, <3>2 DEF Kinds
      <4> QED BY <3>1, <4>1, <4>2
    <3>3. CASE e = c /\ k = "send"
      <4>1. moved'["send"][e] = moved["send"][e] + b /\ moved'["recv"][e] = moved["recv"][e]
        BY <1>3, <1>6, <2>3, <3>3 DEF Kinds
      <4>2. recv'[e] = recv[e] /\ send' = Plus(send, c, b)
        BY <1>4, <3>3
      <4>3. send[c] + b < U64_MOD => send'[c] = send[c] + b
        BY <1>7, <1>8, <4>2
      <4> QED BY <1>3, <3>1, <3>3, <4>1, <4>2, <4>3
    <3>4. CASE e = c /\ k # "send"
      <4>1. moved'["recv"][e] = moved["recv"][e] + b /\ moved'["send"][e] = moved["send"][e]
        BY <1>3, <1>6, <2>3, <3>4 DEF Kinds
      <4>2. send'[e] = send[e] /\ recv' = Plus(recv, c, b)
        BY <1>4, <3>4
      <4>3. recv[c] + b < U64_MOD => recv'[c] = recv[c] + b
        BY <1>7, <1>8, <4>2
      <4> QED BY <1>3, <3>1, <3>4, <4>1, <4>2, <4>3
    <3> QED BY <3>2, <3>3, <3>4
  <2> QED BY <1>1, <1>2, <2>1, <2>2, <2>3 DEF TableInv
<1> QED BY <1>5, <1>6, <1>10, <1>11, <1>12 DEF IInv, KernelInv

\* Inserting the entry that was missing, or doing without it.
LEMMA RecordInsertIInv ==
  ASSUME IInv, NEW t \in Tasks, RecordInsert(t)
  PROVE  IInv'
<1> DEFINE k == cur[t].kind
           c == cur[t].conn
           b == cur[t].bytes
<1>1. KernelType /\ HandlerInv /\ PhaseInv /\ TableInv /\ ReaderType
  BY DEF IInv, KernelInv
<1>2. pc[t] = "missing" /\ Done(t) /\ UNCHANGED <<phase, probes>> /\ UNCHANGED reader
  BY DEF RecordInsert, Done
<1>3. /\ k \in Kinds /\ k \in probes /\ c \in Conns \ Unbound /\ b \in 0 .. (U64_MOD - 1)
      /\ ~InTable(c) /\ (SendReturns \subseteq Nat => b = cur[t].real)
      /\ cur[t].real \in Nat /\ U64_MOD \in Nat \ {0}
  BY <1>1, <1>2, TrafficAssumption DEF HandlerInv, Handling, KernelType
<1>4. /\ lock' = NoTask
      /\ pc' \in [Tasks -> {"idle", "call", "record", "found", "missing"}]
      /\ cur' \in [Tasks -> [kind : Kinds \cup {"none"}, conn : Conns \cup {"none"}, bytes : Int,
                             real : Nat]]
      /\ HandlerInv'
  BY <1>1, <1>2, DoneInv
<1>5. CASE UNCHANGED <<table, history>>
  <2>1. UNCHANGED <<order, recv, send, moved, dirty, base, calm>>
    BY <1>5 DEF table, history
  <2>2. KernelType'
    BY <1>1, <1>2, <1>4, <2>1 DEF KernelType
  <2>3. PhaseInv' /\ TableInv'
    BY <1>1, <1>2, <2>1 DEF PhaseInv, TableInv, InTable
  <2>4. ReaderType'
    BY <1>1, <1>2, <2>1 DEF ReaderType, reader
  <2> QED BY <1>4, <2>2, <2>3, <2>4 DEF IInv, KernelInv
<1>6. CASE /\ order' = hash_add(c)
           /\ send' = [send EXCEPT ![c] = IF k = "send" THEN b ELSE 0]
           /\ recv' = [recv EXCEPT ![c] = IF k = "recv" THEN b ELSE 0]
           /\ Recorded(t)
  <2>1. /\ moved' \in [Kinds -> [Conns -> Nat]]
        /\ \A kk \in Kinds, cc \in Conns :
             moved'[kk][cc] = IF kk = k /\ cc = c THEN moved[kk][cc] + cur[t].real ELSE moved[kk][cc]
        /\ ReaderType'
    BY <1>1, <1>2, <1>3, <1>6, RecordedMoved
  <2> HIDE DEF k, c, b
  <2>2. /\ order' \in Seq(Conns)
        /\ \A e : InTable(e)' <=> InTable(e) \/ e = c
        /\ \A i, j \in 1 .. Len(order') : i # j => order'[i] # order'[j]
    BY <1>1, <1>3, <1>6, HashAddTable
  <2>3. /\ recv' \in [Conns -> 0 .. (U64_MOD - 1)] /\ send' \in [Conns -> 0 .. (U64_MOD - 1)]
        /\ send'[c] = (IF k = "send" THEN b ELSE 0) /\ recv'[c] = (IF k = "recv" THEN b ELSE 0)
        /\ \A e \in Conns \ {c} : send'[e] = send[e] /\ recv'[e] = recv[e]
    BY <1>1, <1>3, <1>6 DEF KernelType
  <2>4. KernelType'
    BY <1>1, <1>2, <1>4, <2>1, <2>2, <2>3 DEF KernelType
  <2>5. PhaseInv'
    BY <1>1, <1>2, <1>3 DEF PhaseInv
  <2>6. \A j \in 1 .. Len(order') : order'[j] \notin Unbound
    <3>1. \A j \in 1 .. Len(order') : InTable(order'[j]) \/ order'[j] = c
      BY <2>2 DEF InTable
    <3>2. \A e : InTable(e) => e \notin Unbound
      BY <1>1 DEF TableInv, InTable
    <3> QED BY <1>3, <3>1, <3>2
  <2>7. ASSUME NEW e \in Conns, ~InTable(e)'
        PROVE  send'[e] = 0 /\ recv'[e] = 0 /\ moved'["send"][e] = 0 /\ moved'["recv"][e] = 0
    <3>1. e # c /\ ~InTable(e)
      BY <2>2, <2>7
    <3>2. moved'["send"][e] = moved["send"][e] /\ moved'["recv"][e] = moved["recv"][e]
      BY <2>1, <3>1 DEF Kinds
    <3> QED BY <1>1, <2>3, <3>1, <3>2 DEF TableInv
  <2>8. ASSUME SendReturns \subseteq Nat, NEW e \in Conns
        PROVE  /\ moved'["send"][e] < U64_MOD => send'[e] = moved'["send"][e]
               /\ moved'["recv"][e] < U64_MOD => recv'[e] = moved'["recv"][e]
    <3>1. CASE e # c
      <4>1. moved'["send"][e] = moved["send"][e] /\ moved'["recv"][e] = moved["recv"][e]
        BY <2>1, <3>1 DEF Kinds
      <4> QED BY <1>1, <2>3, <2>8, <3>1, <4>1 DEF TableInv
    <3>2. CASE e = c
      <4>1. moved["send"][c] = 0 /\ moved["recv"][c] = 0
        BY <1>1, <1>3 DEF TableInv
      <4>2. k \in {"send", "recv"} /\ b \in Nat /\ b = cur[t].real
        BY <1>3, <2>8 DEF Kinds
      <4>3. moved'["send"][c] = (IF k = "send" THEN b ELSE 0)
        BY <1>3, <2>1, <4>1, <4>2 DEF Kinds
      <4>4. moved'["recv"][c] = (IF k = "recv" THEN b ELSE 0)
        BY <1>3, <2>1, <4>1, <4>2 DEF Kinds
      <4> QED BY <2>3, <3>2, <4>3, <4>4
    <3> QED BY <3>1, <3>2
  <2>9. TableInv'
    BY <2>2, <2>6, <2>7, <2>8 DEF TableInv
  <2> QED BY <1>4, <2>1, <2>4, <2>5, <2>9 DEF IInv, KernelInv
<1> QED BY <1>5, <1>6 DEF RecordInsert

\* Every step keeps the invariant.
LEMMA NextIInv ==
  ASSUME IInv, [Next]_vars
  PROVE  IInv'
<1>1. CASE UNCHANGED vars
  <2>1. UNCHANGED <<phase, probes, order, recv, send, lock, pc, cur, rpc, top_n, entries, out, dirty,
                    moved, base, calm>>
    BY <1>1 DEF vars, table, reader
  <2>2. KernelInv'
    BY <2>1 DEF IInv, KernelInv, KernelType, HandlerInv, PhaseInv, TableInv, InTable
  <2>3. ReaderType'
    BY <2>1 DEF IInv, ReaderType
  <2> QED BY <2>2, <2>3 DEF IInv
<1>2. CASE \E t \in Tasks : CallTcp(t) \/ ReturnTcp(t) \/ Handler(t)
  BY <1>2, CallIInv, RecordAddIInv, RecordInsertIInv DEF Handler
<1>3. CASE Loader
  BY <1>3, LoaderIInv
<1>4. CASE TopStart \/ Reader
  BY <1>4, ReaderIInv
<1> QED BY <1>1, <1>2, <1>3, <1>4 DEF Next
-----------------------------------------------------------------------------
(* Theorems *)

\* The inductive invariant holds in every reachable state of the module.
THEOREM TrafficInvariance == Spec => []IInv
<1>1. IInv /\ [Next]_vars => IInv'
  BY NextIInv
<1> QED BY <1>1, InitIInv, PTL DEF Spec

\* Table, probes, calls and reader keep their types, the output of a read never
\* outgrows the array it is printed from.
THEOREM TrafficTypeCorrect == Spec => []TypeOK
<1>1. IInv => TypeOK
  <2> SUFFICES ASSUME IInv PROVE TypeOK
    OBVIOUS
  <2>1. KernelType /\ ReaderType
    BY DEF IInv, KernelInv
  <2> QED BY <2>1 DEF KernelType, ReaderType, TypeOK
<1> QED BY <1>1, TrafficInvariance, PTL

\* A module that is out has freed every entry and no handler of its probes runs,
\* on the error paths of its init too.
THEOREM NothingLeft == Spec => []LeftNothing
<1>1. IInv => LeftNothing
  BY DEF IInv, KernelInv, PhaseInv, HandlerInv, Handling, LeftNothing, InHandler
<1> QED BY <1>1, TrafficInvariance, PTL

\* No connection has moved as many bytes as a counter can hold.
NoWrap == \A k \in Kinds, c \in Conns : moved[k][c] < U64_MOD

\* When tcp_sendmsg reports no error and no counter wraps, the table has one
\* entry per connection and its counters are exact: the lookup and the update are
\* under one lock, so no update is lost and no connection is inserted twice.
THEOREM TableExact ==
  ASSUME SendReturns \subseteq Nat
  PROVE  Spec /\ []NoWrap => []CountersExact
<1>1. IInv /\ NoWrap => CountersExact
  <2> SUFFICES ASSUME IInv, NoWrap PROVE CountersExact
    OBVIOUS
  <2>1. KernelType /\ TableInv
    BY DEF IInv, KernelInv
  <2>2. order \in Seq(Conns) /\ DOMAIN order = 1 .. Len(order)
    BY <2>1, LenProperties DEF KernelType
  <2>3. Range(order) \subseteq Conns /\ \A c \in Range(order) : \E j \in 1 .. Len(order) : order[j] = c
    BY <2>2, RangeOfSeq DEF Range
  <2>4. \A c \in Conns : moved["send"][c] < U64_MOD /\ moved["recv"][c] < U64_MOD
    BY DEF NoWrap, Kinds
  <2>5. \A c \in Conns : send[c] = moved["send"][c] /\ recv[c] = moved["recv"][c]
    BY <2>1, <2>4 DEF TableInv
  <2>6. Range(order) \cap Unbound = {}
    BY <2>1, <2>3 DEF TableInv
  <2> QED BY <2>1, <2>3, <2>5, <2>6 DEF TableInv, CountersExact
<1> QED BY <1>1, TrafficInvariance, PTL
-----------------------------------------------------------------------------
(* What a read shows *)

\* What the recorded calls moved only grows, until the entries are freed; then
\* nobody reads, unless the lifecycle is racy.
LEMMA MovedGrows ==
  ASSUME IInv, [Next]_vars
  PROVE  \/ \A k \in Kinds, c \in Conns : moved[k][c] <= moved'[k][c]
         \/ StatsExit
<1>1. KernelType /\ HandlerInv /\ ReaderType /\ moved \in [Kinds -> [Conns -> Nat]]
  BY DEF IInv, KernelInv, KernelType
<1>2. CASE UNCHANGED moved
  BY <1>1, <1>2
<1>3. CASE \E t \in Tasks : RecordAdd(t) \/ RecordInsert(t)
  <2>1. PICK t \in Tasks : RecordAdd(t) \/ RecordInsert(t)
    BY <1>3
  <2>2. pc[t] \in {"found", "missing"} /\ UNCHANGED reader /\ (Recorded(t) \/ UNCHANGED moved)
    BY <2>1 DEF RecordAdd, RecordInsert, Done, history
  <2>3. cur[t].kind \in Kinds /\ cur[t].conn \in Conns /\ cur[t].real \in Nat
    BY <1>1, <2>2 DEF HandlerInv, Handling, KernelType
  <2>4. CASE Recorded(t)
    <3>1. \A k \in Kinds, c \in Conns :
              moved'[k][c] = IF k = cur[t].kind /\ c = cur[t].conn THEN moved[k][c] + cur[t].real
                                                                   ELSE moved[k][c]
      BY <1>1, <2>2, <2>3, <2>4, RecordedMoved
    <3>2. \A k \in Kinds, c \in Conns : moved[k][c] \in Nat
      BY <1>1
    <3> QED BY <2>3, <3>1, <3>2
  <2> QED BY <1>2, <2>2, <2>4
<1>4. UNCHANGED moved \/ StatsExit \/ \E t \in Tasks : RecordAdd(t) \/ RecordInsert(t)
  <2>1. CASE UNCHANGED vars
    BY <2>1 DEF vars
  <2>2. CASE Loader
    BY <2>2 DEF Loader, InitSend, InitRecv, UnregisterSend, UnregisterRecv, Teardown, history
  <2>3. CASE \E t \in Tasks : CallTcp(t) \/ ReturnTcp(t) \/ Handler(t)
    BY <2>3 DEF CallTcp, ReturnTcp, Handler, RecordLock, history
  <2>4. CASE TopStart \/ Reader
    BY <2>4 DEF TopStart, Reader, TopNoMemory, TopCollect, TopSortBegin, TopSortEnd, TopPrint,
       TopReturn, kernel
  <2> QED BY <2>1, <2>2, <2>3, <2>4 DEF Next
<1> QED BY <1>2, <1>3, <1>4

\* What PrintedInWindow says of one line.
Timely(l) ==
  /\ l.recv <= recv[l.conn] /\ l.send <= send[l.conn]
  /\ l.whole => base["recv"][l.conn] <= l.recv /\ base["send"][l.conn] <= l.send

\* The counters when the entries were collected are not above those of now.
WindowInv ==
  /\ rpc \in {"unsorted", "sorting", "print", "done"} =>
       \A c \in Conns : base["recv"][c] <= recv[c] /\ base["send"][c] <= send[c]
  /\ PrintedInWindow

\* Every step keeps the values that a read may print within the time of that read.
LEMMA WindowStep ==
  ASSUME SendReturns \subseteq Nat, ~RacyLifecycle, IInv, IInv', NoWrap, NoWrap', WindowInv,
         [Next]_vars
  PROVE  WindowInv'
<1>1. KernelType /\ TableInv /\ ReaderType /\ KernelType' /\ TableInv' /\ ReaderType'
  BY DEF IInv, KernelInv
<1>2. /\ \A c \in Conns : recv[c] \in Nat /\ send[c] \in Nat /\ recv'[c] \in Nat /\ send'[c] \in Nat
      /\ \A k \in Kinds, c \in Conns : base[k][c] \in Nat
      /\ "send" \in Kinds /\ "recv" \in Kinds
  <2>1. \A n \in 0 .. (U64_MOD - 1) : n \in Nat
    BY TrafficAssumption
  <2>2. \A c \in Conns : recv[c] \in Nat /\ send[c] \in Nat /\ recv'[c] \in Nat /\ send'[c] \in Nat
    BY <1>1, <2>1 DEF KernelType
  <2>3. \A k \in Kinds, c \in Conns : base[k][c] \in Nat
    BY <1>1 DEF ReaderType
  <2> QED BY <2>2, <2>3 DEF Kinds
<1>3. /\ \A c \in Conns : send[c] = moved["send"][c] /\ recv[c] = moved["recv"][c]
      /\ \A c \in Conns : send'[c] = moved'["send"][c] /\ recv'[c] = moved'["recv"][c]
  BY <1>1 DEF TableInv, NoWrap, Kinds
<1>4. CASE StatsExit
  <2>1. UNCHANGED <<rpc, out, base>> /\ rpc = "idle"
    BY <1>4 DEF StatsExit, reader
  <2>2. out = <<>> /\ rpc' = "idle" /\ out' = <<>>
    BY <1>1, <2>1 DEF ReaderType
  <2> QED BY <2>2 DEF WindowInv, PrintedInWindow
<1>5. CASE ~StatsExit
  <2>1. \A c \in Conns : send[c] <= send'[c] /\ recv[c] <= recv'[c]
    BY <1>2, <1>3, <1>5, MovedGrows
  <2>2. \A k \in 1 .. Len(out) : out[k] \in Lines
    BY <1>1, ElementOfSeq DEF ReaderType
  <2>3. CASE UNCHANGED <<rpc, out, base>>
    <3>1. rpc' \in {"unsorted", "sorting", "print", "done"} =>
            \A c \in Conns : base'["recv"][c] <= recv'[c] /\ base'["send"][c] <= send'[c]
      BY <1>2, <2>1, <2>3 DEF WindowInv
    <3>2. PrintedInWindow'
      <4> SUFFICES ASSUME NEW k \in 1 .. Len(out)
                   PROVE  Timely(out[k])'
        BY <2>3 DEF PrintedInWindow, Timely
      <4>1. out[k].conn \in Conns /\ out[k].recv \in Nat /\ out[k].send \in Nat
        BY <2>2 DEF Lines
      <4>2. Timely(out[k])
        BY DEF WindowInv, PrintedInWindow, Timely
      <4> QED BY <1>2, <2>1, <2>3, <4>1, <4>2 DEF Timely
    <3> QED BY <3>1, <3>2 DEF WindowInv
  <2>5. CASE ReaderReset
    BY <2>5 DEF ReaderReset, WindowInv, PrintedInWindow
  <2>6. CASE TopCollect
    <3>1. /\ base' = [k \in Kinds |-> IF k = "send" THEN send ELSE recv] /\ out' = out
          /\ out = <<>> /\ UNCHANGED <<recv, send>>
      BY <1>1, <2>6 DEF TopCollect, ReaderType, kernel, table
    <3>2. base'["recv"] = recv /\ base'["send"] = send
      BY <1>2, <3>1
    <3> QED BY <1>2, <3>1, <3>2 DEF WindowInv, PrintedInWindow
  <2>7. CASE TopSortEnd
    BY <1>1, <2>7 DEF TopSortEnd, WindowInv, PrintedInWindow, ReaderType, kernel, table
  <2>8. CASE TopPrint
    <3>1. UNCHANGED <<recv, send, base>> /\ rpc = "print" /\ rpc' \in {"print", "done"}
      BY <2>8 DEF TopPrint, kernel, table
    <3>2. CASE UNCHANGED out
      BY <3>1, <3>2 DEF WindowInv, PrintedInWindow
    <3>3. CASE out' # out
      <4>1. PrintLine /\ Len(out) < Len(entries) /\ Len(out) \in Nat /\ Len(entries) \in Nat
        BY <1>1, <2>8, <3>3, LenProperties DEF TopPrint, ReaderType
      <4>2. PICK l \in Lines :
              /\ out' = Append(out, l)
              /\ l.recv <= recv[l.conn] /\ l.send <= send[l.conn]
              /\ l.whole => l.recv = recv[l.conn] /\ l.send = send[l.conn]
        BY <1>1, <4>1, LineAdded
      <4>3. l.conn \in Conns
        BY DEF Lines
      <4>4. /\ Len(out') = Len(out) + 1 /\ out'[Len(out) + 1] = l
            /\ \A k \in 1 .. Len(out) : out'[k] = out[k]
        BY <1>1, <4>1, <4>2, AppendProperties DEF ReaderType
      <4>5. Timely(l)
        BY <3>1, <4>2, <4>3 DEF WindowInv, Timely
      <4>6. PrintedInWindow'
        <5> SUFFICES ASSUME NEW k \in 1 .. (Len(out) + 1)
                     PROVE  Timely(out'[k])
          BY <3>1, <4>4 DEF PrintedInWindow, Timely
        <5>1. CASE k = Len(out) + 1
          BY <4>4, <4>5, <5>1
        <5>2. CASE k \in 1 .. Len(out)
          BY <4>4, <5>2 DEF WindowInv, PrintedInWindow, Timely
        <5> QED BY <4>1, <5>1, <5>2
      <4> QED BY <3>1, <4>6 DEF WindowInv
    <3> QED BY <3>2, <3>3
  <2>9. \/ UNCHANGED <<rpc, out, base>> \/ ReaderReset \/ TopCollect \/ TopSortEnd \/ TopPrint
        \/ TopStart \/ TopSortBegin
    <3>1. CASE UNCHANGED vars
      BY <3>1 DEF vars, reader
    <3>2. CASE Loader
      BY <3>2 DEF Loader, InitSend, InitRecv, UnregisterSend, UnregisterRecv, StatsExit, Teardown,
         reader, history
    <3>3. CASE \E t \in Tasks : CallTcp(t) \/ ReturnTcp(t) \/ Handler(t)
      BY <3>3 DEF CallTcp, ReturnTcp, Handler, RecordLock, RecordAdd, RecordInsert, Recorded, Done,
         reader, history
    <3>4. CASE TopStart \/ Reader
      BY <3>4 DEF Reader, TopNoMemory, TopReturn
    <3> QED BY <3>1, <3>2, <3>3, <3>4 DEF Next
  <2>10. CASE TopStart \/ TopSortBegin
    <3>1. UNCHANGED <<out, recv, send, base>> /\ out = <<>>
      BY <1>1, <2>10 DEF TopStart, TopSortBegin, ReaderType, kernel, table
    <3>2. rpc' = "collect" \/ rpc = "unsorted"
      BY <2>10 DEF TopStart, TopSortBegin
    <3> QED BY <3>1, <3>2 DEF WindowInv, PrintedInWindow
  <2> QED BY <2>3, <2>5, <2>6, <2>7, <2>8, <2>9, <2>10
<1> QED BY <1>4, <1>5

\* A line of top_addrs shows counters of the time of the read, although it is
\* printed without the lock while handlers go on counting.
THEOREM PrintedFresh ==
  ASSUME SendReturns \subseteq Nat, ~RacyLifecycle
  PROVE  Spec /\ []NoWrap => []PrintedInWindow
<1>1. Init => WindowInv
  BY DEF Init, WindowInv, PrintedInWindow
<1>2. IInv /\ IInv' /\ NoWrap /\ NoWrap' /\ WindowInv /\ [Next]_vars => WindowInv'
  BY WindowStep
<1>3. WindowInv => PrintedInWindow
  BY DEF WindowInv
<1> QED BY <1>1, <1>2, <1>3, TrafficInvariance, PTL DEF Spec

Listed(c) == \E j \in 1 .. Len(entries) : entries[j] = c

Distinct(s) == \A j, k \in 1 .. Len(s) : j # k => s[j] # s[k]

\* The array of a read has the first Count entries of the table, in any order.
Collected ==
  /\ Len(entries) = Count /\ Distinct(entries)
  /\ \A j \in 1 .. Count : Listed(order[j])
  /\ \A k \in 1 .. Len(entries) : \E j \in 1 .. Count : entries[k] = order[j]

\* How far the output is: never beyond what is due, at the end only short of it
\* when the page is full.
Progress ==
  /\ Len(out) <= Due /\ Len(out) <= PAGE_LINES + 1
  /\ rpc = "done" => Len(out) >= Due \/ Len(out) >= PAGE_LINES

\* While nothing moves, the array has the candidates once each; sorted, it is
\* sorted by what the counters are, and it is printed from its first element on.
CalmInv ==
  calm =>
    /\ rpc \in {"unsorted", "sorting", "print", "done"}
    /\ Collected
    /\ rpc = "sorting" => ~dirty
    /\ rpc \in {"print", "done"} =>
         Sorted(entries) /\ Progress /\ \A k \in 1 .. Len(out) : out[k].conn = entries[k]

\* A rearrangement of an array without duplicates has none.
LEMMA OrderingDistinct ==
  ASSUME NEW S, NEW s \in Seq(S), Distinct(s), NEW p \in Orderings(s)
  PROVE  /\ p \in Seq(S) /\ Len(p) = Len(s) /\ Distinct(p)
         /\ \A j \in 1 .. Len(s) : \E k \in 1 .. Len(s) : p[k] = s[j]
         /\ \A k \in 1 .. Len(s) : \E j \in 1 .. Len(s) : p[k] = s[j]
<1> DEFINE n == Len(s)
           R == Range(s)
<1>1. n \in Nat /\ DOMAIN s = 1 .. n /\ IsFiniteSet(1 .. n)
  BY LenProperties, FS_Interval
<1>2. p \in [1 .. n -> R] /\ Range(p) = R /\ R \subseteq S
  BY RangeOfSeq DEF Orderings
<1>3. \A j \in 1 .. n : s[j] \in R
  BY <1>1 DEF Range
<1>4. \A x \in R : (\E j \in 1 .. n : s[j] = x) /\ (\E j \in 1 .. n : p[j] = x)
  <2>1. DOMAIN p = 1 .. n
    BY <1>2
  <2> QED BY <1>1, <1>2, <2>1 DEF Range
<1>5. s \in [1 .. n -> R]
  BY <1>1, <1>3
<1>6. s \in Surjection(1 .. n, R) /\ p \in Surjection(1 .. n, R)
  BY <1>2, <1>4, <1>5 DEF Surjection
<1>7. s \in Injection(1 .. n, R)
  BY <1>1, <1>5 DEF Injection, IsInjective, Distinct
<1>8. Cardinality(R) = Cardinality(1 .. n)
  BY <1>1, <1>6, <1>7, FS_Surjection
<1>9. p \in Injection(1 .. n, R)
  BY <1>1, <1>6, <1>8, FS_SurjSameCardinalityImpliesInj
<1>10. p \in [1 .. n -> S]
  BY <1>2
<1>11. p \in Seq(S) /\ Len(p) = n
  BY <1>1, <1>10
<1>12. Distinct(p)
  BY <1>9, <1>11 DEF Injection, IsInjective, Distinct
<1>13. \A k \in 1 .. n : p[k] \in R
  BY <1>2
<1> QED BY <1>3, <1>4, <1>11, <1>12, <1>13

\* Every step keeps what a quiet read has sorted and printed so far the top of the table.
LEMMA CalmStep ==
  ASSUME ~RacyLifecycle, IInv, IInv', CalmInv, [Next]_vars
  PROVE  CalmInv'
<1>1. KernelType /\ TableInv /\ ReaderType /\ ReaderType' /\ Len(order) \in Nat /\ Len(entries) \in Nat
      /\ Len(out) \in Nat
  BY LenProperties DEF IInv, KernelInv, KernelType, ReaderType
<1>2. CASE ~calm'
  BY <1>2 DEF CalmInv
<1>3. CASE UNCHANGED <<order, recv, send, rpc, top_n, entries, out, dirty, calm>>
  BY <1>3 DEF CalmInv, Collected, Progress, Count, Due, Listed, Distinct, Sorted, total_bytes
<1>4. CASE UNCHANGED calm /\ rpc = "idle"
  BY <1>4 DEF CalmInv
<1>5. CASE TopCollect
  <2>1. /\ UNCHANGED <<order, recv, send, top_n, out>> /\ out = <<>> /\ entries = <<>>
        /\ \/ order = <<>> /\ rpc' = "done" /\ entries' = entries
           \/ rpc' = "unsorted" /\ entries' = SubSeq(order, 1, Count)
    BY <1>1, <1>5 DEF TopCollect, kernel, table, ReaderType
  <2>2. CASE order = <<>> /\ rpc' = "done" /\ entries' = entries
    <3>1. Len(order) = 0 /\ Len(entries') = 0 /\ Len(out') = 0
      BY <2>1, <2>2
    <3>2. Count' = 0 /\ Due' = 0
      BY <1>1, <2>1, <3>1, TrafficAssumption DEF Count, Due, ReaderType
    <3>3. Collected' /\ Progress' /\ Sorted(entries)'
      BY <3>1, <3>2, TrafficAssumption DEF Collected, Progress, Distinct, Sorted
    <3> QED BY <2>2, <3>1, <3>3 DEF CalmInv
  <2>3. CASE rpc' = "unsorted" /\ entries' = SubSeq(order, 1, Count)
    <3>1. Count \in 0 .. Len(order) /\ Count' = Count
      BY <1>1, <2>1, TrafficAssumption DEF Count
    <3>2. Len(entries') = Count /\ \A j \in 1 .. Count : entries'[j] = order[j]
      BY <1>1, <2>3, <3>1, SubSeqProperties DEF KernelType
    <3>3. Distinct(entries')
      BY <1>1, <3>1, <3>2 DEF TableInv, Distinct
    <3>4. Collected'
      BY <2>1, <3>1, <3>2, <3>3 DEF Collected, Listed, Distinct
    <3> QED BY <2>3, <3>4 DEF CalmInv
  <2> QED BY <2>1, <2>2, <2>3
<1>6. CASE TopSortBegin
  <2>1. /\ UNCHANGED <<order, entries, calm>> /\ rpc' = "sorting" /\ ~dirty'
    BY <1>6 DEF TopSortBegin, kernel, table
  <2> QED BY <2>1 DEF CalmInv, Collected, Count, Listed, Distinct
<1>7. CASE TopSortEnd /\ calm'
  <2>1. /\ UNCHANGED <<order, recv, send, top_n, out, calm>> /\ rpc = "sorting" /\ rpc' = "print"
        /\ out = <<>> /\ entries' \in Orderings(entries) /\ (dirty \/ Sorted(entries'))
    BY <1>1, <1>7 DEF TopSortEnd, kernel, table, ReaderType
  <2>2. calm /\ ~dirty /\ Collected
    BY <1>7, <2>1 DEF CalmInv
  <2>3. /\ Len(entries') = Len(entries) /\ Distinct(entries')
        /\ \A j \in 1 .. Len(entries) : \E k \in 1 .. Len(entries) : entries'[k] = entries[j]
        /\ \A k \in 1 .. Len(entries) : \E j \in 1 .. Len(entries) : entries'[k] = entries[j]
    <3>1. Distinct(entries) /\ entries \in Seq(Conns) /\ entries' \in Orderings(entries)
      BY <1>1, <2>1, <2>2 DEF ReaderType, Collected
    <3> QED BY <3>1, OrderingDistinct
  <2>4. ASSUME NEW j \in 1 .. Count PROVE \E k \in 1 .. Len(entries') : entries'[k] = order[j]
    <3>1. PICK i \in 1 .. Len(entries) : entries[i] = order[j]
      BY <2>2 DEF Collected, Listed
    <3> QED BY <2>3, <3>1
  <2>5. ASSUME NEW k \in 1 .. Len(entries') PROVE \E j \in 1 .. Count : entries'[k] = order[j]
    <3>1. PICK i \in 1 .. Len(entries) : entries'[k] = entries[i]
      BY <2>3
    <3> QED BY <2>2, <3>1 DEF Collected
  <2>6. Count' = Count /\ Len(entries') = Count
    BY <2>1, <2>2, <2>3 DEF Count, Collected
  <2>7. Collected'
    BY <2>1, <2>3, <2>4, <2>5, <2>6 DEF Collected, Listed, Distinct
  <2>8. Sorted(entries)'
    BY <2>1, <2>2 DEF Sorted, total_bytes
  <2>9. Len(out') = 0 /\ Progress'
    <3>1. Len(out') = 0
      BY <2>1
    <3>2. Due' >= 0
      BY <1>1, <2>1, <2>6, TrafficAssumption DEF Due, Count, ReaderType
    <3> QED BY <2>1, <3>1, <3>2, TrafficAssumption DEF Progress
  <2> QED BY <2>1, <2>7, <2>8, <2>9 DEF CalmInv
<1>8. CASE TopPrint /\ calm'
  <2>1. /\ UNCHANGED <<order, recv, send, top_n, entries, dirty, calm>> /\ rpc = "print"
        /\ rpc' \in {"print", "done"} /\ calm
    BY <1>8 DEF TopPrint, kernel, table
  <2>2. /\ Collected /\ Sorted(entries) /\ Progress
        /\ \A k \in 1 .. Len(out) : out[k].conn = entries[k]
    BY <2>1 DEF CalmInv
  <2>3. Len(entries) = Count /\ Count' = Count /\ Due' = Due /\ Count \in Nat /\ top_n \in Int
    BY <1>1, <2>1, <2>2, TrafficAssumption DEF Collected, Count, Due, ReaderType
  <2>4. (\A k \in 1 .. Len(out') : out'[k].conn = entries[k]) /\ Progress'
    <3>1. CASE UNCHANGED out
      <4>1. rpc' = "done" => Len(out) >= top_n \/ Len(out) >= Count \/ Len(out) >= PAGE_LINES
        BY <1>8, <2>1, <2>3, <3>1 DEF TopPrint
      <4>2. rpc' = "done" => Len(out) >= Due \/ Len(out) >= PAGE_LINES
        BY <1>1, <2>3, <4>1 DEF Due
      <4> QED BY <2>2, <2>3, <3>1, <4>2 DEF Progress
    <3>2. CASE out' # out
      <4>1. PrintLine /\ Len(out) < Len(entries) /\ Len(out) < top_n /\ rpc' = "print"
        BY <1>8, <2>1, <3>2 DEF TopPrint
      <4>2. PICK l \in Lines : /\ out' = Append(out, l) /\ l.conn = entries[Len(out) + 1]
                               /\ Len(out) <= PAGE_LINES
        BY <1>1, <4>1, LineAdded
      <4>3. /\ Len(out') = Len(out) + 1 /\ out'[Len(out) + 1] = l
            /\ \A k \in 1 .. Len(out) : out'[k] = out[k]
        BY <1>1, <4>2, AppendProperties DEF ReaderType
      <4>4. \A k \in 1 .. (Len(out) + 1) : k \in 1 .. Len(out) \/ k = Len(out) + 1
        BY <1>1
      <4>5. Len(out) + 1 <= Due /\ Len(out) + 1 <= PAGE_LINES + 1
        BY <1>1, <2>3, <4>1, <4>2, TrafficAssumption DEF Due
      <4>6. Progress'
        BY <2>3, <4>1, <4>3, <4>5 DEF Progress
      <4> QED BY <2>2, <4>2, <4>3, <4>4, <4>6
    <3> QED BY <3>1, <3>2
  <2>5. Sorted(entries)' /\ Collected'
    BY <2>1, <2>2, <2>3 DEF Sorted, total_bytes, Distinct, Collected, Listed
  <2> QED BY <2>1, <2>4, <2>5 DEF CalmInv
<1>9. \/ ~calm' \/ UNCHANGED <<order, recv, send, rpc, top_n, entries, out, dirty, calm>>
      \/ (UNCHANGED calm /\ rpc = "idle")
      \/ TopCollect \/ TopSortBegin \/ TopSortEnd \/ TopPrint
  <2>1. CASE UNCHANGED vars
    BY <2>1 DEF vars, table, reader
  <2>2. CASE StatsExit \/ TopStart
    BY <2>2 DEF StatsExit, TopStart
  <2>3. CASE InitSend \/ InitRecv \/ UnregisterSend \/ UnregisterRecv \/ Teardown
    BY <2>3 DEF InitSend, InitRecv, UnregisterSend, UnregisterRecv, Teardown, table, reader, history
  <2>4. CASE \E t \in Tasks : CallTcp(t) \/ ReturnTcp(t) \/ Handler(t)
    <3>1. PICK t \in Tasks : CallTcp(t) \/ ReturnTcp(t) \/ RecordLock(t) \/ RecordAdd(t) \/ RecordInsert(t)
      BY <2>4 DEF Handler
    <3>2. CASE CallTcp(t) \/ ReturnTcp(t) \/ RecordLock(t)
      BY <3>2 DEF CallTcp, ReturnTcp, RecordLock, table, reader, history
    <3>3. CASE RecordAdd(t)
      BY <3>3 DEF RecordAdd, Recorded
    <3>4. CASE RecordInsert(t)
      BY <3>4 DEF RecordInsert, Recorded, Done, table, reader, history
    <3> QED BY <3>1, <3>2, <3>3, <3>4
  <2>5. CASE Reader
    BY <2>5 DEF Reader, TopNoMemory, TopReturn, ReaderReset
  <2> QED BY <2>1, <2>2, <2>3, <2>4, <2>5 DEF Next, Loader
<1> QED BY <1>2, <1>3, <1>4, <1>5, <1>6, <1>7, <1>8, <1>9

\* A read of top_addrs during which nothing moves shows the candidates with the
\* most traffic, largest first, and as many of them as top_n and the page allow.
THEOREM TopExact ==
  ASSUME ~RacyLifecycle
  PROVE  Spec => []TopIsTop
<1>1. Init => CalmInv
  BY DEF Init, CalmInv
<1>2. IInv /\ IInv' /\ CalmInv /\ [Next]_vars => CalmInv'
  BY CalmStep
<1>3. IInv /\ CalmInv => TopIsTop
  <2> SUFFICES ASSUME IInv, CalmInv, rpc = "done", calm
               PROVE  /\ \A j, k \in 1 .. Len(out) : j < k =>
                           /\ out[j].conn # out[k].conn
                           /\ total_bytes(out[j].conn) >= total_bytes(out[k].conn)
                      /\ \A k \in 1 .. Len(out) : out[k].conn \in Candidates
                      /\ \A c \in Candidates \ {out[k].conn : k \in 1 .. Len(out)} :
                           \A k \in 1 .. Len(out) : total_bytes(c) <= total_bytes(out[k].conn)
                      /\ Len(out) <= Due
                      /\ Len(out) < Due => Len(out) \in {PAGE_LINES, PAGE_LINES + 1}
    BY DEF TopIsTop
  <2>1. /\ Collected /\ Sorted(entries) /\ \A k \in 1 .. Len(out) : out[k].conn = entries[k]
        /\ Progress
    BY DEF CalmInv
  <2>2. /\ KernelType /\ ReaderType /\ Len(out) \in Nat /\ Len(entries) \in Nat
        /\ Len(out) <= Len(entries) /\ Count \in Nat
    BY <2>1, LenProperties DEF IInv, KernelInv, ReaderType, Collected
  <2>3. \A k \in 1 .. Len(out) : k \in 1 .. Len(entries)
    BY <2>2
  <2>4. \A j, k \in 1 .. Len(out) : j < k =>
          out[j].conn # out[k].conn /\ total_bytes(out[j].conn) >= total_bytes(out[k].conn)
    BY <2>1, <2>2, <2>3 DEF Distinct, Sorted, Collected
  <2>5. \A k \in 1 .. Len(out) : out[k].conn \in Candidates
    <3> SUFFICES ASSUME NEW k \in 1 .. Len(out)
                 PROVE  out[k].conn \in Candidates
      OBVIOUS
    <3>1. out[k].conn = entries[k] /\ k \in 1 .. Len(entries)
      BY <2>1, <2>3
    <3>2. PICK j \in 1 .. Count : entries[k] = order[j]
      BY <2>1, <3>1 DEF Collected
    <3> QED BY <3>1, <3>2 DEF Candidates
  <2>6. ASSUME NEW c \in Candidates \ {out[k].conn : k \in 1 .. Len(out)}, NEW k \in 1 .. Len(out)
        PROVE  total_bytes(c) <= total_bytes(out[k].conn)
    <3>1. PICK i \in 1 .. Count : order[i] = c
      BY DEF Candidates
    <3>2. PICK j \in 1 .. Len(entries) : entries[j] = c
      BY <2>1, <3>1 DEF Collected, Listed
    <3>3. j \notin 1 .. Len(out)
      BY <2>1, <2>6, <3>2
    <3>4. k < j /\ k \in 1 .. Len(entries)
      BY <2>2, <2>3, <3>3
    <3>5. total_bytes(entries[k]) >= total_bytes(entries[j])
      BY <2>1, <3>4 DEF Sorted
    <3>6. total_bytes(entries[k]) \in Nat /\ total_bytes(entries[j]) \in Nat
      <4>1. entries[k] \in Conns /\ entries[j] \in Conns
        BY <2>2, <3>4, ElementOfSeq DEF ReaderType
      <4>2. \A e \in Conns : recv[e] + send[e] \in Nat
        BY <2>2, TrafficAssumption DEF KernelType
      <4>3. \A n \in Nat : n % U64_MOD \in Nat
        BY TrafficAssumption
      <4> QED BY <4>1, <4>2, <4>3 DEF total_bytes
    <3> QED BY <2>1, <3>2, <3>5, <3>6
  <2>7. Len(out) <= Due /\ (Len(out) < Due => Len(out) \in {PAGE_LINES, PAGE_LINES + 1})
    <3>1. Due \in Int
      BY <2>2, TrafficAssumption DEF Due, ReaderType
    <3> QED BY <2>1, <2>2, <3>1, TrafficAssumption DEF Progress
  <2> QED BY <2>4, <2>5, <2>6, <2>7
<1> QED BY <1>1, <1>2, <1>3, TrafficInvariance, PTL DEF Spec
=============================================================================
