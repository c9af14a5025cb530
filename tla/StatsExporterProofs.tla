------------------------ MODULE StatsExporterProofs ------------------------
(***************************************************************************)
(* Proofs about the exporter of module StatsExporter, for every set of     *)
(* connections, every page the kernel can print and any number of clients. *)
(*                                                                         *)
(* The argument follows the updater through one round: after both resets   *)
(* the gauges are empty; the entries are those of the lines parsed so far; *)
(* in the loop the gauges hold exactly the connections of the entries      *)
(* before the loop index, each with its value, except that the series      *)
(* being made is there one step before its value; when the loop ends they  *)
(* hold the whole read.                                                    *)
(***************************************************************************)
EXTENDS StatsExporter, FiniteSetTheorems, SequenceTheorems, TLAPS

Entry == [conn : Conns, recv : Nat, send : Nat]
PageLine == [conn : Conns, recv : Nat, send : Nat, counts : Seq(Nat)]

Parses(l) == Len(l.counts) = 2
EntryOf(l) == [conn |-> l.conn, recv |-> l.counts[1], send |-> l.counts[2]]

\* What a line with two numbers says: the first is the line's, the second too
\* unless it was cut.
FaithfulLine(l) ==
  /\ l \in PageLine
  /\ IsWhole(l) => Parses(l)
  /\ Parses(l) => l.counts[1] = l.recv /\ l.counts[2] \in Prefixes(l.send)

\* No two elements of s are about the same connection.
OncePerConn(s) == \A i, j \in 1 .. Len(s) : s[i].conn = s[j].conn => i = j

\* The connections of the first n elements of s.
ConnsOf(s, n) == {s[j].conn : j \in 1 .. n}

\* Gauge g has exactly the series of the first n elements of s.
Holds(g, s, n) == /\ g = [c \in DOMAIN g |-> g[c]]
                  /\ DOMAIN g = ConnsOf(s, n)

\* The first m elements of s have their values in g.
RecvSet(g, s, m) == \A j \in 1 .. m : g[s[j].conn] = Float64(s[j].recv)
SendSet(g, s, m) == \A j \in 1 .. m : g[s[j].conn] = Float64(s[j].send)

\* The text of the latest read.
PageInv ==
  /\ page \in Seq(PageLine) /\ OncePerConn(page)
  /\ \A j \in 1 .. Len(page) : FaithfulLine(page[j])
  /\ \A j \in 1 .. Len(page) : j < Len(page) => IsWhole(page[j])

ReadInv ==
  /\ entries \in Seq(Entry)
  /\ OncePerConn(entries)

\* The entries are those of the first n lines that parse.
ParsedTo(n) ==
  /\ \A j \in 1 .. n : Parses(page[j]) => \E i \in 1 .. Len(entries) : entries[i] = EntryOf(page[j])
  /\ \A i \in 1 .. Len(entries) : \E j \in 1 .. n : Parses(page[j]) /\ entries[i] = EntryOf(page[j])

ParseInv ==
  /\ upc = "read"  => entries = <<>>
  /\ upc = "parse" => k \in 1 .. (Len(page) + 1) /\ ParsedTo(k - 1)
                      /\ trafficRecv = NoSeries /\ trafficSend = NoSeries
  /\ upc \notin {"read", "parse"} => ParsedTo(Len(page))

\* The updater waits for a tick, or has ended.
RestInv ==
  upc \in {"wait", "ended"} =>
    /\ k = 1
    /\ fresh => /\ Holds(trafficRecv, entries, Len(entries)) /\ RecvSet(trafficRecv, entries, Len(entries))
                /\ Holds(trafficSend, entries, Len(entries)) /\ SendSet(trafficSend, entries, Len(entries))
                /\ topAddrs = Len(entries)
    /\ ~fresh => trafficRecv = NoSeries /\ trafficSend = NoSeries

\* It resets the gauges and reads.
ResetInv ==
  /\ upc = "reset" => k = 1 /\ trafficRecv = NoSeries
                      /\ DOMAIN trafficSend \subseteq ConnsOf(entries, Len(entries))
  /\ upc = "read"  => k = 1 /\ trafficRecv = NoSeries /\ trafficSend = NoSeries

\* The gauge of the received bytes in the loop.
LoopRecvInv ==
  /\ upc = "recv"    => Holds(trafficRecv, entries, k - 1) /\ RecvSet(trafficRecv, entries, k - 1)
  /\ upc = "setrecv" => Holds(trafficRecv, entries, k)     /\ RecvSet(trafficRecv, entries, k - 1)
  /\ upc \in {"send", "setsend"} =>
                        Holds(trafficRecv, entries, k)     /\ RecvSet(trafficRecv, entries, k)

\* The gauge of the sent bytes in the loop.
LoopSendInv ==
  /\ upc \in {"recv", "setrecv", "send"} =>
                        Holds(trafficSend, entries, k - 1) /\ SendSet(trafficSend, entries, k - 1)
  /\ upc = "setsend" => Holds(trafficSend, entries, k)     /\ SendSet(trafficSend, entries, k - 1)

\* The loop index, and that an update in progress is not a successful one.
IndexInv ==
  /\ upc \notin {"wait", "ended"} => ~fresh
  /\ upc = "recv" => k \in 1 .. (Len(entries) + 1)
  /\ upc \in {"setrecv", "send", "setsend"} => k \in 1 .. Len(entries)

ProcessType ==
  /\ main \in {"run", "stop", "exited"} /\ srv \in {"new", "serving", "failed", "closed"}
  /\ upc \in {"wait", "reset", "read", "parse", "recv", "setrecv", "send", "setsend", "ended"}
  /\ topAddrs \in 0 .. Cardinality(Conns)
  /\ req \in [Clients -> {"none", "head", "gather", "answer"}]
  /\ todo \in [Clients -> SUBSET Families]

UpdaterInv == PageInv /\ ReadInv /\ ParseInv /\ RestInv /\ ResetInv /\ LoopRecvInv /\ LoopSendInv /\ IndexInv

IInv == ProcessType /\ UpdaterInv
-----------------------------------------------------------------------------
(* Sequences and gauges *)

\* A read of one entry per connection is no longer than the set of connections
\* and lists as many of them as it has entries.
LEMMA ReadSize ==
  ASSUME ReadInv
  PROVE  /\ Len(entries) \in 0 .. Cardinality(Conns)
         /\ ConnsOf(entries, Len(entries)) \subseteq Conns
         /\ Cardinality(ConnsOf(entries, Len(entries))) = Len(entries)
<1> DEFINE n == Len(entries)
           C == ConnsOf(entries, n)
           f == [j \in 1 .. n |-> entries[j].conn]
<1>1. n \in Nat /\ \A j \in 1 .. n : entries[j] \in Entry
  BY LenProperties, ElementOfSeq DEF ReadInv
<1>2. C \subseteq Conns
  BY <1>1 DEF ConnsOf, Entry
<1>3. IsFiniteSet(C) /\ Cardinality(C) <= Cardinality(Conns) /\ Cardinality(Conns) \in Nat
  BY <1>2, ExporterAssumption, FS_Subset, FS_CardinalityType
<1>4. f \in Surjection(1 .. n, C)
  BY DEF Surjection, ConnsOf
<1>5. f \in Injection(1 .. n, C)
  BY <1>4 DEF Surjection, Injection, IsInjective, ReadInv, OncePerConn
<1>6. IsFiniteSet(1 .. n) /\ Cardinality(1 .. n) = n
  BY <1>1, FS_Interval
<1>7. Cardinality(C) = n
  BY <1>4, <1>5, <1>6, FS_Surjection
<1> QED BY <1>1, <1>2, <1>3, <1>7

\* The empty gauge holds nothing of any read.
LEMMA EmptyGauge ==
  ASSUME NEW s
  PROVE  Holds(NoSeries, s, 0) /\ RecvSet(NoSeries, s, 0) /\ SendSet(NoSeries, s, 0)
BY DEF Holds, RecvSet, SendSet, NoSeries, ConnsOf

\* WithLabelValues(...).Set(v) for the element m of s: the series is there with
\* value v, the other series keep their values.
LEMMA WithSeries ==
  ASSUME NEW s, NEW m \in 1 .. Len(s), Len(s) \in Nat, OncePerConn(s), NEW g, NEW v,
         Holds(g, s, m - 1) \/ Holds(g, s, m)
  PROVE  LET h == With(g, s[m].conn, v)
         IN  /\ Holds(h, s, m)
             /\ h[s[m].conn] = v
             /\ \A j \in 1 .. (m - 1) : h[s[j].conn] = g[s[j].conn]
<1> DEFINE c == s[m].conn
           h == With(g, c, v)
<1>1. ConnsOf(s, m) = ConnsOf(s, m - 1) \cup {c}
  BY DEF ConnsOf
<1>2. DOMAIN g \cup {c} = ConnsOf(s, m)
  BY <1>1 DEF Holds
<1>3. DOMAIN h = ConnsOf(s, m) /\ h = [d \in DOMAIN h |-> h[d]] /\ h[c] = v
      /\ \A d \in DOMAIN h \ {c} : h[d] = g[d]
  BY <1>2 DEF With
<1>4. ASSUME NEW j \in 1 .. (m - 1) PROVE h[s[j].conn] = g[s[j].conn]
  <2>1. s[j].conn # c /\ s[j].conn \in ConnsOf(s, m)
    BY DEF OncePerConn, ConnsOf
  <2> QED BY <1>3, <2>1
<1> QED BY <1>3, <1>4 DEF Holds

\* A whole line, and what a cut leaves of it.
LEMMA LineShape ==
  ASSUME NEW l \in Whole
  PROVE  /\ FaithfulLine(l) /\ IsWhole(l)
         /\ \A d \in CutCounts(l) : FaithfulLine([l EXCEPT !.counts = d])
<1>1. PICK c \in Conns, r \in Counts, w \in Counts : l = Line(c, r, w)
  BY DEF Whole
<1>2. Counts \subseteq Nat
  BY ExporterAssumption, Zenon
<1>3. r \in Nat /\ w \in Nat
  BY <1>2
<1>4. l = [conn |-> c, recv |-> r, send |-> w, counts |-> <<r, w>>]
  BY <1>1 DEF Line
<1>5. \A v \in Nat : Prefixes(v) \subseteq Nat /\ v \in Prefixes(v)
  BY DEF Prefixes
<1>6. FaithfulLine(l) /\ IsWhole(l)
  BY <1>3, <1>4, <1>5 DEF FaithfulLine, IsWhole, Parses, PageLine
<1>7. ASSUME NEW d \in CutCounts(l) PROVE FaithfulLine([l EXCEPT !.counts = d])
  <2> DEFINE q == [l EXCEPT !.counts = d]
  <2>1. q = [conn |-> c, recv |-> r, send |-> w, counts |-> d]
    BY <1>4
  <2>2. d = <<>> \/ (\E x \in Prefixes(r) : d = <<x>>) \/ \E x \in Prefixes(w) : d = <<r, x>>
    BY <1>4, <1>7 DEF CutCounts
  <2>6. ASSUME d \in Seq(Nat), Len(d) # 2 PROVE FaithfulLine(q)
    <3>1. q \in PageLine /\ q.counts = d /\ q.recv = r /\ q.send = w
      BY <1>3, <2>1, <2>6 DEF PageLine
    <3>2. d # <<r, w>>
      <4>1. Len(<<r, w>>) = 2
        OBVIOUS
      <4> QED BY <2>6, <4>1
    <3> QED BY <2>6, <3>1, <3>2 DEF FaithfulLine, IsWhole, Parses
  <2>3. CASE d = <<>>
    <3>1. d \in Seq(Nat) /\ Len(d) = 0 /\ Len(<<r, w>>) = 2
      BY <2>3
    <3> QED BY <1>3, <2>1, <2>6, <3>1
  <2>4. ASSUME NEW x \in Prefixes(r), d = <<x>> PROVE FaithfulLine(q)
    <3>1. d \in Seq(Nat) /\ Len(d) = 1 /\ Len(<<r, w>>) = 2
      BY <1>3, <1>5, <2>4
    <3> QED BY <1>3, <2>1, <2>6, <3>1
  <2>5. ASSUME NEW x \in Prefixes(w), d = <<r, x>> PROVE FaithfulLine(q)
    <3>1. d \in Seq(Nat) /\ Len(d) = 2 /\ d[1] = r /\ d[2] = x
      BY <1>3, <1>5, <2>5
    <3> QED BY <1>3, <2>1, <3>1 DEF FaithfulLine, IsWhole, Parses, PageLine
  <2> QED BY <2>2, <2>3, <2>4, <2>5
<1> QED BY <1>6, <1>7

\* The lines of a page are one per connection, and only the last one can be cut.
LEMMA PageShape ==
  ASSUME NEW p \in Pages
  PROVE  /\ p \in Seq(PageLine) /\ OncePerConn(p)
         /\ \A j \in 1 .. Len(p) : FaithfulLine(p[j])
         /\ \A j \in 1 .. Len(p) : j < Len(p) => IsWhole(p[j])
<1> DEFINE whole == {q \in UNION {[1 .. n -> Whole] : n \in 0 .. Cardinality(Conns)} :
                       \A a, b \in DOMAIN q : a # b => q[a].conn # q[b].conn}
           cut(q) == {[q EXCEPT ![Len(q)].counts = d] : d \in CutCounts(q[Len(q)])}
<1>1. \A l \in Whole : FaithfulLine(l) /\ IsWhole(l) /\ l \in PageLine
  BY LineShape DEF FaithfulLine
<1>2. Cardinality(Conns) \in Nat
  BY ExporterAssumption, FS_CardinalityType
<1>3. ASSUME NEW q \in whole
      PROVE  /\ q \in Seq(PageLine) /\ OncePerConn(q) /\ Len(q) \in Nat /\ DOMAIN q = 1 .. Len(q)
             /\ \A j \in 1 .. Len(q) : q[j] \in Whole /\ FaithfulLine(q[j]) /\ IsWhole(q[j])
  <2>1. PICK n \in 0 .. Cardinality(Conns) : q \in [1 .. n -> Whole]
    OBVIOUS
  <2>2. n \in Nat /\ q \in [1 .. n -> PageLine]
    BY <1>1, <1>2, <2>1
  <2>3. q \in Seq(PageLine) /\ Len(q) = n /\ DOMAIN q = 1 .. n
    BY <2>2
  <2>4. \A j \in 1 .. n : q[j] \in Whole
    BY <2>1
  <2>5. OncePerConn(q)
    BY <2>3 DEF OncePerConn
  <2> QED BY <1>1, <2>2, <2>3, <2>4, <2>5
<1>4. CASE p \in whole
  BY <1>3, <1>4
<1>5. CASE p \notin whole
  <2>1. PICK q \in whole \ {<<>>} : p \in cut(q)
    BY <1>5 DEF Pages
  <2>2. PICK d \in CutCounts(q[Len(q)]) : p = [q EXCEPT ![Len(q)].counts = d]
    BY <2>1
  <2>3. /\ q \in Seq(PageLine) /\ OncePerConn(q) /\ Len(q) \in Nat /\ DOMAIN q = 1 .. Len(q)
        /\ \A j \in 1 .. Len(q) : q[j] \in Whole /\ FaithfulLine(q[j]) /\ IsWhole(q[j])
    BY <1>3, <2>1
  <2>4. Len(q) \in 1 .. Len(q)
    BY <2>1, <2>3, EmptySeq, Z3
  <2> DEFINE last == [q[Len(q)] EXCEPT !.counts = d]
  <2>5. p = [q EXCEPT ![Len(q)] = last]
    BY <2>2
  <2>6. FaithfulLine(last) /\ last.conn = q[Len(q)].conn
    <3>1. FaithfulLine(last)
      BY <2>3, <2>4, LineShape
    <3>2. q[Len(q)] \in PageLine
      BY <2>3, <2>4, ElementOfSeq
    <3> QED BY <3>1, <3>2 DEF PageLine
  <2> HIDE DEF last
  <2>7. DOMAIN p = 1 .. Len(q) /\ p[Len(q)] = last /\ \A j \in 1 .. Len(q) : j # Len(q) => p[j] = q[j]
    BY <2>3, <2>4, <2>5
  <2>8. \A j \in 1 .. Len(q) : FaithfulLine(p[j]) /\ p[j].conn = q[j].conn /\ p[j] \in PageLine
    BY <2>3, <2>6, <2>7 DEF FaithfulLine
  <2>9. p \in [1 .. Len(q) -> PageLine]
    BY <2>3, <2>5, <2>7, <2>8
  <2>10. p \in Seq(PageLine) /\ Len(p) = Len(q)
    BY <2>3, <2>9
  <2>11. OncePerConn(p)
    BY <2>3, <2>8, <2>10 DEF OncePerConn
  <2>12. \A j \in 1 .. Len(p) : j < Len(p) => IsWhole(p[j])
    <3> SUFFICES ASSUME NEW j \in 1 .. Len(p), j < Len(p) PROVE IsWhole(p[j])
      OBVIOUS
    <3>1. j \in 1 .. Len(q) /\ j # Len(q)
      <4>1. Len(p) \in Nat /\ j \in 1 .. Len(p) /\ j < Len(p)
        BY <2>3, <2>10
      <4>2. j # Len(p)
        BY <4>1
      <4> QED BY <2>10, <4>1, <4>2
    <3>2. p[j] = q[j] /\ IsWhole(q[j])
      BY <2>3, <2>7, <3>1
    <3> QED BY <3>2
  <2> QED BY <2>8, <2>10, <2>11, <2>12
<1> QED BY <1>4, <1>5
-----------------------------------------------------------------------------
(* The steps *)

\* The updater does nothing: its position, its read and the gauges stay.
LEMMA UpdaterIdle ==
  ASSUME UpdaterInv, UNCHANGED <<updater, gauges>>
  PROVE  UpdaterInv'
BY DEF UpdaterInv, PageInv, ReadInv, ParseInv, ParsedTo, RestInv, ResetInv, LoopRecvInv, LoopSendInv,
       IndexInv, updater, gauges

\* A line that parses adds its entry, another one nothing.
LEMMA ParseStep ==
  ASSUME UpdaterInv, ParseLine
  PROVE  UpdaterInv'
<1>1. /\ PageInv /\ ReadInv /\ ParsedTo(k - 1) /\ k \in 1 .. Len(page) /\ Len(page) \in Nat
      /\ Len(entries) \in Nat /\ upc = "parse" /\ UNCHANGED <<upc, page, fresh, gauges>> /\ k' = k + 1
      /\ trafficRecv = NoSeries /\ trafficSend = NoSeries
  BY LenProperties DEF UpdaterInv, PageInv, ReadInv, ParseInv, ParseLine
<1>2. FaithfulLine(page[k]) /\ OncePerConn(page) /\ page[k] \in PageLine
  BY <1>1 DEF PageInv, FaithfulLine
<1>3. \A j \in 1 .. k : j = k \/ j \in 1 .. (k - 1)
  BY <1>1
<1>4. ReadInv' /\ ParsedTo(k - 1)'
  <2>1. CASE ~Parses(page[k])
    <3>1. entries' = entries
      BY <1>1, <2>1 DEF ParseLine, Parses
    <3>2. ParsedTo(k)
      BY <1>1, <1>3, <2>1 DEF ParsedTo
    <3>3. k' - 1 = k
      BY <1>1
    <3> QED BY <1>1, <3>1, <3>2, <3>3 DEF ReadInv, ParsedTo
  <2>2. CASE Parses(page[k])
    <3> DEFINE e == EntryOf(page[k])
               n == Len(entries)
    <3>1. entries' = Append(entries, e)
      BY <1>1, <2>2 DEF ParseLine, Parses, EntryOf
    <3>2. e \in Entry /\ e.conn = page[k].conn
      <4>1. page[k].counts \in Seq(Nat) /\ page[k].conn \in Conns
        BY <1>2 DEF PageLine
      <4>2. page[k].counts[1] \in Nat /\ page[k].counts[2] \in Nat
        BY <2>2, <4>1 DEF Parses
      <4> QED BY <4>1, <4>2 DEF EntryOf, Entry
    <3> HIDE DEF e
    <3>3. /\ entries' \in Seq(Entry) /\ Len(entries') = n + 1 /\ entries'[n + 1] = e
          /\ \A i \in 1 .. n : entries'[i] = entries[i]
      BY <1>1, <3>1, <3>2, AppendProperties DEF ReadInv
    <3>4. \A i \in 1 .. (n + 1) : i = n + 1 \/ i \in 1 .. n
      BY <1>1
    <3>5. ASSUME NEW i \in 1 .. n PROVE entries[i].conn # page[k].conn
      <4>1. PICK j \in 1 .. (k - 1) : entries[i] = EntryOf(page[j])
        BY <1>1 DEF ParsedTo
      <4>2. entries[i].conn = page[j].conn /\ j \in 1 .. Len(page) /\ k \in 1 .. Len(page) /\ j # k
        BY <1>1, <4>1 DEF EntryOf
      <4> QED BY <1>2, <4>2 DEF OncePerConn
    <3>6. OncePerConn(entries')
      BY <1>1, <3>2, <3>3, <3>4, <3>5 DEF OncePerConn, ReadInv
    <3>7. ASSUME NEW j \in 1 .. k, Parses(page[j])
          PROVE  \E i \in 1 .. (n + 1) : entries'[i] = EntryOf(page[j])
      <4>1. CASE j = k
        BY <1>1, <3>3, <4>1 DEF e
      <4>2. CASE j \in 1 .. (k - 1)
        <5>1. PICK i \in 1 .. n : entries[i] = EntryOf(page[j])
          BY <1>1, <3>7, <4>2 DEF ParsedTo
        <5> QED BY <1>1, <3>3, <5>1
      <4> QED BY <1>3, <4>1, <4>2
    <3>8. ASSUME NEW i \in 1 .. (n + 1)
          PROVE  \E j \in 1 .. k : Parses(page[j]) /\ entries'[i] = EntryOf(page[j])
      <4>1. CASE i = n + 1
        BY <1>1, <2>2, <3>3, <4>1 DEF e
      <4>2. CASE i \in 1 .. n
        <5>1. PICK j \in 1 .. (k - 1) : Parses(page[j]) /\ entries[i] = EntryOf(page[j])
          BY <1>1, <4>2 DEF ParsedTo
        <5> QED BY <1>1, <3>3, <4>2, <5>1
      <4> QED BY <3>4, <4>1, <4>2
    <3>9. k' - 1 = k
      BY <1>1
    <3> QED BY <1>1, <3>3, <3>6, <3>7, <3>8, <3>9 DEF ReadInv, ParsedTo
  <2> QED BY <2>1, <2>2
<1>5. ParseInv'
  <2>1. k' \in 1 .. (Len(page) + 1) /\ k' - 1 = k
    BY <1>1
  <2> QED BY <1>1, <1>4, <2>1 DEF ParseInv, gauges
<1>6. PageInv'
  BY <1>1 DEF PageInv
<1> QED BY <1>1, <1>4, <1>5, <1>6
        DEF UpdaterInv, RestInv, ResetInv, LoopRecvInv, LoopSendInv, IndexInv

\* The steps before the loop.
LEMMA BeforeLoop ==
  ASSUME UpdaterInv, UpdaterEnd \/ ResetRecv \/ ResetSend \/ ReadError \/ Read \/ ParseEnd
  PROVE  UpdaterInv'
<1>1. PageInv /\ ReadInv /\ ParseInv /\ RestInv /\ ResetInv /\ IndexInv /\ Len(entries) \in Nat
  BY LenProperties DEF UpdaterInv, ReadInv
<1> USE DEF RestInv, ResetInv, LoopRecvInv, LoopSendInv, IndexInv, Go
<1>2. CASE UpdaterEnd
  BY <1>1, <1>2 DEF UpdaterEnd, UpdaterInv, PageInv, ReadInv, ParseInv, ParsedTo, gauges
<1>3. CASE ResetRecv
  <2>1. DOMAIN trafficSend \subseteq ConnsOf(entries, Len(entries))
    <3>1. CASE fresh
      BY <1>1, <1>3, <3>1 DEF ResetRecv, Holds
    <3>2. CASE ~fresh
      BY <1>1, <1>3, <3>2 DEF ResetRecv, NoSeries
    <3> QED BY <3>1, <3>2
  <2> QED BY <1>1, <1>3, <2>1 DEF ResetRecv, UpdaterInv, PageInv, ReadInv, ParseInv, ParsedTo
<1>4. ASSUME page' = <<>>, entries' = <<>>
      PROVE  PageInv' /\ ReadInv' /\ ParsedTo(Len(page))' /\ Len(entries') = 0
  <2>1. page' \in Seq(PageLine) /\ entries' \in Seq(Entry) /\ Len(page') = 0 /\ Len(entries') = 0
    BY <1>4
  <2> QED BY <2>1 DEF PageInv, ReadInv, ParsedTo, OncePerConn
<1>5. CASE ResetSend
  <2>1. PageInv' /\ ReadInv' /\ upc' = "read" /\ entries' = <<>>
    BY <1>4, <1>5 DEF ResetSend
  <2> QED BY <1>1, <1>5, <2>1 DEF ResetSend, UpdaterInv, ParseInv
<1>6. CASE ReadError
  <2>1. PageInv' /\ ReadInv' /\ ParsedTo(Len(page))' /\ upc' = "wait"
    BY <1>4, <1>6 DEF ReadError
  <2>2. ~fresh' /\ k' = 1 /\ trafficRecv' = NoSeries /\ trafficSend' = NoSeries
    BY <1>1, <1>6 DEF ReadError, gauges, ParseInv
  <2> QED BY <2>1, <2>2 DEF UpdaterInv, ParseInv
<1>7. CASE Read
  <2>1. page' \in Pages /\ upc' = "parse" /\ UNCHANGED <<entries, k, fresh, gauges>> /\ upc = "read"
    BY <1>7 DEF Read
  <2>2. PageInv' /\ ReadInv' /\ Len(page') \in Nat
    BY <1>1, <2>1, PageShape, LenProperties DEF PageInv, ReadInv
  <2>3. k = 1 /\ entries = <<>> /\ Len(entries) = 0
    BY <1>1, <2>1 DEF ParseInv
  <2>4. k' \in 1 .. (Len(page') + 1) /\ ParsedTo(k - 1)'
    BY <2>1, <2>2, <2>3 DEF ParsedTo
  <2> QED BY <1>1, <2>1, <2>2, <2>3, <2>4 DEF UpdaterInv, ParseInv, gauges
<1>8. CASE ParseEnd
  <2>1. /\ k' = 1 /\ upc' = "recv" /\ upc = "parse" /\ UNCHANGED <<page, entries, fresh, gauges>>
        /\ k > Len(page)
    BY <1>8 DEF ParseEnd
  <2>2. k - 1 = Len(page) /\ trafficRecv' = NoSeries /\ trafficSend' = NoSeries /\ ~fresh'
    <3>1. Len(page) \in Nat
      BY <1>1, LenProperties DEF PageInv
    <3> QED BY <1>1, <2>1, <3>1 DEF ParseInv, gauges
  <2>3. PageInv' /\ ReadInv' /\ ParsedTo(Len(page))'
    BY <1>1, <2>1, <2>2 DEF PageInv, ReadInv, ParseInv, ParsedTo
  <2>4. Holds(NoSeries, entries', 0) /\ RecvSet(NoSeries, entries', 0) /\ SendSet(NoSeries, entries', 0)
    BY EmptyGauge
  <2>5. k' \in 1 .. (Len(entries') + 1) /\ k' - 1 = 0
    BY <1>1, <2>1
  <2> QED BY <2>1, <2>2, <2>3, <2>4, <2>5 DEF UpdaterInv, ParseInv
<1> QED BY <1>2, <1>3, <1>5, <1>6, <1>7, <1>8

\* The steps of the loop, and its end.
LEMMA InLoop ==
  ASSUME UpdaterInv, MakeRecv \/ SetRecv \/ MakeSend \/ SetSend \/ SetTop
  PROVE  UpdaterInv'
<1>1. /\ ReadInv /\ LoopRecvInv /\ LoopSendInv /\ IndexInv
      /\ Len(entries) \in Nat /\ OncePerConn(entries) /\ UNCHANGED entries
  BY LenProperties DEF UpdaterInv, ReadInv, MakeRecv, SetRecv, MakeSend, SetSend, SetTop
<1>2. PageInv' /\ ReadInv' /\ ParseInv'
  <2>1. UNCHANGED <<page, entries>> /\ PageInv /\ ParseInv
        /\ upc \notin {"read", "parse"} /\ upc' \notin {"read", "parse"}
    BY DEF UpdaterInv, MakeRecv, SetRecv, MakeSend, SetSend, SetTop, Go
  <2> QED BY <1>1, <2>1 DEF PageInv, ReadInv, ParseInv, ParsedTo
<1>3. CASE MakeRecv
  <2>1. k \in 1 .. Len(entries) /\ ~fresh
    BY <1>1, <1>3 DEF MakeRecv, IndexInv
  <2>2. Holds(trafficRecv', entries, k) /\ RecvSet(trafficRecv', entries, k - 1)
    <3>1. Holds(trafficRecv, entries, k - 1) /\ RecvSet(trafficRecv, entries, k - 1)
          /\ trafficRecv' = With(trafficRecv, entries[k].conn, 0)
      BY <1>1, <1>3 DEF MakeRecv, LoopRecvInv
    <3>2. Holds(trafficRecv', entries, k)
          /\ \A j \in 1 .. (k - 1) : trafficRecv'[entries[j].conn] = trafficRecv[entries[j].conn]
      BY <1>1, <2>1, <3>1, WithSeries
    <3> QED BY <3>1, <3>2 DEF RecvSet
  <2>3. Holds(trafficSend, entries, k - 1) /\ SendSet(trafficSend, entries, k - 1)
    BY <1>1, <1>3 DEF MakeRecv, LoopSendInv
  <2> QED BY <1>1, <1>2, <1>3, <2>1, <2>2, <2>3
          DEF MakeRecv, Go, UpdaterInv, RestInv, ResetInv, LoopRecvInv, LoopSendInv, IndexInv
<1>4. CASE SetRecv
  <2>1. k \in 1 .. Len(entries) /\ ~fresh
    BY <1>1, <1>4 DEF SetRecv, IndexInv
  <2>2. Holds(trafficRecv', entries, k) /\ RecvSet(trafficRecv', entries, k)
    <3>1. Holds(trafficRecv, entries, k) /\ RecvSet(trafficRecv, entries, k - 1)
          /\ trafficRecv' = With(trafficRecv, entries[k].conn, Float64(entries[k].recv))
      BY <1>1, <1>4 DEF SetRecv, LoopRecvInv
    <3>2. Holds(trafficRecv', entries, k)
          /\ trafficRecv'[entries[k].conn] = Float64(entries[k].recv)
          /\ \A j \in 1 .. (k - 1) : trafficRecv'[entries[j].conn] = trafficRecv[entries[j].conn]
      BY <1>1, <2>1, <3>1, WithSeries
    <3>3. \A j \in 1 .. k : j = k \/ j \in 1 .. (k - 1)
      BY <2>1
    <3> QED BY <3>1, <3>2, <3>3 DEF RecvSet
  <2>3. Holds(trafficSend, entries, k - 1) /\ SendSet(trafficSend, entries, k - 1)
    BY <1>1, <1>4 DEF SetRecv, LoopSendInv
  <2> QED BY <1>1, <1>2, <1>4, <2>1, <2>2, <2>3
          DEF SetRecv, Go, UpdaterInv, RestInv, ResetInv, LoopRecvInv, LoopSendInv, IndexInv
<1>5. CASE MakeSend
  <2>1. k \in 1 .. Len(entries) /\ ~fresh
    BY <1>1, <1>5 DEF MakeSend, IndexInv
  <2>2. Holds(trafficSend', entries, k) /\ SendSet(trafficSend', entries, k - 1)
    <3>1. Holds(trafficSend, entries, k - 1) /\ SendSet(trafficSend, entries, k - 1)
          /\ trafficSend' = With(trafficSend, entries[k].conn, 0)
      BY <1>1, <1>5 DEF MakeSend, LoopSendInv
    <3>2. Holds(trafficSend', entries, k)
          /\ \A j \in 1 .. (k - 1) : trafficSend'[entries[j].conn] = trafficSend[entries[j].conn]
      BY <1>1, <2>1, <3>1, WithSeries
    <3> QED BY <3>1, <3>2 DEF SendSet
  <2>3. Holds(trafficRecv, entries, k) /\ RecvSet(trafficRecv, entries, k)
    BY <1>1, <1>5 DEF MakeSend, LoopRecvInv
  <2> QED BY <1>1, <1>2, <1>5, <2>1, <2>2, <2>3
          DEF MakeSend, Go, UpdaterInv, RestInv, ResetInv, LoopRecvInv, LoopSendInv, IndexInv
<1>6. CASE SetSend
  <2>1. k \in 1 .. Len(entries) /\ ~fresh
    BY <1>1, <1>6 DEF SetSend, IndexInv
  <2>2. Holds(trafficSend', entries, k) /\ SendSet(trafficSend', entries, k)
    <3>1. Holds(trafficSend, entries, k) /\ SendSet(trafficSend, entries, k - 1)
          /\ trafficSend' = With(trafficSend, entries[k].conn, Float64(entries[k].send))
      BY <1>1, <1>6 DEF SetSend, LoopSendInv
    <3>2. Holds(trafficSend', entries, k)
          /\ trafficSend'[entries[k].conn] = Float64(entries[k].send)
          /\ \A j \in 1 .. (k - 1) : trafficSend'[entries[j].conn] = trafficSend[entries[j].conn]
      BY <1>1, <2>1, <3>1, WithSeries
    <3>3. \A j \in 1 .. k : j = k \/ j \in 1 .. (k - 1)
      BY <2>1
    <3> QED BY <3>1, <3>2, <3>3 DEF SendSet
  <2>3. Holds(trafficRecv, entries, k) /\ RecvSet(trafficRecv, entries, k)
    BY <1>1, <1>6 DEF SetSend, LoopRecvInv
  <2>4. k' = k + 1 /\ k' - 1 = k /\ k' \in 1 .. (Len(entries) + 1)
    BY <1>1, <1>6, <2>1 DEF SetSend
  <2>5. upc' = "recv" /\ UNCHANGED <<trafficRecv, fresh>>
    BY <1>6 DEF SetSend, Go
  <2> QED BY <1>1, <1>2, <2>1, <2>2, <2>3, <2>4, <2>5
          DEF UpdaterInv, RestInv, ResetInv, LoopRecvInv, LoopSendInv, IndexInv
<1>7. CASE SetTop
  <2>1. k - 1 = Len(entries)
    BY <1>1, <1>7 DEF SetTop, IndexInv
  <2>2. /\ Holds(trafficRecv, entries, Len(entries)) /\ RecvSet(trafficRecv, entries, Len(entries))
        /\ Holds(trafficSend, entries, Len(entries)) /\ SendSet(trafficSend, entries, Len(entries))
    BY <1>1, <1>7, <2>1 DEF SetTop, LoopRecvInv, LoopSendInv
  <2> QED BY <1>1, <1>2, <1>7, <2>2
          DEF SetTop, Go, UpdaterInv, RestInv, ResetInv, LoopRecvInv, LoopSendInv, IndexInv
<1> QED BY <1>3, <1>4, <1>5, <1>6, <1>7

\* What the updater does to the rest: the count of a read fits.
LEMMA ProcessStep ==
  ASSUME ProcessType, UpdaterInv, Next
  PROVE  ProcessType'
<1>1. CASE SetTop
  <2>1. Len(entries) \in 0 .. Cardinality(Conns)
    BY ReadSize DEF UpdaterInv
  <2> QED BY <1>1, <2>1 DEF SetTop, Go, process, clients, ProcessType
<1>2. CASE Listen \/ Signal \/ MainStop \/ MainExit \/ Exited
  BY <1>2 DEF Listen, Signal, MainStop, MainExit, Exited, updater, gauges, clients, process, vars,
              ProcessType
<1>3. CASE UpdaterEnd \/ ResetRecv \/ ResetSend \/ ReadError \/ Read \/ ParseLine \/ ParseEnd
  BY <1>3 DEF UpdaterEnd, ResetRecv, ResetSend, ReadError, Read, ParseLine, ParseEnd, Go, process,
              clients, gauges, ProcessType
<1>4. CASE MakeRecv \/ SetRecv \/ MakeSend \/ SetSend
  BY <1>4 DEF MakeRecv, SetRecv, MakeSend, SetSend, Go, process, clients, ProcessType
<1>5. ASSUME NEW s \in Clients, RequestBegin(s) \/ RequestRead(s) \/ ScrapeCollect(s) \/ RequestEnd(s)
      PROVE  ProcessType'
  <2>1. req' \in [Clients -> {"none", "head", "gather", "answer"}]
    BY <1>5 DEF RequestBegin, RequestRead, ScrapeCollect, RequestEnd, ProcessType
  <2>2. todo' \in [Clients -> SUBSET Families]
    BY <1>5 DEF RequestBegin, RequestRead, ScrapeCollect, RequestEnd, ProcessType
  <2> QED BY <1>5, <2>1, <2>2
          DEF RequestBegin, RequestRead, ScrapeCollect, RequestEnd, ProcessType, process, updater, gauges
<1> QED BY <1>1, <1>2, <1>3, <1>4, <1>5 DEF Next, Updater

\* The invariant holds at the start and is kept by every step: the updater's part
\* moves with the updater alone, whatever main, the server and the scrapes do.
THEOREM ExporterInvariance == Spec => []IInv
<1>1. Init => IInv
  <2> SUFFICES ASSUME Init PROVE IInv
    OBVIOUS
  <2>1. ProcessType
    <3>1. Cardinality(Conns) \in Nat
      BY ExporterAssumption, FS_CardinalityType
    <3> QED BY <3>1 DEF Init, ProcessType
  <2>2. PageInv /\ ReadInv /\ ParseInv
    <3>1. /\ page \in Seq(PageLine) /\ entries \in Seq(Entry) /\ Len(page) = 0 /\ Len(entries) = 0
          /\ upc = "wait"
      BY DEF Init
    <3> QED BY <3>1 DEF PageInv, ReadInv, ParseInv, ParsedTo, OncePerConn
  <2> QED BY <2>1, <2>2
          DEF Init, IInv, UpdaterInv, RestInv, ResetInv, LoopRecvInv, LoopSendInv, IndexInv
<1>2. IInv /\ [Next]_vars => IInv'
  <2> SUFFICES ASSUME ProcessType, UpdaterInv, [Next]_vars PROVE IInv'
    BY DEF IInv
  <2>1. CASE UNCHANGED vars
    <3>1. UNCHANGED <<updater, gauges>> /\ UNCHANGED <<main, srv, upc, topAddrs, req, todo>>
      BY <2>1 DEF vars, process, updater, gauges, clients
    <3> QED BY <3>1, UpdaterIdle DEF IInv, ProcessType
  <2>2. CASE Next
    <3>1. CASE Listen \/ Signal \/ MainStop \/ MainExit \/ Exited
               \/ \E s \in Clients : RequestBegin(s) \/ RequestRead(s) \/ ScrapeCollect(s) \/ RequestEnd(s)
      <4>1. UNCHANGED <<updater, gauges>>
        BY <3>1 DEF Listen, Signal, MainStop, MainExit, Exited, RequestBegin, RequestRead,
               ScrapeCollect, RequestEnd, vars
      <4> QED BY <2>2, <4>1, UpdaterIdle, ProcessStep DEF IInv
    <3>2. CASE Updater
      BY <2>2, <3>2, BeforeLoop, ParseStep, InLoop, ProcessStep DEF Updater, IInv
    <3> QED BY <2>2, <3>1, <3>2 DEF Next
  <2> QED BY <2>1, <2>2
<1> QED BY <1>1, <1>2, PTL DEF Spec

\* The collector, its gauges and the scrapes stay well typed, for any number of
\* connections and scrapes.
THEOREM ExporterTypeCorrect == Spec => []TypeOK
<1>1. IInv => TypeOK
  <2> SUFFICES ASSUME IInv PROVE TypeOK
    OBVIOUS
  <2>1. /\ ProcessType /\ ReadInv /\ RestInv /\ ResetInv /\ LoopRecvInv /\ LoopSendInv /\ IndexInv
        /\ ParseInv /\ Len(entries) \in Nat
    BY LenProperties DEF IInv, UpdaterInv, ReadInv
  <2>2. k \in 1 .. ((IF upc = "parse" THEN Len(page) ELSE Len(entries)) + 1)
    BY <2>1 DEF ProcessType, RestInv, ResetInv, IndexInv, ParseInv
  <2>3. \A n \in 0 .. Len(entries) : ConnsOf(entries, n) \subseteq Conns
    <3>1. ASSUME NEW j \in 1 .. Len(entries) PROVE entries[j].conn \in Conns
      <4>1. entries[j] \in Entry
        BY <2>1, ElementOfSeq DEF ReadInv
      <4> QED BY <4>1 DEF Entry
    <3> QED BY <2>1, <3>1 DEF ConnsOf
  <2>4. DOMAIN NoSeries = {}
    BY DEF NoSeries
  <2>5. DOMAIN trafficRecv \subseteq Conns
    BY <2>1, <2>3, <2>4 DEF ProcessType, ParseInv, RestInv, ResetInv, LoopRecvInv, IndexInv, Holds
  <2>6. DOMAIN trafficSend \subseteq Conns
    BY <2>1, <2>3, <2>4 DEF ProcessType, ParseInv, RestInv, ResetInv, LoopSendInv, IndexInv, Holds
  <2> QED BY <2>1, <2>2, <2>5, <2>6 DEF ProcessType, TypeOK
<1> QED BY <1>1, ExporterInvariance, PTL

\* No update mixes two reads: each family holds series of the latest read only,
\* and a series of sent bytes has its series of received bytes outside a reset.
THEOREM NoMixedReads == Spec => []NoStaleSeries
<1>1. IInv => NoStaleSeries
  <2> SUFFICES ASSUME IInv PROVE NoStaleSeries
    OBVIOUS
  <2>1. /\ ProcessType /\ ReadInv /\ RestInv /\ ResetInv /\ LoopRecvInv /\ LoopSendInv /\ IndexInv
        /\ ParseInv /\ Len(entries) \in Nat
    BY LenProperties DEF IInv, UpdaterInv, ReadInv
  <2>2. Listed = ConnsOf(entries, Len(entries))
    BY <2>1 DEF ReadInv, Listed, ConnsOf, Range
  <2>3. \A n \in 0 .. Len(entries) : \A m \in 0 .. n : ConnsOf(entries, m) \subseteq ConnsOf(entries, n)
    BY <2>1 DEF ConnsOf
  <2>4. DOMAIN NoSeries = {}
    BY DEF NoSeries
  <2>5. CASE upc \in {"wait", "ended", "reset", "read", "parse"}
    BY <2>1, <2>2, <2>4, <2>5 DEF ParseInv, RestInv, ResetInv, NoStaleSeries, Holds
  <2>6. CASE upc \in {"recv", "setrecv", "send", "setsend"}
    <3> DEFINE m == IF upc = "setsend" THEN k ELSE k - 1
               n == IF upc = "recv" THEN k - 1 ELSE k
    <3>1. DOMAIN trafficSend = ConnsOf(entries, m) /\ DOMAIN trafficRecv = ConnsOf(entries, n)
      BY <2>1, <2>6 DEF LoopRecvInv, LoopSendInv, Holds
    <3>2. n \in 0 .. Len(entries) /\ m \in 0 .. n /\ Len(entries) \in 0 .. Len(entries)
      BY <2>1, <2>6 DEF IndexInv
    <3> HIDE DEF m, n
    <3>3. /\ ConnsOf(entries, m) \subseteq ConnsOf(entries, n)
          /\ ConnsOf(entries, n) \subseteq ConnsOf(entries, Len(entries))
      BY <2>3, <3>2
    <3> QED BY <2>2, <3>1, <3>3 DEF NoStaleSeries
  <2> QED BY <2>1, <2>5, <2>6 DEF ProcessType
<1> QED BY <1>1, ExporterInvariance, PTL

\* After a successful update the gauges are what the kernel module had to print,
\* except the sent bytes of a last line that the page cuts in its last number.
THEOREM GaugesExact == Spec => []GaugesMatchRead
<1>1. IInv => GaugesMatchRead
  <2> DEFINE n == Len(entries)
             C == ConnsOf(entries, n)
  <2> SUFFICES ASSUME IInv, upc = "wait", fresh
               PROVE  GaugesMatchRead
    BY DEF GaugesMatchRead
  <2>1. /\ PageInv /\ ReadInv /\ ParsedTo(Len(page)) /\ n \in Nat /\ Len(page) \in Nat
        /\ DOMAIN page = 1 .. Len(page)
        /\ Holds(trafficRecv, entries, n) /\ RecvSet(trafficRecv, entries, n)
        /\ Holds(trafficSend, entries, n) /\ SendSet(trafficSend, entries, n)
        /\ topAddrs = n
    BY LenProperties DEF IInv, UpdaterInv, PageInv, ReadInv, RestInv, ParseInv
  <2>2. DOMAIN trafficRecv = C /\ DOMAIN trafficSend = C
    BY <2>1 DEF Holds
  <2>3. ASSUME NEW j \in DOMAIN page, IsWhole(page[j])
        PROVE  /\ page[j].conn \in DOMAIN trafficRecv \cap DOMAIN trafficSend
               /\ trafficRecv[page[j].conn] = Float64(page[j].recv)
               /\ trafficSend[page[j].conn] = Float64(page[j].send)
    <3>1. Parses(page[j]) /\ j \in 1 .. Len(page) /\ page[j].counts = <<page[j].recv, page[j].send>>
      BY <2>1, <2>3 DEF PageInv, FaithfulLine, IsWhole
    <3>2. PICK i \in 1 .. n : entries[i] = EntryOf(page[j])
      BY <2>1, <3>1 DEF ParsedTo
    <3>3. entries[i].conn = page[j].conn /\ entries[i].recv = page[j].recv /\ entries[i].send = page[j].send
      BY <3>1, <3>2 DEF EntryOf
    <3>4. page[j].conn \in C
      BY <3>3 DEF ConnsOf
    <3>5. trafficRecv[entries[i].conn] = Float64(entries[i].recv)
          /\ trafficSend[entries[i].conn] = Float64(entries[i].send)
      BY <2>1 DEF RecvSet, SendSet
    <3> QED BY <2>2, <3>3, <3>4, <3>5
  <2>4. ASSUME NEW c \in DOMAIN trafficRecv \cup DOMAIN trafficSend
        PROVE  \E j \in DOMAIN page :
                 /\ page[j].conn = c /\ c \in DOMAIN trafficRecv \cap DOMAIN trafficSend
                 /\ trafficRecv[c] = Float64(page[j].recv)
                 /\ IF j < Len(page) THEN trafficSend[c] = Float64(page[j].send)
                    ELSE \E w \in Prefixes(page[j].send) : trafficSend[c] = Float64(w)
    <3>1. PICK i \in 1 .. n : entries[i].conn = c
      BY <2>2 DEF ConnsOf
    <3>2. PICK j \in 1 .. Len(page) : Parses(page[j]) /\ entries[i] = EntryOf(page[j])
      BY <2>1 DEF ParsedTo
    <3>3. /\ page[j].conn = c /\ entries[i].recv = page[j].counts[1]
          /\ entries[i].send = page[j].counts[2]
      BY <3>1, <3>2 DEF EntryOf
    <3>4. page[j].counts[1] = page[j].recv /\ page[j].counts[2] \in Prefixes(page[j].send)
      BY <2>1, <3>2 DEF PageInv, FaithfulLine
    <3>5. trafficRecv[c] = Float64(page[j].recv) /\ trafficSend[c] = Float64(page[j].counts[2])
      BY <2>1, <3>1, <3>3, <3>4 DEF RecvSet, SendSet
    <3>6. j < Len(page) => page[j].counts[2] = page[j].send
      BY <2>1 DEF PageInv, IsWhole
    <3>7. j \in DOMAIN page
      BY <2>1
    <3> QED BY <2>2, <3>3, <3>4, <3>5, <3>6, <3>7
  <2>5. topAddrs = Cardinality(DOMAIN trafficRecv)
    BY <2>1, <2>2, ReadSize
  <2> QED BY <2>3, <2>4, <2>5 DEF GaugesMatchRead
<1> QED BY <1>1, ExporterInvariance, PTL
=============================================================================
