--------------------------- MODULE StatsExporter ---------------------------
(***************************************************************************)
(* The Prometheus exporter Linux_kernel/final_work_kprobe/stats_exporter:  *)
(* internal/collector/collector.go and cmd/stats_exporter/main.go.         *)
(*                                                                         *)
(* Goroutines: the updater (every tick it reads top_addrs and sets the     *)
(* gauges), the HTTP server with one goroutine per request, and main,      *)
(* which stops the server on a signal.  A request of /metrics collects the *)
(* three metric families in any order, each under the family's own lock.   *)
(*                                                                         *)
(* Data.  A line of top_addrs is what the kernel module had to print       *)
(* (conn, recv, send) and what the page has of its two numbers (counts):   *)
(* both, or less in the last line, where the sysfs page may end.           *)
(*                                                                         *)
(* Operators named X_y are variants of X with a plausible mistake; no      *)
(* other definition uses them.                                             *)
(***************************************************************************)
EXTENDS Integers, Sequences, FiniteSets, Functions

CONSTANTS Conns, Counts,   \* connections and byte counts in top_addrs
          Clients,         \* connections of HTTP clients, a request at a time each
          RADIX_POWERS,    \* 1, 10, 100, ...
          FLOAT_EXACT,     \* 2^53: integers up to it are exact as float64
          ULPS             \* 1, 2, 4, ...: distances of the float64 above it

ASSUME ExporterAssumption ==
  /\ IsFiniteSet(Conns)
  /\ Counts \subseteq Nat
  /\ RADIX_POWERS \subseteq Nat \ {0}
  /\ FLOAT_EXACT \in Nat \ {0} /\ ULPS \subseteq Nat \ {0}
  /\ \A v \in Counts : \E u \in ULPS : v <= FLOAT_EXACT * u

VARIABLES
  signalled,               \* ctx of main is done
  main,                    \* "run", "stop", "exited"
  srv,                     \* "new", "serving", "failed", "closed"
  upc, page, entries, k,   \* updater: position, text read, parsed entries, loop index
  trafficRecv, trafficSend, topAddrs,   \* the gauges
  fresh,                   \* the last update succeeded
  req, todo                \* each client: its request, the families still to collect

gauges  == <<trafficRecv, trafficSend, topAddrs>>
process == <<signalled, main, srv>>
updater == <<upc, page, entries, k, fresh>>
clients == <<req, todo>>
vars == <<process, updater, gauges, clients>>

Families == {"recv", "send", "top"}
NoSeries == [c \in {} |-> 0]
-----------------------------------------------------------------------------
(* Conversions *)

\* The distance of the float64 numbers around v.
Ulp(v) == CHOOSE u \in ULPS : /\ v <= FLOAT_EXACT * u
                              /\ \A x \in ULPS : v <= FLOAT_EXACT * x => u <= x

\* float64(uint64): the nearest, ties to the even one.
Float64(v) ==
  LET u == Ulp(v)
      q == v \div u
      up == 2 * (v % u) > u \/ (2 * (v % u) = u /\ q % 2 = 1)
  IN  u * (IF up THEN q + 1 ELSE q)

\* What is left of a printed number whose end is cut off; all of it, when the
\* page ends right behind it.
Prefixes(v) == {v} \cup {w \in 1 .. v : \E p \in RADIX_POWERS : w = v \div p}

Line(c, r, s) == [conn |-> c, recv |-> r, send |-> s, counts |-> <<r, s>>]
Whole == {Line(c, r, s) : c \in Conns, r \in Counts, s \in Counts}

\* The numbers of a line that ends inside the addresses or behind them, inside
\* the first number, inside the second.
CutCounts(l) == {<<>>} \cup {<<w>> : w \in Prefixes(l.recv)}
                       \cup {<<l.recv, w>> : w \in Prefixes(l.send)}

\* What top_addrs can contain: one line per connection, the last perhaps cut.
Pages ==
  LET whole == {p \in UNION {[1 .. n -> Whole] : n \in 0 .. Cardinality(Conns)} :
                  \A a, b \in DOMAIN p : a # b => p[a].conn # p[b].conn}
      cut(p) == {[p EXCEPT ![Len(p)].counts = d] : d \in CutCounts(p[Len(p)])}
  IN  whole \cup UNION {cut(p) : p \in whole \ {<<>>}}

With(gauge, c, v) == [d \in DOMAIN gauge \cup {c} |-> IF d = c THEN v ELSE gauge[d]]
-----------------------------------------------------------------------------
Init ==
  /\ signalled = FALSE /\ main = "run" /\ srv = "new"
  /\ upc = "wait" /\ page = <<>> /\ entries = <<>> /\ k = 1 /\ fresh = FALSE
  /\ trafficRecv = NoSeries /\ trafficSend = NoSeries /\ topAddrs = 0
  /\ req = [s \in Clients |-> "none"] /\ todo = [s \in Clients |-> {}]

Running == main # "exited"
-----------------------------------------------------------------------------
(* main.go, Start and Stop *)

\* ListenAndServe gets its port, or returns an error that nobody reports while
\* the updater runs.
Listen ==
  /\ Running /\ srv = "new"
  /\ srv' \in {"serving", "failed"}
  /\ UNCHANGED <<signalled, main, updater, gauges, clients>>

\* SIGINT or SIGTERM.
Signal ==
  /\ ~signalled
  /\ signalled' = TRUE
  /\ UNCHANGED <<main, srv, updater, gauges, clients>>

\* main wakes up; Shutdown closes the listeners ...
MainStop ==
  /\ main = "run" /\ signalled
  /\ main' = "stop"
  /\ srv' = IF srv = "failed" THEN srv ELSE "closed"
  /\ UNCHANGED <<signalled, updater, gauges, clients>>

MainExit_join ==
  /\ main = "stop"
  /\ \A s \in Clients : req[s] = "none"
  /\ upc = "ended"
  /\ main' = "exited"
  /\ UNCHANGED <<signalled, srv, updater, gauges, clients>>

\* ... waits for the connections with a request, without a deadline (the context
\* is context.Background()), and the process ends.
MainExit ==
  /\ main = "stop"
  /\ \A s \in Clients : req[s] = "none"
  /\ main' = "exited"
  /\ UNCHANGED <<signalled, srv, updater, gauges, clients>>
-----------------------------------------------------------------------------
(* The updater *)

Go(where) == upc' = where

\* The select: a signal ends the loop (when both are ready either may be taken).
UpdaterEnd ==
  /\ Running /\ upc = "wait" /\ signalled
  /\ Go("ended")
  /\ UNCHANGED <<process, page, entries, k, fresh, gauges, clients>>

ResetRecv_keep ==
  /\ Running /\ upc = "wait"
  /\ Go("reset")
  /\ fresh' = FALSE
  /\ UNCHANGED <<process, page, entries, k, gauges, clients>>

\* A tick: Update begins with the reset of one family ...
ResetRecv ==
  /\ Running /\ upc = "wait"
  /\ trafficRecv' = NoSeries
  /\ fresh' = FALSE
  /\ Go("reset")
  /\ UNCHANGED <<process, page, entries, k, trafficSend, topAddrs, clients>>

\* ... and of the other; the variables of readTopAddrs are new.
ResetSend ==
  /\ Running /\ upc = "reset"
  /\ trafficSend' = NoSeries
  /\ page' = <<>> /\ entries' = <<>>
  /\ Go("read")
  /\ UNCHANGED <<process, k, fresh, trafficRecv, topAddrs, clients>>

\* readTopAddrs fails, when it opens the file or while it reads: Update returns
\* the error, the loop of the updater goes on.
ReadError ==
  /\ Running /\ upc \in {"read", "parse"}
  /\ page' = <<>> /\ entries' = <<>> /\ k' = 1
  /\ Go("wait")
  /\ UNCHANGED <<process, fresh, gauges, clients>>

\* The text of top_addrs comes with one read ...
Read ==
  /\ Running /\ upc = "read"
  /\ page' \in Pages
  /\ Go("parse")
  /\ UNCHANGED <<process, entries, k, fresh, gauges, clients>>

ParseLine_lax ==
  /\ Running /\ upc = "parse" /\ k <= Len(page)
  /\ LET l == page[k]
     IN  entries' = IF l.counts = <<>> THEN entries
                    ELSE Append(entries, [conn |-> l.conn, recv |-> l.counts[1],
                                          send |-> IF Len(l.counts) = 2 THEN l.counts[2] ELSE 0])
  /\ k' = k + 1
  /\ UNCHANGED <<process, upc, page, fresh, gauges, clients>>

\* ... and is parsed line by line: one that cannot be split into two addresses
\* and two numbers is skipped; a number that was cut is a number.
ParseLine ==
  /\ Running /\ upc = "parse" /\ k <= Len(page)
  /\ LET l == page[k]
     IN  entries' = IF Len(l.counts) # 2 THEN entries
                    ELSE Append(entries, [conn |-> l.conn, recv |-> l.counts[1],
                                          send |-> l.counts[2]])
  /\ k' = k + 1
  /\ UNCHANGED <<process, upc, page, fresh, gauges, clients>>

ParseEnd ==
  /\ Running /\ upc = "parse" /\ k > Len(page)
  /\ k' = 1
  /\ Go("recv")
  /\ UNCHANGED <<process, page, entries, fresh, gauges, clients>>

\* WithLabelValues makes a series with value 0, Set gives it its value.
MakeRecv ==
  /\ Running /\ upc = "recv" /\ k <= Len(entries)
  /\ trafficRecv' = With(trafficRecv, entries[k].conn, 0)
  /\ Go("setrecv")
  /\ UNCHANGED <<process, page, entries, k, fresh, trafficSend, topAddrs, clients>>

SetRecv ==
  /\ Running /\ upc = "setrecv"
  /\ trafficRecv' = With(trafficRecv, entries[k].conn, Float64(entries[k].recv))
  /\ Go("send")
  /\ UNCHANGED <<process, page, entries, k, fresh, trafficSend, topAddrs, clients>>

MakeSend ==
  /\ Running /\ upc = "send"
  /\ trafficSend' = With(trafficSend, entries[k].conn, 0)
  /\ Go("setsend")
  /\ UNCHANGED <<process, page, entries, k, fresh, trafficRecv, topAddrs, clients>>

SetSend ==
  /\ Running /\ upc = "setsend"
  /\ trafficSend' = With(trafficSend, entries[k].conn, Float64(entries[k].send))
  /\ k' = k + 1
  /\ Go("recv")
  /\ UNCHANGED <<process, page, entries, fresh, trafficRecv, topAddrs, clients>>

SetTop_index ==
  /\ Running /\ upc = "recv" /\ k > Len(entries)
  /\ topAddrs' = k
  /\ k' = 1
  /\ fresh' = TRUE
  /\ Go("wait")
  /\ UNCHANGED <<process, page, entries, trafficRecv, trafficSend, clients>>

\* After the loop: the number of entries.
SetTop ==
  /\ Running /\ upc = "recv" /\ k > Len(entries)
  /\ topAddrs' = Len(entries)
  /\ k' = 1
  /\ fresh' = TRUE
  /\ Go("wait")
  /\ UNCHANGED <<process, page, entries, trafficRecv, trafficSend, clients>>
-----------------------------------------------------------------------------
(* Requests of HTTP clients *)

\* The first bytes of a request: from here on the connection is not idle.
RequestBegin(s) ==
  /\ Running /\ srv = "serving" /\ req[s] = "none"
  /\ req' = [req EXCEPT ![s] = "head"]
  /\ UNCHANGED <<process, updater, gauges, todo>>

\* The request is complete: /metrics, or the page at / with nothing to collect.
RequestRead(s) ==
  /\ Running /\ req[s] = "head"
  /\ \E what \in {Families, {}} : todo' = [todo EXCEPT ![s] = what]
  /\ req' = [req EXCEPT ![s] = "gather"]
  /\ UNCHANGED <<process, updater, gauges>>

\* The families are gathered by goroutines of their own, while the updater goes
\* on: a scrape sees what is there, between a reset and a set too.
ScrapeCollect(s) ==
  /\ Running /\ req[s] = "gather"
  /\ \/ /\ \E f \in todo[s] : todo' = [todo EXCEPT ![s] = @ \ {f}]
        /\ UNCHANGED req
     \/ /\ todo[s] = {}
        /\ req' = [req EXCEPT ![s] = "answer"]
        /\ UNCHANGED todo
  /\ UNCHANGED <<process, updater, gauges>>

\* The client has read the answer, or has gone before or while it is written.
\* The server sets no timeouts: nothing else ends a request.
RequestEnd(s) ==
  /\ Running /\ req[s] \in {"head", "answer"}
  /\ req' = [req EXCEPT ![s] = "none"]
  /\ UNCHANGED <<process, updater, gauges, todo>>
-----------------------------------------------------------------------------
Updater == \/ UpdaterEnd \/ ResetRecv \/ ResetSend \/ ReadError \/ Read \/ ParseLine
           \/ ParseEnd \/ MakeRecv \/ SetRecv \/ MakeSend \/ SetSend \/ SetTop

\* The process is over.
Exited == main = "exited" /\ signalled /\ UNCHANGED vars

Next == \/ Listen \/ Signal \/ MainStop \/ MainExit
        \/ Updater
        \/ \E s \in Clients : RequestBegin(s) \/ RequestRead(s) \/ ScrapeCollect(s) \/ RequestEnd(s)
        \/ Exited

Spec == Init /\ [][Next]_vars

\* The Go scheduler runs every goroutine that can run; clients owe nothing.
FairSpec == /\ Spec
            /\ WF_vars(MainStop) /\ WF_vars(MainExit) /\ WF_vars(Updater)
            /\ \A s \in Clients : WF_vars(ScrapeCollect(s))
-----------------------------------------------------------------------------
(* Properties *)

(***************************************************************************)
(* Type invariant of the collector, its gauges and the running scrapes.    *)
(***************************************************************************)
TypeOK ==
  /\ main \in {"run", "stop", "exited"} /\ srv \in {"new", "serving", "failed", "closed"}
  /\ upc \in {"wait", "reset", "read", "parse", "recv", "setrecv", "send", "setsend", "ended"}
  /\ k \in 1 .. ((IF upc = "parse" THEN Len(page) ELSE Len(entries)) + 1)
  /\ DOMAIN trafficRecv \subseteq Conns /\ DOMAIN trafficSend \subseteq Conns
  /\ topAddrs \in 0 .. Cardinality(Conns)
  /\ req \in [Clients -> {"none", "head", "gather", "answer"}]
  /\ todo \in [Clients -> SUBSET Families]

IsWhole(l) == l.counts = <<l.recv, l.send>>

\* After a successful update the gauges are what the kernel module had to print:
\* every line the page has whole has its two series with its own numbers, up to
\* the rounding of float64, a session that has left the top is gone, and the
\* count is the number of sessions.  The one exception is the last line when the
\* page cuts it in its last number: its sent bytes are then a prefix of that
\* number ("Total send traffic bytes per session", the help text of collector.go,
\* is not true of that line).  A line that lost more leaves no trace.
GaugesMatchRead ==
  upc = "wait" /\ fresh =>
    /\ \A j \in DOMAIN page : IsWhole(page[j]) =>
         LET l == page[j]
         IN  /\ l.conn \in DOMAIN trafficRecv \cap DOMAIN trafficSend
             /\ trafficRecv[l.conn] = Float64(l.recv) /\ trafficSend[l.conn] = Float64(l.send)
    /\ \A c \in DOMAIN trafficRecv \cup DOMAIN trafficSend :
         \E j \in DOMAIN page :
           /\ page[j].conn = c /\ c \in DOMAIN trafficRecv \cap DOMAIN trafficSend
           /\ trafficRecv[c] = Float64(page[j].recv)
           /\ IF j < Len(page) THEN trafficSend[c] = Float64(page[j].send)
                               ELSE \E w \in Prefixes(page[j].send) : trafficSend[c] = Float64(w)
    /\ topAddrs = Cardinality(DOMAIN trafficRecv)

Listed == {e.conn : e \in Range(entries)}

\* No update mixes two reads: a family holds series of the latest read only, or,
\* before its reset, of the one before.
NoStaleSeries ==
  /\ DOMAIN trafficRecv \subseteq Listed
  /\ DOMAIN trafficSend \subseteq Listed
  /\ DOMAIN trafficSend \subseteq DOMAIN trafficRecv \/ upc = "reset"

\* The clients let go: none keeps half a request open, or an answer unread, for
\* ever.
ClientsLetGo == \A s \in Clients : []<>(req[s] \in {"none", "gather"})

\* When the clients let go, a signal ends the process, whether or not the server
\* ever got its port and whatever the updater is doing.  Without that a single
\* client keeps the process: Stop waits for its request without a deadline.
SignalEnds == ClientsLetGo => (signalled ~> main = "exited")
=============================================================================
