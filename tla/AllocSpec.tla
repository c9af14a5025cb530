----------------------------- MODULE AllocSpec -----------------------------
(***************************************************************************)
(* What the allocator of HW_05_bit_maps promises to the users of its       *)
(* module parameters, without bitmap, table, scan or lock: a set of live   *)
(* regions of blocks, each request answered in one step.                   *)
(*                                                                         *)
(*  - a request is granted the lowest region that is large enough          *)
(*    (first-fit) and overlaps no live region;                             *)
(*  - it is refused only when there is no such region, when it is empty,   *)
(*    or when MaxLive regions are live;                                    *)
(*  - a free of an address that starts a live region releases that region  *)
(*    and no other; any other address is refused and changes nothing.      *)
(***************************************************************************)
EXTENDS Integers, FiniteSets

CONSTANTS Total,      \* number of blocks of the pool
          BlockSize,  \* bytes per block
          MaxLive,    \* regions that can be live at the same time
          Callers,    \* users of the parameters
          Sizes,      \* byte counts they ask for
          Addresses,  \* addresses they free
          Null        \* the address returned by a refused request

VARIABLES up,       \* the allocator can be called
          live,     \* live regions [ptr, blocks]
          pending,  \* the request each caller is waiting for
          answer    \* the last answer each caller got

avars == <<up, live, pending, answer>>

NoRequest == [op |-> "none", arg |-> 0]
Answer(op, ok, ptr) == [op |-> op, ok |-> ok, ptr |-> ptr]
NoAnswer  == Answer("none", TRUE, Null)

\* Blocks that cover b bytes, in unbounded arithmetic.
BlocksFor(b) == (b + BlockSize - 1) \div BlockSize

RegionOf(g) == g.ptr .. (g.ptr + g.blocks - 1)
TakenBlocks == UNION {RegionOf(g) : g \in live}

\* First blocks of the free runs of n blocks.
Fits(n) == {s \in 0 .. (Total - n) : (s .. (s + n - 1)) \cap TakenBlocks = {}}

Init == /\ up = FALSE
        /\ live = {}
        /\ pending = [c \in Callers |-> NoRequest]
        /\ answer = [c \in Callers |-> NoAnswer]

Request(c) ==
  /\ up
  /\ pending[c] = NoRequest
  /\ \E r \in [op : {"alloc"}, arg : Sizes] \cup [op : {"free"}, arg : Addresses] :
       pending' = [pending EXCEPT ![c] = r]
  /\ answer' = [answer EXCEPT ![c] = NoAnswer]
  /\ UNCHANGED <<up, live>>

Reply(c, a) == /\ answer' = [answer EXCEPT ![c] = a]
               /\ pending' = [pending EXCEPT ![c] = NoRequest]
               /\ UNCHANGED up

Grant(c) ==
  /\ pending[c].op = "alloc"
  /\ Cardinality(live) < MaxLive
  /\ LET n == BlocksFor(pending[c].arg)
     IN  /\ n > 0
         /\ \E s \in Fits(n) :
              /\ \A t \in Fits(n) : s <= t
              /\ live' = live \cup {[ptr |-> s, blocks |-> n]}
              /\ Reply(c, Answer("alloc", TRUE, s))

Refuse(c) ==
  /\ pending[c].op = "alloc"
  /\ \/ pending[c].arg = 0
     \/ Cardinality(live) >= MaxLive
     \/ Fits(BlocksFor(pending[c].arg)) = {}
  /\ Reply(c, Answer("alloc", FALSE, Null))
  /\ UNCHANGED live

Release(c) ==
  /\ pending[c].op = "free"
  /\ \E g \in live :
       /\ g.ptr = pending[c].arg
       /\ live' = live \ {g}
  /\ Reply(c, Answer("free", TRUE, pending[c].arg))

Reject(c) ==
  /\ pending[c].op = "free"
  /\ \A g \in live : g.ptr # pending[c].arg
  /\ Reply(c, Answer("free", FALSE, pending[c].arg))
  /\ UNCHANGED live

\* Something else is asked (statistics, the map, text that is not a number).
Query(c) ==
  /\ up
  /\ pending[c] = NoRequest
  /\ Reply(c, Answer("query", TRUE, Null))
  /\ UNCHANGED live

\* Module load and unload: unloading takes every region back.
Start == /\ ~up
         /\ up' = TRUE
         /\ live = {}
         /\ UNCHANGED <<live, pending, answer>>

Stop == /\ up
        /\ \A c \in Callers : pending[c] = NoRequest
        /\ up' = FALSE
        /\ live' = {}
        /\ UNCHANGED <<pending, answer>>

Next == \/ Start
        \/ Stop
        \/ \E c \in Callers : Request(c) \/ Query(c) \/ Grant(c) \/ Refuse(c)
                             \/ Release(c) \/ Reject(c)

Spec == Init /\ [][Next]_avars
=============================================================================
