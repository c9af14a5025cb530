--------------------------- MODULE MCTrafficStats ---------------------------
(* Constants of the TrafficStats runs that a .cfg cannot write. *)
EXTENDS TrafficStats, TLC

CONSTANTS connA, connB, connZ

\* connA and connB share a hash bucket; connZ has a zero address.
TwoBuckets == [c \in Conns |-> IF c = connZ THEN 0 ELSE 1]

\* How much the connections move in a run.
TwoEach   == [c \in Conns |-> 2]
OneLarger == [c \in Conns |-> IF c = connA THEN 2 ELSE 1]

\* Tasks are interchangeable.
TaskSymmetry == Permutations(Tasks)

\* tcp_cleanup_rbuf is called with a byte count, zero or an errno (scaled down).
RecvAny == {-1, 0, 1}

\* tcp_sendmsg returns a byte count, or -EAGAIN (scaled down).
SendOrError == {1, -2}
=============================================================================
