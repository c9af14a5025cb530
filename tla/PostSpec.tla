------------------------------ MODULE PostSpec ------------------------------
(***************************************************************************)
(* What the social network promises about posts, whatever its requests,    *)
(* its database connection and its brokers do: a post is stored once,      *)
(* notified only after that, to friends of the author only and to each at  *)
(* most as often as it is listed, and confirmed to its author only after   *)
(* it was stored.                                                          *)
(***************************************************************************)
EXTENDS Naturals, Sequences, FiniteSets

CONSTANTS Users, Friends

VARIABLES
  stored,  \* the posts ever written to the database, with their authors
  told,    \* the notifications of each user, in order
  acked    \* the posts whose author was told that all went well

\* How often x is in s.
Times(s, x) == Cardinality({k \in 1 .. Len(s) : s[k] = x})

Init == stored = {} /\ told = [u \in Users |-> <<>>] /\ acked = {}

Store(p) ==
  /\ \A q \in stored : q.n # p.n
  /\ stored' = stored \cup {p}
  /\ UNCHANGED <<told, acked>>

Tell(u, p) ==
  /\ p \in stored /\ Times(told[u], p) < Times(Friends[p.by], u)
  /\ told' = [told EXCEPT ![u] = Append(@, p)]
  /\ UNCHANGED <<stored, acked>>

Ack(p) ==
  /\ p \in stored \ acked
  /\ acked' = acked \cup {p}
  /\ UNCHANGED <<stored, told>>

\* A post the step takes: the one it adds, tells or confirms.
Next ==
  \/ \E p \in stored' : Store(p)
  \/ \E p \in stored : Ack(p) \/ \E u \in Users : Tell(u, p)

Spec == Init /\ [][Next]_<<stored, told, acked>>
=============================================================================
