-------------------------- MODULE FeedSocketProofs --------------------------
(***************************************************************************)
(* Proofs about FeedSocket, for every number of handlers, messages and     *)
(* connections.                                                            *)
(***************************************************************************)
EXTENDS FeedSocket, TLAPS

\* A handler between fetch and write has a message of the topic.
MsgInv == \A h \in Handlers : pc[h] \in {"commit", "write"} => msg[h] \in 1 .. last

\* The message was received, or is committed and about to be written.
Covered(m) == got[m] > 0 \/ \E h \in Handlers : msg[h] = m /\ pc[h] = "write"

\* Without trouble: clients are there; what is committed is covered, and so is
\* all before a fetched message, and all that the owner has fetched but for the
\* message it is about to commit.
PeaceInv ==
  ~troubled =>
    /\ \A h \in Members : up[h]
    /\ \A m \in 1 .. offset : Covered(m)
    /\ \A h \in Handlers : pc[h] = "commit" => \A m \in 1 .. (msg[h] - 1) : Covered(m)
    /\ \A m \in 1 .. next : Covered(m) \/ (owner # NoHandler /\ pc[owner] = "commit" /\ msg[owner] = m)

\* One socket at a time: the only member owns the partition, its position is the
\* committed offset or, between fetch and commit, one behind it, and no message
\* after the offset, nor the one that is about to be written, was received.
SoloInv ==
  ~shared =>
    /\ \A h \in Members : owner = h
    /\ \A m \in Messages : m > offset => got[m] = 0
    /\ owner = NoHandler => next = offset
    /\ \A h \in Members :
         /\ pc[h] = "read" => next = offset
         /\ pc[h] = "commit" => next = offset + 1 /\ msg[h] = next
         /\ pc[h] = "write" => next = offset /\ msg[h] = next /\ got[next] = 0

IInv == TypeOK /\ MsgInv /\ PeaceInv /\ SoloInv

\* No handler is connected and nothing is read: the invariant holds at the start.
LEMMA InitInv == Init => IInv
<1> SUFFICES ASSUME Init PROVE IInv
  OBVIOUS
<1> USE SocketAssumption DEF Init, Members, Messages
<1>1. TypeOK
  <2>1. up \in [Handlers -> BOOLEAN] /\ pc \in [Handlers -> {"none", "read", "commit", "write"}]
    BY Zenon
  <2>2. msg \in [Handlers -> 0 .. last] /\ got \in [Messages -> 0 .. 2]
    OBVIOUS
  <2>3. last \in 0 .. MaxMessages /\ offset \in 0 .. last /\ next \in 0 .. last
        /\ connects \in 0 .. MaxConnects
    OBVIOUS
  <2>4. owner \in Members \cup {NoHandler} /\ shared \in BOOLEAN /\ troubled \in BOOLEAN
    BY Zenon
  <2> QED BY <2>1, <2>2, <2>3, <2>4, Zenon DEF TypeOK
<1>4. MsgInv
  BY DEF MsgInv
<1>2. PeaceInv
  BY DEF PeaceInv, Covered
<1>3. SoloInv
  BY DEF SoloInv
<1> QED BY <1>1, <1>2, <1>3, <1>4 DEF IInv

\* What the return of a handler leaves: it is in the group no more and has no
\* message, and another member, or nobody, has the partition.
LEMMA ReturnStep ==
  ASSUME TypeOK, MsgInv, NEW h \in Handlers, NEW pos \in 0 .. last, Return(h, pos),
         UNCHANGED <<last, got, connects, shared>>, troubled' \in BOOLEAN
  PROVE  TypeOK' /\ MsgInv' /\ Members' = Members \ {h}
<1> USE SocketAssumption DEF Return, Rebalance, TypeOK
<1>1. /\ pc' \in [Handlers -> {"none", "read", "commit", "write"}]
      /\ msg' \in [Handlers -> 0 .. last]
      /\ up' \in [Handlers -> BOOLEAN]
  OBVIOUS
<1>2. Members' = Members \ {h}
  BY DEF Members
<1>3. owner' \in Members' \cup {NoHandler}
  BY <1>2
<1>4. TypeOK'
  BY <1>1, <1>3
<1>5. MsgInv'
  BY DEF MsgInv
<1> QED BY <1>2, <1>4, <1>5

\* The state keeps its types.
LEMMA TypeStep == TypeOK /\ MsgInv /\ [Next]_vars => TypeOK' /\ MsgInv'
<1> SUFFICES ASSUME TypeOK, MsgInv, [Next]_vars PROVE TypeOK' /\ MsgInv'
  OBVIOUS
<1> USE SocketAssumption DEF TypeOK, MsgInv, Members, Messages
<1>1. CASE Publish
  BY <1>1 DEF Publish
<1>2. ASSUME NEW h \in Handlers, Connect(h) PROVE TypeOK' /\ MsgInv'
  BY <1>2 DEF Connect, Rebalance
<1>3. ASSUME NEW h \in Handlers, Disconnect(h) PROVE TypeOK' /\ MsgInv'
  BY <1>3 DEF Disconnect
<1>4. ASSUME NEW h \in Handlers, ReadError(h) PROVE TypeOK' /\ MsgInv'
  <2>1. PICK pos \in 0 .. last : Return(h, pos)
    BY <1>4 DEF ReadError
  <2> QED BY <1>4, <2>1, ReturnStep DEF ReadError
<1>5. ASSUME NEW h \in Handlers, FetchMessage(h) PROVE TypeOK' /\ MsgInv'
  BY <1>5 DEF FetchMessage
<1>6. ASSUME NEW h \in Handlers, CommitMessage(h) PROVE TypeOK' /\ MsgInv'
  BY <1>6 DEF CommitMessage
<1>7. ASSUME NEW h \in Handlers, WriteMessage(h) PROVE TypeOK' /\ MsgInv'
  BY <1>7 DEF WriteMessage
<1>8. ASSUME NEW h \in Handlers, WriteLost(h) PROVE TypeOK' /\ MsgInv'
  <2>1. CASE Return(h, offset)
    BY <1>8, <2>1, ReturnStep DEF WriteLost
  <2>2. CASE /\ msg' = [msg EXCEPT ![h] = 0]
             /\ pc' = [pc EXCEPT ![h] = "read"]
             /\ UNCHANGED <<offset, next, owner, up>>
    BY <1>8, <2>2 DEF WriteLost
  <2> QED BY <1>8, <2>1, <2>2 DEF WriteLost
<1>9. CASE Crash
  BY <1>9 DEF Crash
<1>10. CASE UNCHANGED vars
  BY <1>10 DEF vars
<1> QED BY <1>1, <1>2, <1>3, <1>4, <1>5, <1>6, <1>7, <1>8, <1>9, <1>10 DEF Next, Loop

\* Without trouble nothing that is committed is lost.
LEMMA PeaceStep == TypeOK /\ MsgInv /\ PeaceInv /\ [Next]_vars => PeaceInv'
<1> SUFFICES ASSUME TypeOK, MsgInv, PeaceInv, [Next]_vars, ~troubled'
             PROVE  PeaceInv'
  BY DEF PeaceInv
<1> USE SocketAssumption DEF TypeOK, MsgInv, Members, Messages, PeaceInv, Covered
<1>1. CASE Publish
  BY <1>1 DEF Publish
<1>2. ASSUME NEW h \in Handlers, Connect(h) PROVE PeaceInv'
  BY <1>2 DEF Connect, Rebalance
<1>3. ASSUME NEW h \in Handlers, Disconnect(h) \/ ReadError(h) PROVE FALSE
  BY <1>3 DEF Disconnect, ReadError
<1>5. ASSUME NEW h \in Handlers, FetchMessage(h) PROVE PeaceInv'
  BY <1>5 DEF FetchMessage
<1>6. ASSUME NEW h \in Handlers, CommitMessage(h) PROVE PeaceInv'
  BY <1>6 DEF CommitMessage
<1>7. ASSUME NEW h \in Handlers, WriteMessage(h) PROVE PeaceInv'
  BY <1>7 DEF WriteMessage
<1>8. ASSUME NEW h \in Handlers, WriteLost(h) PROVE FALSE
  BY <1>8 DEF WriteLost
<1>9. CASE Crash
  BY <1>9 DEF Crash
<1>10. CASE UNCHANGED vars
  BY <1>10 DEF vars
<1> QED BY <1>1, <1>2, <1>3, <1>5, <1>6, <1>7, <1>8, <1>9, <1>10 DEF Next, Loop

\* With one socket at a time position, offset and messages keep step.
LEMMA SoloStep == TypeOK /\ MsgInv /\ SoloInv /\ [Next]_vars => SoloInv'
<1> SUFFICES ASSUME TypeOK, MsgInv, SoloInv, [Next]_vars, ~shared'
             PROVE  SoloInv'
  BY DEF SoloInv
<1> USE SocketAssumption DEF TypeOK, MsgInv, Members, Messages, SoloInv
<1>1. CASE Publish
  BY <1>1 DEF Publish
<1>2. ASSUME NEW h \in Handlers, Connect(h) PROVE SoloInv'
  BY <1>2 DEF Connect, Rebalance
<1>3. ASSUME NEW h \in Handlers, Disconnect(h) PROVE SoloInv'
  BY <1>3 DEF Disconnect
<1>4. ASSUME NEW h \in Handlers, ReadError(h) PROVE SoloInv'
  <2>1. PICK pos \in 0 .. last : Return(h, pos) /\ pos >= offset
    BY <1>4 DEF ReadError
  <2>2. Members' = {} /\ owner' = NoHandler
    BY <1>4, <2>1 DEF ReadError, Return, Rebalance
  <2> QED BY <1>4, <2>1, <2>2 DEF ReadError, Return, Rebalance
<1>5. ASSUME NEW h \in Handlers, FetchMessage(h) PROVE SoloInv'
  BY <1>5 DEF FetchMessage
<1>6. ASSUME NEW h \in Handlers, CommitMessage(h) PROVE SoloInv'
  BY <1>6 DEF CommitMessage
<1>7. ASSUME NEW h \in Handlers, WriteMessage(h) PROVE SoloInv'
  BY <1>7 DEF WriteMessage
<1>8. ASSUME NEW h \in Handlers, WriteLost(h) PROVE SoloInv'
  <2>1. CASE Return(h, offset)
    <3>1. h \in Members /\ \A k \in Members : k = h
      BY <1>8 DEF WriteLost
    <3>2. Members' = {} /\ owner' = NoHandler
      BY <2>1, <3>1, <1>8, ReturnStep DEF WriteLost, Return, Rebalance
    <3>3. next' = offset' /\ offset' = offset /\ got' = got
      BY <1>8, <2>1, <3>2 DEF WriteLost, Return, Rebalance
    <3> QED BY <1>8, <3>2, <3>3 DEF WriteLost
  <2>2. CASE /\ msg' = [msg EXCEPT ![h] = 0]
             /\ pc' = [pc EXCEPT ![h] = "read"]
             /\ UNCHANGED <<offset, next, owner, up>>
    <3>1. pc[h] = "write" /\ got' = got /\ Members' = Members
      BY <1>8, <2>2 DEF WriteLost
    <3> QED BY <1>8, <2>2, <3>1 DEF WriteLost
  <2> QED BY <1>8, <2>1, <2>2 DEF WriteLost
<1>9. CASE Crash
  BY <1>9 DEF Crash
<1>10. CASE UNCHANGED vars
  BY <1>10 DEF vars
<1> QED BY <1>1, <1>2, <1>3, <1>4, <1>5, <1>6, <1>7, <1>8, <1>9, <1>10 DEF Next, Loop

\* The inductive invariant holds in every reachable state of WsHandler, the
\* topic and the consumer group.
THEOREM SocketInvariance == Spec => []IInv
<1>1. IInv /\ [Next]_vars => IInv'
  BY TypeStep, PeaceStep, SoloStep DEF IInv
<1> QED BY <1>1, InitInv, PTL DEF Spec

\* Offset and position stay in the topic, the partition belongs to a member of
\* the group, also when handlers return and the process dies.
THEOREM SocketTypeCorrect == Spec => []TypeOK
<1>1. IInv => TypeOK
  BY DEF IInv
<1> QED BY <1>1, SocketInvariance, PTL

\* Without failures no committed message is lost, however the partition moves
\* between the fetch and the commit of ReadMessage.
THEOREM NothingLost == Spec => []NothingLostInPeace
<1>1. IInv => NothingLostInPeace
  BY DEF IInv, PeaceInv, NothingLostInPeace, Covered
<1> QED BY <1>1, SocketInvariance, PTL

\* With one socket at a time messages arrive in the order of the topic and none
\* twice, whatever reads, clients and the process do.
THEOREM InOrder == Spec => SoloInOrder
<1>1. ASSUME IInv, [Next]_vars, ~shared', NEW m \in Messages, got'[m] > got[m],
             NEW k \in Messages, k >= m
      PROVE  got[k] = 0
  <2>1. ASSUME NEW h \in Handlers, WriteMessage(h) PROVE got[k] = 0
    <3>1. got \in [Messages -> 0 .. 2]
      BY <1>1, Zenon DEF IInv, TypeOK
    <3>2. m = msg[h]
      BY <1>1, <2>1, <3>1 DEF WriteMessage
    <3>3. h \in Members /\ pc[h] = "write" /\ ~shared
      BY <1>1, <2>1 DEF WriteMessage, Members
    <3>4. offset = next /\ msg[h] = next /\ got[next] = 0
      BY <1>1, <3>3 DEF IInv, SoloInv
    <3>5. \A n \in Messages : n > offset => got[n] = 0
      BY <1>1, <3>3, Zenon DEF IInv, SoloInv
    <3> QED BY <1>1, <3>2, <3>4, <3>5 DEF Messages
  <2>2. ~(\E h \in Handlers : WriteMessage(h)) => got' = got
    <3>1. ASSUME NEW h \in Handlers, Loop(h), ~WriteMessage(h) PROVE got' = got
      BY <3>1, Zenon DEF Loop, FetchMessage, CommitMessage, WriteLost
    <3>2. ASSUME NEW h \in Handlers, Connect(h) \/ Disconnect(h) \/ ReadError(h) PROVE got' = got
      BY <3>2, Zenon DEF Connect, Disconnect, ReadError
    <3>3. Publish \/ Crash \/ UNCHANGED vars => got' = got
      BY Zenon DEF Publish, Crash, vars
    <3> QED BY <1>1, <3>1, <3>2, <3>3, Zenon DEF Next
  <2>3. got[m] \in Nat
    BY <1>1 DEF IInv, TypeOK
  <2> QED BY <1>1, <2>1, <2>2, <2>3
<1>2. IInv /\ [Next]_vars =>
        [~shared' => \A m \in Messages :
           got'[m] > got[m] => \A k \in Messages : k >= m => got[k] = 0]_vars
  BY <1>1
<1> QED BY <1>2, SocketInvariance, PTL DEF Spec, SoloInOrder
=============================================================================
