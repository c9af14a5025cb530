----------------------------- MODULE FeedSocket -----------------------------
(***************************************************************************)
(* The web socket handler WsHandler (Highload Architect, websocket.go) and *)
(* the Kafka topic of one user.                                            *)
(*                                                                         *)
(* The topic holds the notifications of the user, one partition; topics of *)
(* different users are independent.  Every open socket of the user runs a  *)
(* handler with a reader of the consumer group "feed" on the topic.  The   *)
(* group gives the partition to one of its members, anew whenever a member *)
(* joins or leaves; a new owner starts at the committed offset.  A handler *)
(* learns that its client has gone only from a write: the context of a     *)
(* request is never cancelled and nobody reads the socket, so it stays in  *)
(* the group, blocked in ReadMessage.                                      *)
(***************************************************************************)
EXTENDS Naturals, FiniteSets

CONSTANTS
  Handlers,     \* goroutines that may run WsHandler for the user
  NoHandler,    \* "nobody"
  MaxMessages,  \* bound: messages of the topic
  MaxConnects   \* bound: sockets opened

ASSUME SocketAssumption ==
  /\ NoHandler \notin Handlers
  /\ MaxMessages \in Nat /\ MaxConnects \in Nat

VARIABLES
  last,      \* offset of the last message of the topic; messages are 1 .. last
  offset,    \* the committed offset of the group: messages up to it are read
  next,      \* the owner has fetched the messages up to this one
  owner,     \* the handler that has the partition
  pc,        \* where each handler is
  msg,       \* the message a handler has fetched, 0 for none
  up,        \* the client at the other end is there
  got,       \* how often the user's clients received each message
  connects,  \* sockets opened so far
  shared,    \* at some time the group had two members
  troubled   \* a client left, a read failed or the process died

vars == <<last, offset, next, owner, pc, msg, up, got, connects, shared, troubled>>

Messages == 1 .. MaxMessages

Members == {h \in Handlers : pc[h] # "none"}

Init ==
  /\ last = 0 /\ offset = 0 /\ next = 0
  /\ owner = NoHandler
  /\ pc = [h \in Handlers |-> "none"]
  /\ msg = [h \in Handlers |-> 0]
  /\ up = [h \in Handlers |-> FALSE]
  /\ got = [m \in Messages |-> 0]
  /\ connects = 0
  /\ shared = FALSE /\ troubled = FALSE

\* The group gives the partition to one of its members, who starts at pos.
Rebalance(members, pos) ==
  /\ owner' \in IF members = {} THEN {NoHandler} ELSE members
  /\ next' = pos

\* Mutant: the handler returns without closing its reader.
Return_unclosed(h, pos) ==
  /\ offset' = pos
  /\ pc' = [pc EXCEPT ![h] = "none"]
  /\ msg' = [msg EXCEPT ![h] = 0]
  /\ up' = [up EXCEPT ![h] = FALSE]
  /\ UNCHANGED <<owner, next>>

\* The handler returns (conn.Close, kafkaClient.Close), with pos committed.
Return(h, pos) ==
  /\ offset' = pos
  /\ pc' = [pc EXCEPT ![h] = "none"]
  /\ msg' = [msg EXCEPT ![h] = 0]
  /\ up' = [up EXCEPT ![h] = FALSE]
  /\ Rebalance(Members \ {h}, pos)
-----------------------------------------------------------------------------
\* notifyFriends has written a post to the topic of the user.
Publish ==
  /\ last < MaxMessages
  /\ last' = last + 1
  /\ UNCHANGED <<offset, next, owner, pc, msg, up, got, connects, shared, troubled>>

\* Mutant: a new reader starts behind the last message.
Connect_end(h) ==
  /\ pc[h] = "none" /\ connects < MaxConnects
  /\ connects' = connects + 1
  /\ pc' = [pc EXCEPT ![h] = "read"]
  /\ up' = [up EXCEPT ![h] = TRUE]
  /\ shared' = (shared \/ Members # {})
  /\ Rebalance(Members \cup {h}, last)
  /\ UNCHANGED <<last, offset, msg, got, troubled>>

\* Upgrade, NewReader: the handler joins the group.
Connect(h) ==
  /\ pc[h] = "none" /\ connects < MaxConnects
  /\ connects' = connects + 1
  /\ pc' = [pc EXCEPT ![h] = "read"]
  /\ up' = [up EXCEPT ![h] = TRUE]
  /\ shared' = (shared \/ Members # {})
  /\ Rebalance(Members \cup {h}, offset)
  /\ UNCHANGED <<last, offset, msg, got, troubled>>

\* The client goes away.
Disconnect(h) ==
  /\ up[h]
  /\ up' = [up EXCEPT ![h] = FALSE]
  /\ troubled' = TRUE
  /\ UNCHANGED <<last, offset, next, owner, pc, msg, got, connects, shared>>

\* First half of ReadMessage: the owner of the partition fetches a message.
FetchMessage(h) ==
  /\ pc[h] = "read" /\ owner = h /\ next < last
  /\ next' = next + 1
  /\ msg' = [msg EXCEPT ![h] = next + 1]
  /\ pc' = [pc EXCEPT ![h] = "commit"]
  /\ UNCHANGED <<last, offset, owner, up, got, connects, shared, troubled>>

\* Mutant: the offset is not committed before the message is written.
CommitMessage_late(h) ==
  /\ pc[h] = "commit"
  /\ pc' = [pc EXCEPT ![h] = "write"]
  /\ UNCHANGED <<last, offset, next, owner, msg, up, got, connects, shared, troubled>>

\* Second half: it commits the offset of the message.  The broker takes the
\* commit of any member, also of one that has lost the partition meanwhile.
CommitMessage(h) ==
  /\ pc[h] = "commit"
  /\ offset' = msg[h]
  /\ pc' = [pc EXCEPT ![h] = "write"]
  /\ UNCHANGED <<last, next, owner, msg, up, got, connects, shared, troubled>>

\* ReadMessage fails, possibly after the commit has reached the broker.
ReadError(h) ==
  /\ pc[h] \in {"read", "commit"}
  /\ Return(h, offset) \/ (pc[h] = "commit" /\ Return(h, msg[h]))
  /\ troubled' = TRUE
  /\ UNCHANGED <<last, got, connects, shared>>

\* WriteMessage to a client that is there.  No write deadline is set: it returns
\* when the client takes the bytes, and a client that does not read blocks it.
WriteMessage(h) ==
  /\ pc[h] = "write" /\ up[h]
  /\ got' = [got EXCEPT ![msg[h]] = IF @ < 2 THEN @ + 1 ELSE @]
  /\ msg' = [msg EXCEPT ![h] = 0]
  /\ pc' = [pc EXCEPT ![h] = "read"]
  /\ UNCHANGED <<last, offset, next, owner, up, connects, shared, troubled>>

\* WriteMessage to a client that has left: the error ends the handler, or the
\* system still takes the bytes and the handler goes on.
WriteLost(h) ==
  /\ pc[h] = "write" /\ ~up[h]
  /\ \/ Return(h, offset)
     \/ /\ msg' = [msg EXCEPT ![h] = 0]
        /\ pc' = [pc EXCEPT ![h] = "read"]
        /\ UNCHANGED <<offset, next, owner, up>>
  /\ UNCHANGED <<last, got, connects, shared, troubled>>

\* The process dies: all its handlers leave the group.
Crash ==
  /\ Members # {}
  /\ pc' = [h \in Handlers |-> "none"]
  /\ msg' = [h \in Handlers |-> 0]
  /\ up' = [h \in Handlers |-> FALSE]
  /\ owner' = NoHandler
  /\ next' = offset
  /\ troubled' = TRUE
  /\ UNCHANGED <<last, offset, got, connects, shared>>

\* The loop of WsHandler.
Loop(h) == FetchMessage(h) \/ CommitMessage(h) \/ WriteMessage(h) \/ WriteLost(h)

Next ==
  \/ Publish
  \/ \E h \in Handlers : Connect(h) \/ Disconnect(h) \/ ReadError(h) \/ Loop(h)
  \/ Crash

Spec == Init /\ [][Next]_vars

\* A handler that can go on does: Kafka answers or fails, and a write to a client
\* that has left fails or disappears in a buffer.  A write to a client that is
\* there depends on the client.
FairSpec ==
  Spec /\ \A h \in Handlers : WF_vars(FetchMessage(h) \/ CommitMessage(h) \/ WriteLost(h))
-----------------------------------------------------------------------------
(* Properties *)

(***************************************************************************)
(* Type invariant.                                                         *)
(***************************************************************************)
TypeOK ==
  /\ last \in 0 .. MaxMessages
  /\ offset \in 0 .. last
  /\ next \in 0 .. last
  /\ owner \in Members \cup {NoHandler}
  /\ pc \in [Handlers -> {"none", "read", "commit", "write"}]
  /\ msg \in [Handlers -> 0 .. last]
  /\ up \in [Handlers -> BOOLEAN]
  /\ got \in [Messages -> 0 .. 2]
  /\ connects \in 0 .. MaxConnects
  /\ shared \in BOOLEAN /\ troubled \in BOOLEAN

\* As long as nobody left and nothing failed, a committed message was received
\* or is on its way in a handler, also when the partition moves between the
\* fetch and the commit of a message.
NothingLostInPeace ==
  ~troubled =>
    \A m \in 1 .. offset : got[m] > 0 \/ \E h \in Handlers : msg[h] = m /\ pc[h] = "write"

\* As long as the group never had two members, messages are received in the order
\* of the topic and none twice: the offset is committed before the message is
\* written, so neither a broken socket, nor a failed read, nor a crash repeats one.
SoloInOrder ==
  [][~shared' => \A m \in Messages :
       got'[m] > got[m] => \A k \in Messages : k >= m => got[k] = 0]_vars

\* The clients read: none stays there for ever without taking a message.
ClientsRead == \A h \in Handlers : []<>(pc[h] # "write" \/ ~up[h])

\* When the clients read or leave, and no new sockets come any more (their number
\* is bounded), a handler that has the partition gets through the topic: the
\* topic is fetched to its end or the last handler returns.  A client that stays
\* and does not read blocks its handler, which keeps the partition.  (The
\* committed offset may stay behind: a member that has lost the partition commits
\* an old message last, and the next owner reads again from there.)
TopicDrains ==
  ClientsRead => ((owner # NoHandler /\ next < last) ~> (owner = NoHandler \/ next = last))
=============================================================================
