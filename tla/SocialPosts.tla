---------------------------- MODULE SocialPosts ----------------------------
(***************************************************************************)
(* Posts, feeds, friends and accounts of the social network service        *)
(* (Highload Architect).                                                   *)
(*                                                                         *)
(* Every HTTP request is a goroutine; all of them, and the goroutine that  *)
(* makes mock data, share one pgx connection (database.go).  The           *)
(* connection takes one statement at a time.  A statement on a busy or     *)
(* closed connection is refused: Exec and QueryRow report that, Query      *)
(* reports it only when it still has to prepare the statement; otherwise   *)
(* the rows end at once with an error that the handlers do not ask for.    *)
(* Redis caches feeds, Kafka has a topic per user (FeedSocket reads it).   *)
(*                                                                         *)
(* c.JSON may be called several times in a request: the client sees the    *)
(* status of the first call and the bodies of all of them.                 *)
(***************************************************************************)
EXTENDS Naturals, Sequences, FiniteSets

CONSTANTS
  Users,        \* registered users
  NoUser,       \* a request without a valid token
  Authors,      \* those who send posts, maybe NoUser among them
  Readers,      \* those who ask for feeds (see CacheFeed)
  Friends,      \* per user the friend_id's of "Friend", and of Tarantool
  Requests,     \* goroutines of the HTTP server
  NoList, Null, \* no feed; the feed "null"
  Settings,     \* environment: DB_MOCK_DATA, TARANTOOL_ENABLE, and the readers who
                \* ask with a limit that is no number, or with none
  MaxRows,      \* bound, per setting: posts and accounts of requests
  MockRows,     \* bound: friend pairs per batch of mock data
  MockBatches,  \* bound: batches (mockDataSize)
  MaxFaults     \* bound, per setting: lost connections and restarts

ASSUME PostsAssumption ==
  /\ NoUser \notin Users
  /\ Authors \subseteq Users \cup {NoUser} /\ Readers \subseteq Users
  /\ Friends \in [Users -> Seq(Users)]
  /\ Settings \subseteq [mock : BOOLEAN, tarantool : BOOLEAN, malformed : SUBSET Readers]
  /\ MaxRows \in [Settings -> Nat] /\ MaxFaults \in [Settings -> Nat]
  /\ MockRows \in Nat /\ MockBatches \in Nat \ {0}

VARIABLES
  env,       \* the setting the process runs with
  conn,      \* the connection: "idle", "busy" or "closed"
  tx,        \* its transaction: "none", "open" or "aborted"
  rows,      \* committed rows of "Post" and "User"
  draft,     \* rows of the open transaction
  ever,      \* rows that were ever inserted
  cache,     \* Redis: the feed kept for each user
  topic,     \* Kafka: the notifications of each user
  req,       \* the requests in progress
  acked,     \* rows whose request was answered with status 200
  made,      \* rows asked for so far
  mock,      \* createMockData: where it is, its batch and its index
  pairs,     \* mock friend pairs of this process: in the transaction, known to be
             \* committed, in Tarantool; indexes that earlier ones took in Tarantool
  faults     \* losses of the connection and restarts so far

data == <<rows, draft, ever>>
outside == <<cache, topic>>
mocking == <<mock, pairs>>
vars == <<env, conn, tx, data, outside, req, acked, made, mocking, faults>>

NoRow == [n |-> 0, table |-> "none", by |-> NoUser]

Idle == [pc |-> "idle", kind |-> "none", user |-> NoUser, row |-> NoRow, status |-> 0,
         list |-> NoList, rest |-> <<>>, low |-> {}]

\* Run starts createMockData when the setting says so.
MockStart == [pc |-> IF env.mock THEN "begin" ELSE "off", batch |-> 0, index |-> 0]

NoPairs == [draft |-> {}, pg |-> {}, tarantool |-> {}, taken |-> {}]

Init ==
  /\ env \in Settings
  /\ conn = "idle" /\ tx = "none"
  /\ rows = {} /\ draft = {} /\ ever = {}
  /\ cache = [u \in Users |-> NoList]
  /\ topic = [u \in Users |-> <<>>]
  /\ req = [r \in Requests |-> Idle]
  /\ acked = {} /\ made = 0
  /\ mock = MockStart /\ pairs = NoPairs
  /\ faults = 0
-----------------------------------------------------------------------------
(* The connection *)

\* What a statement sees: its own transaction's rows, too.
Visible == rows \cup draft

Has(s, x) == \E k \in 1 .. Len(s) : s[k] = x

\* The posts of those whom u lists as friends.
Feed(u) ==
  {p \in Visible : p.table = "Post" /\ Has(Friends[u], p.by)}

\* The server executes the statement of the goroutine that holds the connection.
Served == conn = "busy" /\ tx # "aborted"

Lock == conn = "idle" /\ conn' = "busy"

Unlock == conn' = IF conn = "busy" THEN "idle" ELSE conn

\* A failed statement aborts the transaction it is in.
Fails == tx' = IF tx = "open" /\ conn = "busy" THEN "aborted" ELSE tx

\* author_user_id must be a user; the empty id of NoUser is no uuid.
Insertable(row) == row.table = "User" \/ row.by # NoUser

\* The insertions whose answer is still out, outside a transaction.
InFlight ==
  {p \in {req[r].row : r \in {x \in Requests : req[x].pc = "inserting"}} :
     tx = "none" /\ conn = "busy" /\ Insertable(p)}

\* What the server may still make permanent when the session breaks: the commit,
\* or the insertions, under way.
Kept == IF mock.pc = "committing" /\ Served THEN {{}, draft} ELSE SUBSET InFlight

\* The session ends: the server rolls back, a statement in flight may be done.
EndSession ==
  /\ \E kept \in Kept : rows' = rows \cup kept /\ ever' = ever \cup kept
  /\ tx' = "none" /\ draft' = {}
  /\ pairs' = [pairs EXCEPT !.draft = {}]
-----------------------------------------------------------------------------
(* Requests *)

\* The status the client sees once code is written.
Sent(q, code) == IF q.status = 0 THEN code ELSE q.status

Goto(r, q, where) == req' = [req EXCEPT ![r] = [q EXCEPT !.pc = where]]

\* The handler writes its last answer and returns; what was answered is kept for
\* the requests that tell posts, the client has the others at once.
Finish(r, q, code) ==
  /\ req' = [req EXCEPT ![r] = IF q.kind \in {"create", "feed", "bad"}
                               THEN [q EXCEPT !.pc = "done", !.status = Sent(q, code)]
                               ELSE Idle]
  /\ acked' = IF Sent(q, code) = 200 /\ q.row # NoRow THEN acked \cup {q.row} ELSE acked

\* getUserIDFromHeader answers 400 without a valid token and the handler goes on.
Request(kind, u) ==
  [Idle EXCEPT !.kind = kind, !.user = u, !.status = IF u = NoUser THEN 400 ELSE 0]

Begin(r, q, where) ==
  /\ req[r].pc = "idle"
  /\ Goto(r, q, where)
  /\ UNCHANGED <<env, conn, tx, data, outside, acked, mocking, faults>>

\* The client has its answer.
Close(r) ==
  /\ req[r].pc = "done"
  /\ req' = [req EXCEPT ![r] = Idle]
  /\ UNCHANGED <<env, conn, tx, data, outside, acked, made, mocking, faults>>

\* A row with a new uuid.
NewRow(table, u) == [n |-> made + 1, table |-> table, by |-> u]

\* c.Bind cannot read the body: 400, and no statement.
BindFails(r) ==
  /\ req[r].pc = "idle"
  /\ Finish(r, [Idle EXCEPT !.kind = "bad"], 400)
  /\ UNCHANGED <<env, conn, tx, data, outside, made, mocking, faults>>
-----------------------------------------------------------------------------
(* PostCreatePost, UserRegisterPost *)

PostCreatePost(r, u) ==
  /\ made < MaxRows[env] /\ made' = made + 1
  /\ Begin(r, [Request("create", u) EXCEPT !.row = NewRow("Post", u)], "insert")

UserRegisterPost(r) ==
  /\ made < MaxRows[env] /\ made' = made + 1
  /\ Begin(r, [Idle EXCEPT !.kind = "register", !.row = NewRow("User", NoUser)], "insert")

\* Mutant: the error of the insertion is only logged.
InsertError_logged(q) == 200

\* What a failed insertion answers; PostCreatePost then writes 200 as well.
InsertError(q) == IF q.kind = "create" THEN 404 ELSE 500

\* Exec of the INSERT: refused, or on its way.
InsertStart(r) ==
  /\ req[r].pc = "insert"
  /\ \/ Lock /\ Goto(r, req[r], "inserting") /\ UNCHANGED acked
     \/ conn # "idle" /\ Finish(r, req[r], InsertError(req[r])) /\ UNCHANGED conn
  /\ UNCHANGED <<env, tx, data, outside, made, mocking, faults>>

\* Its answer: the row is in the table, or in the transaction somebody opened.
InsertEnd(r) ==
  LET q == req[r]  new == {q.row} IN
  /\ q.pc = "inserting"
  /\ Unlock
  /\ \/ /\ Served /\ Insertable(q.row)
        /\ IF tx = "open" THEN draft' = draft \cup new /\ UNCHANGED rows
                          ELSE rows' = rows \cup new /\ UNCHANGED draft
        /\ ever' = ever \cup new
        /\ IF q.kind = "create" THEN Goto(r, q, "friends") /\ UNCHANGED acked
                                ELSE Finish(r, q, 200)
        /\ UNCHANGED tx
     \/ /\ Fails    \* also by itself: a text with a zero character
        /\ Finish(r, q, InsertError(q))
        /\ UNCHANGED data
  /\ UNCHANGED <<env, outside, made, mocking, faults>>

\* notifyFriends with list as the friends of the author.
Notify(r, list) == req' = [req EXCEPT ![r] = [@ EXCEPT !.pc = "notify", !.rest = list]]

\* An error of notifyFriends is logged, and the post confirmed.
NotifyError(r) == Finish(r, req[r], 200)

\* get_friends of Tarantool, on a connection made for concurrent use.
FriendsTarantool(r) ==
  /\ req[r].pc = "friends" /\ env.tarantool
  /\ \/ Notify(r, Friends[req[r].user]) /\ UNCHANGED acked
     \/ NotifyError(r)
  /\ UNCHANGED <<env, conn, tx, data, outside, made, mocking, faults>>

\* friendsList on the connection: refused with or without an error, or running.
FriendsStart(r) ==
  /\ req[r].pc = "friends" /\ ~env.tarantool
  /\ \/ Lock /\ Goto(r, req[r], "listing") /\ UNCHANGED acked
     \/ conn # "idle" /\ NotifyError(r) /\ UNCHANGED conn
     \/ conn # "idle" /\ Notify(r, <<>>) /\ UNCHANGED <<conn, acked>>
  /\ UNCHANGED <<env, tx, data, outside, made, mocking, faults>>

\* The rows are read; when the connection breaks they just end earlier.
FriendsEnd(r) ==
  LET all == Friends[req[r].user] IN
  /\ req[r].pc = "listing"
  /\ Unlock
  /\ \/ Served /\ Notify(r, all) /\ UNCHANGED acked
     \/ conn = "closed" /\ (\E k \in 0 .. Len(all) : Notify(r, SubSeq(all, 1, k))) /\ UNCHANGED acked
     \/ conn = "busy" /\ ~Served /\ Notify(r, <<>>) /\ UNCHANGED acked
     \/ ~Served /\ NotifyError(r)
  /\ UNCHANGED <<env, tx, data, outside, made, mocking, faults>>

\* Mutant: an error leads to another attempt, though the message is written.
WriteMessages_again(r) ==
  LET q == req[r] IN
  /\ q.pc = "notify"
  /\ \/ /\ q.rest = <<>>
        /\ Finish(r, q, 200)
        /\ UNCHANGED topic
     \/ /\ q.rest # <<>>
        /\ topic' = [topic EXCEPT ![Head(q.rest)] = Append(@, q.row)]
        /\ req' = [req EXCEPT ![r].rest = Tail(@)] \/ UNCHANGED req
        /\ UNCHANGED acked
  /\ UNCHANGED <<env, conn, tx, data, cache, made, mocking, faults>>

\* WriteMessages to the topic of the next friend.  The writer asks for no
\* acknowledgement, so a message may be lost without an error; an error ends
\* the loop.
WriteMessages(r) ==
  LET q == req[r] IN
  /\ q.pc = "notify"
  /\ \/ /\ q.rest = <<>>
        /\ Finish(r, q, 200)
        /\ UNCHANGED topic
     \/ /\ q.rest # <<>>
        /\ \/ topic' = [topic EXCEPT ![Head(q.rest)] = Append(@, q.row)]
           \/ UNCHANGED topic
        /\ req' = [req EXCEPT ![r].rest = Tail(@)]
        /\ UNCHANGED acked
     \/ /\ q.rest # <<>>
        /\ NotifyError(r)
        /\ UNCHANGED topic
  /\ UNCHANGED <<env, conn, tx, data, cache, made, mocking, faults>>
-----------------------------------------------------------------------------
(* PostFeedGet *)

PostFeedGet(r, u) ==
  /\ Begin(r, [Request("feed", u) EXCEPT !.low = Feed(u)], "cache")
  /\ UNCHANGED made

\* cacheFeed: a hit is answered, an error too; the handler goes on in any case.
\* The entry is of the user and the parameters, which a reader does not change
\* here.  (Requests without a valid token have one of their own, left out.)
CacheFeed(r) ==
  LET q == req[r] IN
  /\ q.pc = "cache"
  /\ \/ cache[q.user] # NoList /\ Goto(r, [q EXCEPT !.status = Sent(q, 200)], "query")
     \/ cache[q.user] = NoList /\ Goto(r, q, "query")
     \/ Goto(r, [q EXCEPT !.status = Sent(q, 500)], "query")
  /\ UNCHANGED <<env, conn, tx, data, outside, acked, made, mocking, faults>>

\* An error of feed is answered with 404 and leaves the posts nil.
FeedError(r) == Goto(r, [req[r] EXCEPT !.list = Null, !.status = Sent(req[r], 404)], "set")

FeedRows(r, list) == Goto(r, [req[r] EXCEPT !.list = list], "set")

\* The query of feed: refused with or without an error, or running.
FeedStart(r) ==
  /\ req[r].pc = "query"
  /\ \/ Lock /\ Goto(r, req[r], "rows")
     \/ conn # "idle" /\ FeedError(r) /\ UNCHANGED conn
     \/ conn # "idle" /\ FeedRows(r, {}) /\ UNCHANGED conn
  /\ UNCHANGED <<env, tx, data, outside, acked, made, mocking, faults>>

\* Its rows, and rows.Close.  A row whose text is null (the column may be, no code
\* here writes one) fails in Scan.  rows.Err is not looked at: the rows end when
\* the connection breaks, and there are none in an aborted transaction or when
\* PostgreSQL refuses the limit, which aborts the transaction.
FeedEnd(r) ==
  LET u == req[r].user IN
  /\ req[r].pc = "rows"
  /\ Unlock
  /\ \/ Served /\ u \notin env.malformed /\ FeedRows(r, Feed(u)) /\ UNCHANGED tx
     \/ Served /\ u \notin env.malformed /\ Feed(u) # {} /\ FeedError(r) /\ UNCHANGED tx
     \/ Served /\ u \in env.malformed /\ FeedRows(r, {}) /\ Fails
     \/ conn = "closed" /\ (\E some \in SUBSET Feed(u) : FeedRows(r, some)) /\ UNCHANGED tx
     \/ conn = "busy" /\ ~Served /\ FeedRows(r, {}) /\ UNCHANGED tx
     \/ ~Served /\ FeedError(r) /\ UNCHANGED tx
  /\ UNCHANGED <<env, data, outside, acked, made, mocking, faults>>

\* Mutant: the key of the cache has no user id.
CacheSet_shared(r) ==
  LET q == req[r] IN
  /\ q.pc = "set"
  /\ cache' = [u \in Users |-> q.list]
  /\ Finish(r, q, 200)
  /\ UNCHANGED <<env, conn, tx, data, topic, made, mocking, faults>>

\* cacheSet, whose error is logged, and the last answer.
CacheSet(r) ==
  LET q == req[r] IN
  /\ q.pc = "set"
  /\ \/ cache' = [cache EXCEPT ![q.user] = q.list]
     \/ UNCHANGED cache
  /\ Finish(r, q, 200)
  /\ UNCHANGED <<env, conn, tx, data, topic, made, mocking, faults>>

\* Redis drops the feed after ten minutes, or earlier.
Expire(u) ==
  /\ cache[u] # NoList
  /\ cache' = [cache EXCEPT ![u] = NoList]
  /\ UNCHANGED <<env, conn, tx, data, topic, req, acked, made, mocking, faults>>
-----------------------------------------------------------------------------
(* Friends and accounts: one statement that changes no row.  Their answers are *)
(* left out.                                                                   *)

\* The statement names the table Friend without quotes; there is only "Friend", so
\* it fails.  It is sent with or without a valid token.
FriendSetUserIdPut(r) == Begin(r, [Idle EXCEPT !.kind = "friend"], "exec") /\ UNCHANGED made

FriendDeleteUserIdPut(r) == Begin(r, [Idle EXCEPT !.kind = "friend"], "exec") /\ UNCHANGED made

UserGetIdGet(r) == Begin(r, [Idle EXCEPT !.kind = "read"], "exec") /\ UNCHANGED made

UserSearchGet(r) == Begin(r, [Idle EXCEPT !.kind = "read"], "exec") /\ UNCHANGED made

LoginPost(r) == Begin(r, [Idle EXCEPT !.kind = "read"], "exec") /\ UNCHANGED made

Answered(r) == req' = [req EXCEPT ![r] = Idle] /\ UNCHANGED acked

\* Refused, with an error or as rows that are none, or on its way.
ExecStart(r) ==
  /\ req[r].pc = "exec"
  /\ \/ Lock /\ Goto(r, req[r], "execing") /\ UNCHANGED acked
     \/ conn # "idle" /\ UNCHANGED conn /\ Answered(r)
  /\ UNCHANGED <<env, tx, data, outside, made, mocking, faults>>

\* Mutant: login takes the one row it expects, without a loop and rows.Close.
ExecEnd_unread(r) ==
  /\ req[r].pc = "execing"
  /\ IF Served THEN UNCHANGED conn ELSE Unlock
  /\ Answered(r)
  /\ \/ Served /\ req[r].kind = "read" /\ UNCHANGED tx
     \/ Fails
  /\ UNCHANGED <<env, data, outside, made, mocking, faults>>

\* Executed; a name that is null fails in the Scan of search, which closes the rows
\* too.  Or the statement fails, in a transaction too: an id that is no uuid (get,
\* login), a search text that is no query, a table that is not there.
ExecEnd(r) ==
  /\ req[r].pc = "execing"
  /\ Unlock
  /\ Answered(r)
  /\ \/ Served /\ req[r].kind = "read" /\ UNCHANGED tx
     \/ Fails
  /\ UNCHANGED <<env, data, outside, made, mocking, faults>>
-----------------------------------------------------------------------------
(* createMockData *)

MockGoto(where) == mock' = [mock EXCEPT !.pc = where]

\* conn.Begin; pgx closes the connection when it fails.
MockBegin ==
  /\ mock.pc = "begin"
  /\ \/ Lock /\ MockGoto("beginning") /\ UNCHANGED <<tx, data, pairs>>
     \/ conn # "idle" /\ conn' = "closed" /\ MockGoto("failed") /\ EndSession
  /\ UNCHANGED <<env, outside, req, acked, made, faults>>

MockBegun ==
  /\ mock.pc = "beginning"
  /\ Unlock
  /\ IF conn = "busy" THEN tx' = "open" /\ MockGoto("batch") ELSE MockGoto("failed") /\ UNCHANGED tx
  /\ UNCHANGED <<env, data, outside, req, acked, made, pairs, faults>>

\* Exec of an INSERT into "User", "Post" or "Friend": an error ends the function
\* and leaves the transaction as it is.
MockExec ==
  /\ mock.pc = "batch"
  /\ \/ Lock /\ MockGoto("execing")
     \/ conn # "idle" /\ MockGoto("failed") /\ UNCHANGED conn
  /\ UNCHANGED <<env, tx, data, outside, req, acked, made, pairs, faults>>

\* The row is in; a friend pair goes to Tarantool next.
MockExecuted ==
  /\ mock.pc = "execing"
  /\ Unlock
  /\ \/ Served /\ MockGoto("batch") /\ UNCHANGED pairs
     \/ /\ Served /\ mock.index < MockRows * (mock.batch + 1)
        /\ MockGoto("tarantool")
        /\ pairs' = [pairs EXCEPT !.draft = @ \cup {mock.index}]
     \/ ~Served /\ MockGoto("failed") /\ UNCHANGED pairs
  /\ UNCHANGED <<env, tx, data, outside, req, acked, made, faults>>

\* The pair in Tarantool, whose primary key is the index; an error is logged.
MockTarantool ==
  /\ mock.pc = "tarantool"
  /\ \/ mock.index \notin pairs.taken /\ pairs' = [pairs EXCEPT !.tarantool = @ \cup {mock.index}]
     \/ UNCHANGED pairs
  /\ mock' = [mock EXCEPT !.pc = "batch", !.index = @ + 1]
  /\ UNCHANGED <<env, conn, tx, data, outside, req, acked, made, faults>>

\* tx.Commit; pgx closes the connection when it is refused.
MockCommit ==
  /\ mock.pc = "batch"
  /\ \/ Lock /\ MockGoto("committing") /\ UNCHANGED <<tx, data, pairs>>
     \/ conn # "idle" /\ conn' = "closed" /\ MockGoto("failed") /\ EndSession
  /\ UNCHANGED <<env, outside, req, acked, made, faults>>

\* Mutant: the roll back of an aborted transaction is not seen as an error.
MockCommitted_blind ==
  /\ mock.pc = "committing"
  /\ Unlock
  /\ rows' = IF Served THEN rows \cup draft ELSE rows
  /\ pairs' = [pairs EXCEPT !.pg = IF Served THEN @ \cup pairs.draft ELSE @, !.draft = {}]
  /\ mock' = [mock EXCEPT !.pc = IF mock.batch + 1 < MockBatches THEN "begin" ELSE "done",
                          !.batch = @ + 1]
  /\ tx' = "none" /\ draft' = {}
  /\ UNCHANGED <<env, ever, outside, req, acked, made, faults>>

\* Mutant: one batch too many.
MockCommitted_more ==
  /\ mock.pc = "committing"
  /\ Unlock
  /\ \/ /\ Served
        /\ rows' = rows \cup draft
        /\ pairs' = [pairs EXCEPT !.pg = @ \cup pairs.draft, !.draft = {}]
        /\ mock' = [mock EXCEPT !.pc = IF mock.batch < MockBatches THEN "begin" ELSE "done",
                                !.batch = @ + 1]
     \/ /\ ~Served
        /\ MockGoto("failed")
        /\ pairs' = [pairs EXCEPT !.draft = {}]
        /\ UNCHANGED rows
  /\ tx' = "none" /\ draft' = {}
  /\ UNCHANGED <<env, ever, outside, req, acked, made, faults>>

\* The server commits, or rolls an aborted transaction back, which is an error.
MockCommitted ==
  /\ mock.pc = "committing"
  /\ Unlock
  /\ \/ /\ Served
        /\ rows' = rows \cup draft
        /\ pairs' = [pairs EXCEPT !.pg = @ \cup pairs.draft, !.draft = {}]
        /\ mock' = [mock EXCEPT !.pc = IF mock.batch + 1 < MockBatches THEN "begin" ELSE "done",
                                !.batch = @ + 1]
     \/ /\ ~Served
        /\ MockGoto("failed")
        /\ pairs' = [pairs EXCEPT !.draft = {}]
        /\ UNCHANGED rows
  /\ tx' = "none" /\ draft' = {}
  /\ UNCHANGED <<env, ever, outside, req, acked, made, faults>>
-----------------------------------------------------------------------------
\* The connection to PostgreSQL breaks; nothing opens it again.
LoseConn ==
  /\ conn # "closed" /\ faults < MaxFaults[env]
  /\ faults' = faults + 1
  /\ conn' = "closed"
  /\ EndSession
  /\ UNCHANGED <<env, outside, req, acked, made, mock>>

\* The process dies and main runs again; mock data get new ids and indexes from 0.
\* The pairs in Tarantool stay, those of a batch that is rolled back too.
Restart ==
  /\ faults < MaxFaults[env]
  /\ faults' = faults + 1
  /\ conn' = "idle" /\ tx' = "none" /\ draft' = {}
  /\ \E kept \in Kept : rows' = rows \cup kept /\ ever' = ever \cup kept
  /\ req' = [r \in Requests |-> Idle]
  /\ mock' = MockStart
  /\ pairs' = [NoPairs EXCEPT !.taken = pairs.taken \cup pairs.tarantool]
  /\ UNCHANGED <<env, outside, acked, made>>
-----------------------------------------------------------------------------
\* A goroutine on its way through a handler: no step waits for another.
Step(r) ==
  \/ InsertStart(r) \/ InsertEnd(r) \/ FriendsTarantool(r) \/ FriendsStart(r) \/ FriendsEnd(r)
  \/ WriteMessages(r) \/ CacheFeed(r) \/ FeedStart(r) \/ FeedEnd(r) \/ CacheSet(r)
  \/ ExecStart(r) \/ ExecEnd(r)

Arrive(r) ==
  \/ \E u \in Authors : PostCreatePost(r, u)
  \/ \E u \in Readers : PostFeedGet(r, u)
  \/ FriendSetUserIdPut(r) \/ FriendDeleteUserIdPut(r)
  \/ UserRegisterPost(r) \/ UserGetIdGet(r) \/ UserSearchGet(r) \/ LoginPost(r)
  \/ BindFails(r)

Mock == \/ MockBegin \/ MockBegun \/ MockExec \/ MockExecuted \/ MockTarantool
        \/ MockCommit \/ MockCommitted

Next ==
  \/ \E r \in Requests : Arrive(r) \/ Step(r) \/ Close(r)
  \/ \E u \in Users : Expire(u)
  \/ Mock
  \/ LoseConn
  \/ Restart

Spec == Init /\ [][Next]_vars
-----------------------------------------------------------------------------
(* Properties *)

Pcs == {"idle", "done", "insert", "inserting", "friends", "listing", "notify", "cache", "query",
        "rows", "set", "exec", "execing"}

AllRows == [n : 1 .. MaxRows[env], table : {"Post", "User"}, by : Users \cup {NoUser}]

(***************************************************************************)
(* Type invariant.                                                         *)
(***************************************************************************)
TypeOK ==
  /\ env \in Settings
  /\ conn \in {"idle", "busy", "closed"}
  /\ tx \in {"none", "open", "aborted"}
  /\ rows \subseteq AllRows /\ draft \subseteq AllRows /\ ever \subseteq AllRows
  /\ DOMAIN cache = Users
  /\ topic \in [Users -> Seq(AllRows)]
  /\ \A r \in Requests : /\ req[r].pc \in Pcs
                         /\ req[r].row \in AllRows \cup {NoRow}
                         /\ req[r].status \in {0, 200, 400, 404, 500}
  /\ acked \subseteq AllRows
  /\ mock.pc \in {"off", "begin", "beginning", "batch", "execing", "tarantool", "committing",
                  "failed", "done"}
  /\ mock.batch \in 0 .. MockBatches

\* The goroutines with a statement under way.
Holders == {r \in Requests : req[r].pc \in {"inserting", "listing", "rows", "execing"}}

MockHolds == mock.pc \in {"beginning", "execing", "committing"}

\* The shared connection carries one statement at a time, and it is not left
\* busy: every path that takes it gives it back, those of a failing statement and
\* of a row that Scan refuses included.
ConnHeld ==
  /\ \A r, s \in Holders : r = s
  /\ MockHolds => Holders = {}
  /\ conn = "idle" => Holders = {} /\ ~MockHolds
  /\ conn = "busy" => Holders # {} \/ MockHolds

\* Without mock data a request answered with 200 has its post or account in the
\* database for good, whatever connection and process do afterwards.
AckedDurable == ~env.mock => acked \subseteq rows

\* A post that was refused (404) is in no topic; and it is not in the database
\* either, unless the connection broke or mock data are being made.
RefusedAbsent ==
  \A r \in Requests : LET q == req[r] IN
    q.pc = "done" /\ q.kind = "create" /\ q.status = 404 =>
      /\ \A u \in Users : ~Has(topic[u], q.row)
      /\ faults = 0 /\ ~env.mock => q.row \notin ever

\* What a client is told of its post or account is true: a confirmed one is kept
\* (AckedDurable), a refused one is nowhere (RefusedAbsent).
AnswersTrue == AckedDurable /\ RefusedAbsent

\* A feed kept in Redis has posts of the user's friends only, and without mock
\* data only posts that are stored for good: no post of a rolled back insertion.
CacheOwn ==
  \A u \in Users : cache[u] \notin {NoList, Null} =>
    /\ \A p \in cache[u] : p \in ever /\ p.table = "Post" /\ Has(Friends[u], p.by)
    /\ ~env.mock => cache[u] \subseteq rows

\* When createMockData returns without an error, every friend pair this process
\* put into Tarantool is committed in PostgreSQL: a batch that another goroutine's
\* failed statement aborted is not taken for a good one.  Not the other way round: a
\* failed insertion into Tarantool is logged.  Pairs that a process left in Tarantool
\* when it died in a batch are not meant either (pairs.taken).
MockMatches == mock.pc = "done" => pairs.tarantool \subseteq pairs.pg

Posts(s) == {p \in s : p.table = "Post"}

PS == INSTANCE PostSpec WITH stored <- Posts(ever), told <- topic, acked <- Posts(acked)

\* Every behaviour is one of PostSpec: stored before notified, notified only to
\* friends and to each at most as often as it is listed, stored before confirmed.
ImplementsPostSpec == PS!Spec

\* A feed that was asked for with numbers and answered with status 200 has the
\* posts that the user's friends had stored when the request came.
FeedComplete ==
  \A r \in Requests : LET q == req[r] IN
    q.pc = "done" /\ q.kind = "feed" /\ q.status = 200 /\ q.user \notin env.malformed =>
      q.low \subseteq (IF q.list = Null THEN {} ELSE q.list)
=============================================================================
