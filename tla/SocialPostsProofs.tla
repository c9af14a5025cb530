------------------------- MODULE SocialPostsProofs -------------------------
(***************************************************************************)
(* Proofs about SocialPosts, for every set of users, friends and requests, *)
(* every setting, and every number of rows, mock data and faults.          *)
(***************************************************************************)
EXTENDS SocialPosts, SequenceTheorems, FiniteSetTheorems, TLAPS

Kinds == {"none", "create", "register", "feed", "bad", "friend", "read"}

Lists == {NoList, Null} \cup SUBSET AllRows

Statuses == {0, 200, 400, 404, 500}

ReqType == [pc : Pcs, kind : Kinds, user : Users \cup {NoUser}, row : AllRows \cup {NoRow},
            status : Statuses, list : Lists, rest : Seq(Users), low : SUBSET AllRows]

MockPcs == {"off", "begin", "beginning", "batch", "execing", "tarantool", "committing", "failed",
            "done"}

\* Where createMockData has a batch to make.
Making == {"begin", "beginning", "batch", "execing", "tarantool", "committing"}

MockType == {m \in [pc : MockPcs, batch : 0 .. MockBatches, index : Nat] :
               m.pc \in Making => m.batch < MockBatches}

PairsType == [draft : SUBSET Nat, pg : SUBSET Nat, tarantool : SUBSET Nat, taken : SUBSET Nat]

\* TypeOK, and the types of what it leaves open.
TypeInv ==
  /\ env \in Settings
  /\ conn \in {"idle", "busy", "closed"}
  /\ tx \in {"none", "open", "aborted"}
  /\ rows \subseteq AllRows /\ draft \subseteq AllRows /\ ever \subseteq AllRows
  /\ cache \in [Users -> Lists]
  /\ topic \in [Users -> Seq(AllRows)]
  /\ req \in [Requests -> ReqType]
  /\ acked \subseteq AllRows
  /\ made \in 0 .. MaxRows[env]
  /\ mock \in MockType
  /\ pairs \in PairsType
  /\ faults \in Nat

\* Rows: what is visible was inserted, numbers were given out, and without mock
\* data there is no transaction and a confirmed row is stored.
DataInv ==
  /\ rows \subseteq ever /\ draft \subseteq ever /\ acked \subseteq ever
  /\ \A p \in ever : p.n <= made
  /\ \A u \in Users : \A k \in 1 .. Len(topic[u]) : topic[u][k].n <= made
  /\ ~env.mock => tx = "none" /\ draft = {} /\ mock.pc = "off" /\ acked \subseteq rows

\* Where a request is tells what it has: a new row before the insertion, a row
\* that was inserted, for good without mock data, while friends are notified.
PathOK(q) ==
  /\ q.row.n <= made
  /\ q.row # NoRow => q.kind \in {"create", "register"}
  /\ q.pc \in {"insert", "inserting"} =>
       /\ q.row # NoRow
       /\ q.kind \in {"create", "register"} /\ q.status \in {0, 400}
       /\ q.kind = "register" => q.row.table = "User"
       /\ q.kind = "create" => /\ q.row.table = "Post" /\ q.row.by = q.user
                               /\ q.user # NoUser => q.status = 0
  /\ q.pc \in {"friends", "listing", "notify"} =>
       /\ q.kind = "create" /\ q.status = 0 /\ q.user \in Users
       /\ q.row.table = "Post" /\ q.row.by = q.user
       /\ q.row \in ever /\ (~env.mock => q.row \in rows)
  /\ q.pc \in {"cache", "query", "rows", "set"} => q.kind = "feed" /\ q.user \in Users
  /\ q.pc \in {"exec", "execing"} => q.kind \in {"friend", "read"}

\* A row whose insertion is not done yet, or was refused, is nowhere.
Unstored(q) == \/ q.pc \in {"insert", "inserting"}
               \/ q.pc = "done" /\ q.kind = "create" /\ q.status = 404

RefusedOK(q) ==
  Unstored(q) =>
     /\ \A u \in Users : ~Has(topic[u], q.row)
     /\ faults = 0 /\ ~env.mock => q.row \notin ever

\* A list that may be kept as the feed of u.
FeedOf(u, list) ==
  list \notin {NoList, Null} =>
    /\ \A p \in list : p \in ever /\ p.table = "Post" /\ Has(Friends[u], p.by)
    /\ ~env.mock => list \subseteq rows

FeedOK(q) == q.pc = "set" => FeedOf(q.user, q.list)

\* How many of the first n elements of f are x.
Count(f, n, x) == Cardinality({k \in 1 .. n : f[k] = x})

Times(s, x) == Count(s, Len(s), x)

\* The list is the part of the friends of u that comes after the first i.
After(u, i, list) ==
  /\ i + Len(list) <= Len(Friends[u])
  /\ \A k \in 1 .. Len(list) : list[k] = Friends[u][i + k]

\* Those who were told before the rest of the list comes were told at most as often
\* as they are listed before it.
TellOK(q) ==
  /\ q.pc \in {"friends", "listing"} => \A u \in Users : ~Has(topic[u], q.row)
  /\ q.pc = "notify" => \E i \in Nat :
       /\ After(q.user, i, q.rest)
       /\ \A u \in Users : Times(topic[u], q.row) <= Count(Friends[q.user], i, u)

ReqOK(q) == PathOK(q) /\ RefusedOK(q) /\ FeedOK(q) /\ TellOK(q)

ReqInv == \A r \in Requests : ReqOK(req[r])

\* No two requests have the same row, and no other row has its number.
UniqueInv ==
  /\ \A r, s \in Requests :
       r # s /\ req[r].row # NoRow /\ req[s].row # NoRow => req[r].row.n # req[s].row.n
  /\ \A r \in Requests : req[r].row # NoRow =>
       \A p \in ever : p.n = req[r].row.n => p = req[r].row

\* A friend pair in Tarantool is committed, or in the transaction; that fails only
\* with the connection, and then createMockData does not return without an error.
PairInv ==
  /\ mock.pc \in {"begin", "beginning", "done"} => pairs.tarantool \subseteq pairs.pg
  /\ mock.pc \in {"batch", "execing", "tarantool", "committing"} /\ conn # "closed" =>
       pairs.tarantool \subseteq pairs.pg \cup pairs.draft
  /\ mock.pc = "tarantool" /\ conn # "closed" => mock.index \in pairs.draft

IInv == TypeInv /\ ConnHeld /\ DataInv /\ ReqInv /\ UniqueInv /\ CacheOwn /\ PairInv
-----------------------------------------------------------------------------
(* Types *)

\* The rows that the bound allows do not change, as the setting does not.
LEMMA SameRows ==
  ASSUME UNCHANGED env
  PROVE  AllRows' = AllRows /\ Lists' = Lists /\ ReqType' = ReqType
  BY DEF AllRows, Lists, ReqType

\* A request that waits for nothing has the type of a request.
LEMMA IdleType == Idle \in ReqType
<1>1. <<>> \in Seq(Users)
  OBVIOUS
<1> QED BY <1>1, PostsAssumption DEF Idle, ReqType, Pcs, Kinds, Lists, Statuses

\* Goto changes pc of the request, and no other request.
LEMMA GotoFields ==
  ASSUME TypeInv, NEW r \in Requests, NEW q \in ReqType, NEW where \in Pcs, Goto(r, q, where)
  PROVE  /\ req' \in [Requests -> ReqType]
         /\ req'[r] = [q EXCEPT !.pc = where]
         /\ req'[r].pc = where /\ req'[r].kind = q.kind /\ req'[r].user = q.user
         /\ req'[r].row = q.row /\ req'[r].status = q.status /\ req'[r].list = q.list
         /\ req'[r].rest = q.rest
         /\ \A s \in Requests \ {r} : req'[s] = req[s]
<1>1. [q EXCEPT !.pc = where] \in ReqType
  BY DEF ReqType
<1> QED BY <1>1 DEF Goto, TypeInv, ReqType

\* Finish leaves an idle request, or one that is done, with its status.
LEMMA FinishFields ==
  ASSUME TypeInv, NEW r \in Requests, NEW q \in ReqType, NEW code \in Statuses, Finish(r, q, code)
  PROVE  /\ req' \in [Requests -> ReqType]
         /\ \/ req'[r] = Idle
            \/ /\ req'[r].pc = "done" /\ req'[r].kind = q.kind /\ req'[r].user = q.user
               /\ req'[r].row = q.row /\ req'[r].status = Sent(q, code)
               /\ req'[r].list = q.list
               /\ q.kind \in {"create", "feed", "bad"}
         /\ \A s \in Requests \ {r} : req'[s] = req[s]
         /\ acked' = acked \/ (acked' = acked \cup {q.row} /\ q.row # NoRow /\ Sent(q, code) = 200)
<1> DEFINE f == [q EXCEPT !.pc = "done", !.status = Sent(q, code)]
<1>1. Sent(q, code) \in Statuses
  BY DEF Sent, ReqType
<1>2. f \in ReqType
  BY <1>1 DEF ReqType, Pcs
<1>3. f.pc = "done" /\ f.kind = q.kind /\ f.user = q.user /\ f.row = q.row
      /\ f.status = Sent(q, code) /\ f.list = q.list
  BY DEF ReqType
<1> HIDE DEF f
<1>4. req' = [req EXCEPT ![r] = IF q.kind \in {"create", "feed", "bad"} THEN f ELSE Idle]
  BY DEF Finish, f
<1>5. acked' = acked \/ (acked' = acked \cup {q.row} /\ q.row # NoRow /\ Sent(q, code) = 200)
  BY DEF Finish
<1> QED BY <1>2, <1>3, <1>4, <1>5, IdleType DEF TypeInv

\* Notify sets the friends that are still to be told.
LEMMA NotifyFields ==
  ASSUME TypeInv, NEW r \in Requests, NEW list \in Seq(Users), Notify(r, list)
  PROVE  /\ req' \in [Requests -> ReqType]
         /\ req'[r].pc = "notify" /\ req'[r].kind = req[r].kind /\ req'[r].user = req[r].user
         /\ req'[r].row = req[r].row /\ req'[r].status = req[r].status
         /\ req'[r].list = req[r].list /\ req'[r].rest = list
         /\ \A s \in Requests \ {r} : req'[s] = req[s]
<1> DEFINE q == [req[r] EXCEPT !.pc = "notify", !.rest = list]
<1>1. req[r] \in ReqType
  BY DEF TypeInv
<1>2. q \in ReqType /\ q.pc = "notify" /\ q.kind = req[r].kind /\ q.user = req[r].user
      /\ q.row = req[r].row /\ q.status = req[r].status /\ q.list = req[r].list /\ q.rest = list
  BY <1>1 DEF ReqType, Pcs
<1>3. req' = [req EXCEPT ![r] = q]
  BY DEF Notify
<1> HIDE DEF q
<1> QED BY <1>2, <1>3 DEF TypeInv

\* A new request has the type of a request.
LEMMA RequestType ==
  ASSUME NEW kind \in Kinds, NEW u \in Users \cup {NoUser}
  PROVE  /\ Request(kind, u) \in ReqType
         /\ Request(kind, u).pc = "idle" /\ Request(kind, u).kind = kind
         /\ Request(kind, u).user = u /\ Request(kind, u).row = NoRow
         /\ Request(kind, u).status = IF u = NoUser THEN 400 ELSE 0
<1> DEFINE st == IF u = NoUser THEN 400 ELSE 0
<1>1. st \in Statuses
  BY DEF Statuses
<1>2. Request(kind, u) = [Idle EXCEPT !.kind = kind, !.user = u, !.status = st]
  BY DEF Request
<1> HIDE DEF st
<1>3. /\ Request(kind, u) \in ReqType
      /\ Request(kind, u).kind = kind /\ Request(kind, u).user = u /\ Request(kind, u).status = st
      /\ Request(kind, u).pc = Idle.pc /\ Request(kind, u).row = Idle.row
  BY <1>1, <1>2, IdleType DEF ReqType
<1> QED BY <1>3 DEF st, Idle

\* A request of another kind, which starts without a row.
LEMMA OtherType ==
  ASSUME NEW kind \in Kinds
  PROVE  /\ [Idle EXCEPT !.kind = kind] \in ReqType
         /\ [Idle EXCEPT !.kind = kind].pc = "idle" /\ [Idle EXCEPT !.kind = kind].kind = kind
         /\ [Idle EXCEPT !.kind = kind].row = NoRow /\ [Idle EXCEPT !.kind = kind].status = 0
<1>1. /\ [Idle EXCEPT !.kind = kind] \in ReqType
      /\ [Idle EXCEPT !.kind = kind].kind = kind
      /\ [Idle EXCEPT !.kind = kind].pc = Idle.pc /\ [Idle EXCEPT !.kind = kind].row = Idle.row
      /\ [Idle EXCEPT !.kind = kind].status = Idle.status
  BY IdleType DEF ReqType
<1> QED BY <1>1 DEF Idle

\* The number of a new row is within the bound.
LEMMA NewRowType ==
  ASSUME TypeInv, made < MaxRows[env], NEW table \in {"Post", "User"},
         NEW u \in Users \cup {NoUser}
  PROVE  /\ NewRow(table, u) \in AllRows
         /\ NewRow(table, u).n = made + 1 /\ NewRow(table, u).table = table
         /\ NewRow(table, u).by = u
         /\ made + 1 \in 0 .. MaxRows[env]
         /\ made \in Nat
<1>1. MaxRows[env] \in Nat /\ made \in 0 .. MaxRows[env]
  BY PostsAssumption, Zenon DEF TypeInv
<1>2. made + 1 \in 1 .. MaxRows[env] /\ made + 1 \in 0 .. MaxRows[env] /\ made \in Nat
  BY <1>1
<1> QED BY <1>2 DEF NewRow, AllRows
-----------------------------------------------------------------------------
(* Counting in lists *)

\* The places of x among the first n of f are finitely many.
LEMMA CountType ==
  ASSUME NEW f, NEW n \in Nat, NEW x
  PROVE  Count(f, n, x) \in Nat /\ IsFiniteSet({k \in 1 .. n : f[k] = x})
<1>1. IsFiniteSet(1 .. n)
  BY FS_Interval
<1>2. IsFiniteSet({k \in 1 .. n : f[k] = x})
  BY <1>1, FS_Subset
<1> QED BY <1>2, FS_CardinalityType DEF Count

\* One more element is one more x, or not.
LEMMA CountNext ==
  ASSUME NEW f, NEW n \in Nat, NEW x
  PROVE  /\ f[n + 1] = x => Count(f, n + 1, x) = Count(f, n, x) + 1
         /\ f[n + 1] # x => Count(f, n + 1, x) = Count(f, n, x)
<1> DEFINE a == {k \in 1 .. n : f[k] = x}
           b == {k \in 1 .. n + 1 : f[k] = x}
<1>1. 1 .. n + 1 = (1 .. n) \cup {n + 1} /\ n + 1 \notin 1 .. n
  OBVIOUS
<1>2. CASE f[n + 1] = x
  <2>1. b = a \cup {n + 1} /\ n + 1 \notin a
    BY <1>1, <1>2
  <2>2. IsFiniteSet(a)
    BY CountType
  <2> HIDE DEF a, b
  <2>3. Cardinality(b) = Cardinality(a) + 1
    BY <2>1, <2>2, FS_AddElement
  <2> QED BY <1>2, <2>3 DEF Count, a, b
<1>3. CASE f[n + 1] # x
  <2>1. b = a
    BY <1>1, <1>3
  <2> QED BY <1>3, <2>1 DEF Count
<1> QED BY <1>2, <1>3

\* More elements have no less of x.
LEMMA CountMore ==
  ASSUME NEW f, NEW n \in Nat, NEW m \in Nat, m <= n, NEW x
  PROVE  Count(f, m, x) <= Count(f, n, x)
<1> DEFINE a == {k \in 1 .. m : f[k] = x}
           b == {k \in 1 .. n : f[k] = x}
<1>1. IsFiniteSet(b)
  BY CountType, Zenon
<1>3. a \subseteq b
  OBVIOUS
<1> HIDE DEF a, b
<1>2. Cardinality(a) <= Cardinality(b)
  BY <1>1, <1>3, FS_Subset
<1> QED BY <1>2 DEF Count, a, b

\* Who is listed next was listed less often than in the whole list.
LEMMA CountBelow ==
  ASSUME NEW f, NEW n \in Nat, NEW m \in Nat, m < n, NEW x, f[m + 1] = x
  PROVE  Count(f, m, x) < Count(f, n, x)
<1>1. Count(f, m + 1, x) = Count(f, m, x) + 1
  BY CountNext
<1>2. Count(f, m + 1, x) <= Count(f, n, x)
  BY CountMore
<1>3. Count(f, m, x) \in Nat /\ Count(f, n, x) \in Nat
  BY CountType
<1> QED BY <1>1, <1>2, <1>3

\* Lists that agree have x equally often.
LEMMA CountSame ==
  ASSUME NEW f, NEW g, NEW n \in Nat, NEW x, \A k \in 1 .. n : f[k] = x <=> g[k] = x
  PROVE  Count(f, n, x) = Count(g, n, x)
<1>1. {k \in 1 .. n : f[k] = x} = {k \in 1 .. n : g[k] = x}
  OBVIOUS
<1> QED BY <1>1 DEF Count

\* What is not in a list is there no times.
LEMMA TimesNone ==
  ASSUME NEW s, NEW x, ~Has(s, x)
  PROVE  Times(s, x) = 0
<1>1. {k \in 1 .. Len(s) : s[k] = x} = {}
  BY DEF Has
<1> QED BY <1>1, FS_EmptySet DEF Times, Count

\* A list with one more element.
LEMMA TimesAppend ==
  ASSUME NEW S, NEW s \in Seq(S), NEW y \in S, NEW x
  PROVE  /\ Times(s, x) \in Nat
         /\ x = y => Times(Append(s, y), x) = Times(s, x) + 1
         /\ x # y => Times(Append(s, y), x) = Times(s, x)
<1> DEFINE t == Append(s, y)
<1>1. Len(s) \in Nat /\ Len(t) = Len(s) + 1 /\ t[Len(s) + 1] = y
      /\ \A k \in 1 .. Len(s) : t[k] = s[k]
  BY AppendProperties, LenProperties
<1> HIDE DEF t
<1>2. Count(t, Len(s), x) = Count(s, Len(s), x)
  BY <1>1, CountSame
<1>3. Count(s, Len(s), x) \in Nat
  BY <1>1, CountType
<1>4. /\ t[Len(s) + 1] = x => Count(t, Len(s) + 1, x) = Count(t, Len(s), x) + 1
      /\ t[Len(s) + 1] # x => Count(t, Len(s) + 1, x) = Count(t, Len(s), x)
  BY <1>1, CountNext
<1> QED BY <1>1, <1>2, <1>3, <1>4 DEF Times, t
-----------------------------------------------------------------------------
(* Steps of a request that insert nothing and tell nobody *)

Holding == {"inserting", "listing", "rows", "execing"}

\* The request takes the connection, gives it back, or leaves it alone.
Hold(r) ==
  \/ UNCHANGED conn /\ req[r].pc \notin Holding /\ req'[r].pc \notin Holding
  \/ Lock /\ req[r].pc \notin Holding /\ req'[r].pc \in Holding
  \/ Unlock /\ req[r].pc \in Holding /\ req'[r].pc \notin Holding

\* A row is confirmed only when it is inserted, and for good without mock data.
Acks(r) ==
  \/ UNCHANGED acked
  \/ /\ acked' = acked \cup {req[r].row}
     /\ req[r].row \in ever /\ (~env.mock => req[r].row \in rows)

\* Only the request changes.
Only(r) == req' \in [Requests -> ReqType] /\ \A s \in Requests \ {r} : req'[s] = req[s]

\* A failed statement aborts a transaction.
Aborts == UNCHANGED tx \/ (tx = "open" /\ tx' = "aborted")

\* A feed goes into the cache of its user.
Caches(r) ==
  UNCHANGED cache \/ (req[r].pc = "set" /\ cache' = [cache EXCEPT ![req[r].user] = req[r].list])

Local(r) ==
  /\ Only(r) /\ Hold(r) /\ Acks(r) /\ Aborts /\ Caches(r)
  /\ ReqOK(req'[r])
  /\ req'[r].row = req[r].row \/ req'[r].row = NoRow
  /\ UNCHANGED <<env, data, topic, made, mock, pairs, faults>>

\* One statement at a time, whoever of the requests moves.
LEMMA HoldStep ==
  ASSUME TypeInv, ConnHeld, NEW r \in Requests, Only(r), Hold(r), UNCHANGED mock
  PROVE  conn' \in {"idle", "busy", "closed"} /\ ConnHeld'
<1>1. /\ Holders = {s \in Requests : req[s].pc \in Holding}
      /\ Holders' = {s \in Requests : req'[s].pc \in Holding}
      /\ MockHolds' = MockHolds
  BY DEF Holders, Holding, MockHolds
<1>2. \A s \in Requests \ {r} : s \in Holders' <=> s \in Holders
  BY <1>1 DEF Only
<1>3. CASE UNCHANGED conn /\ req[r].pc \notin Holding /\ req'[r].pc \notin Holding
  <2>1. Holders' = Holders
    BY <1>1, <1>2, <1>3
  <2> QED BY <1>1, <1>3, <2>1 DEF ConnHeld, TypeInv
<1>4. CASE Lock /\ req[r].pc \notin Holding /\ req'[r].pc \in Holding
  <2>1. conn = "idle" /\ conn' = "busy" /\ Holders = {} /\ ~MockHolds
    BY <1>4 DEF Lock, ConnHeld
  <2>2. Holders' = {r}
    BY <1>1, <1>2, <1>4, <2>1
  <2> QED BY <1>1, <2>1, <2>2 DEF ConnHeld
<1>5. CASE Unlock /\ req[r].pc \in Holding /\ req'[r].pc \notin Holding
  <2>1. r \in Holders /\ ~MockHolds /\ conn # "idle"
    BY <1>1, <1>5 DEF ConnHeld
  <2>2. Holders' = {}
    BY <1>1, <1>2, <1>5, <2>1 DEF ConnHeld
  <2>3. conn' \in {"idle", "closed"}
    BY <1>5, <2>1 DEF Unlock, TypeInv
  <2> QED BY <1>1, <2>1, <2>2, <2>3 DEF ConnHeld
<1> QED BY <1>3, <1>4, <1>5 DEF Hold

\* A step that leaves the stored rows and the transaction alone keeps the invariant when the
\* request it belongs to stays as it should be.
LEMMA LocalIInv ==
  ASSUME IInv, NEW r \in Requests, Local(r)
  PROVE  IInv'
<1>1. TypeInv /\ ConnHeld /\ DataInv /\ ReqInv /\ UniqueInv /\ CacheOwn /\ PairInv
  BY DEF IInv
<1>2. conn' \in {"idle", "busy", "closed"} /\ ConnHeld'
  BY <1>1, HoldStep DEF Local
<1>3. UNCHANGED <<env, rows, draft, ever, topic, made, mock, pairs, faults>>
  BY DEF Local, data
<1>4. acked' \subseteq AllRows /\ acked' \subseteq ever /\ (~env.mock => acked' \subseteq rows)
  BY <1>1 DEF Local, Acks, TypeInv, DataInv
<1>5. tx' \in {"none", "open", "aborted"} /\ (tx = "none" => tx' = "none")
  BY <1>1 DEF Local, Aborts, TypeInv
<1>6. req[r] \in ReqType /\ req' \in [Requests -> ReqType]
      /\ \A s \in Requests \ {r} : req'[s] = req[s]
  BY <1>1 DEF Local, Only, TypeInv
<1>7. cache' \in [Users -> Lists]
  BY <1>1, <1>6 DEF Local, Caches, TypeInv, ReqType
<1>8. TypeInv'
  BY <1>1, <1>2, <1>3, <1>4, <1>5, <1>6, <1>7, SameRows DEF TypeInv
<1>9. DataInv'
  BY <1>1, <1>3, <1>4, <1>5 DEF DataInv
<1>10. ReqInv'
  <2> SUFFICES ASSUME NEW s \in Requests PROVE ReqOK(req[s])'
    BY DEF ReqInv
  <2>1. ReqOK(req'[s])
    BY <1>1, <1>6 DEF Local, ReqInv
  <2> QED BY <2>1, <1>3 DEF ReqOK, PathOK, RefusedOK, Unstored, FeedOK, TellOK, FeedOf
<1>11. UniqueInv'
  <2>1. \A s \in Requests : req'[s].row = NoRow \/ req'[s].row = req[s].row
    BY <1>6 DEF Local
  <2> QED BY <1>1, <1>3, <2>1 DEF UniqueInv
<1>12. CacheOwn'
  <2>1. \A u \in Users : FeedOf(u, cache[u])
    BY <1>1 DEF CacheOwn, FeedOf
  <2>2. \A u \in Users : FeedOf(u, cache'[u])
    <3>1. CASE UNCHANGED cache
      BY <2>1, <3>1
    <3>2. CASE req[r].pc = "set" /\ cache' = [cache EXCEPT ![req[r].user] = req[r].list]
      <4>1. FeedOf(req[r].user, req[r].list)
        BY <1>1, <3>2 DEF ReqInv, ReqOK, FeedOK
      <4> QED BY <1>1, <2>1, <3>2, <4>1 DEF TypeInv
    <3> QED BY <3>1, <3>2 DEF Local, Caches
  <2> QED BY <2>2, <1>3 DEF CacheOwn, FeedOf
<1>13. PairInv'
  <2>1. conn # "closed" \/ conn' = "closed"
    BY DEF Local, Hold, Lock, Unlock
  <2> QED BY <1>1, <1>3, <2>1 DEF PairInv
<1> QED BY <1>2, <1>8, <1>9, <1>10, <1>11, <1>12, <1>13 DEF IInv

\* An idle request promises nothing.
LEMMA IdleOK == TypeInv => ReqOK(Idle)
<1> SUFFICES ASSUME TypeInv PROVE ReqOK(Idle)
  OBVIOUS
<1>1. made \in Nat
  BY DEF TypeInv
<1> QED BY <1>1 DEF ReqOK, PathOK, RefusedOK, Unstored, FeedOK, TellOK, Idle, NoRow

\* A request that ends: its row is confirmed only when it is inserted, refused
\* only before that.
LEMMA FinishLocal ==
  ASSUME IInv, NEW r \in Requests, NEW code \in Statuses, Finish(r, req[r], code),
         req[r].kind = "create" /\ Sent(req[r], code) = 404 => Unstored(req[r]),
         Sent(req[r], code) = 200 /\ req[r].row # NoRow =>
           req[r].row \in ever /\ (~env.mock => req[r].row \in rows)
  PROVE  /\ Only(r) /\ Acks(r) /\ ReqOK(req'[r])
         /\ req'[r].pc \notin Holding
         /\ req'[r].row = req[r].row \/ req'[r].row = NoRow
<1>1. TypeInv /\ req[r] \in ReqType /\ ReqOK(req[r])
  BY DEF IInv, TypeInv, ReqInv
<1>2. /\ req' \in [Requests -> ReqType]
      /\ \A s \in Requests \ {r} : req'[s] = req[s]
      /\ acked' = acked \/ (acked' = acked \cup {req[r].row} /\ req[r].row # NoRow
                            /\ Sent(req[r], code) = 200)
  BY <1>1, FinishFields
<1>3. CASE req'[r] = Idle
  <2>1. Idle.pc \notin Holding /\ Idle.row = NoRow
    BY DEF Idle, Holding
  <2> QED BY <1>1, <1>2, <1>3, <2>1, IdleOK DEF Only, Acks
<1>4. CASE /\ req'[r].pc = "done" /\ req'[r].kind = req[r].kind /\ req'[r].user = req[r].user
           /\ req'[r].row = req[r].row /\ req'[r].status = Sent(req[r], code)
  <2>1. PathOK(req'[r]) /\ FeedOK(req'[r]) /\ TellOK(req'[r])
    BY <1>1, <1>4 DEF ReqOK, PathOK, FeedOK, TellOK
  <2>2. RefusedOK(req'[r])
    BY <1>1, <1>4 DEF ReqOK, RefusedOK, Unstored
  <2> QED BY <1>2, <1>4, <2>1, <2>2 DEF Only, Acks, ReqOK, Holding
<1> QED BY <1>1, <1>3, <1>4, FinishFields

\* PostCreatePost sends its INSERT.
LEMMA InsertStartIInv ==
  ASSUME IInv, NEW r \in Requests, InsertStart(r)
  PROVE  IInv'
<1>1. TypeInv /\ req[r] \in ReqType /\ ReqOK(req[r]) /\ req[r].pc = "insert"
  BY DEF IInv, TypeInv, ReqInv, InsertStart
<1>2. UNCHANGED <<env, tx, data, cache, topic, made, mock, pairs, faults>>
  BY DEF InsertStart, outside, mocking
<1>3. CASE Lock /\ Goto(r, req[r], "inserting") /\ UNCHANGED acked
  <2>1. /\ Only(r) /\ req'[r].pc = "inserting" /\ req'[r].kind = req[r].kind
        /\ req'[r].user = req[r].user /\ req'[r].row = req[r].row /\ req'[r].status = req[r].status
    BY <1>1, <1>3, GotoFields DEF Pcs, Only
  <2>2. ReqOK(req'[r])
    BY <1>1, <2>1 DEF ReqOK, PathOK, RefusedOK, Unstored, FeedOK, TellOK
  <2>3. Hold(r)
    BY <1>1, <1>3, <2>1 DEF Hold, Holding
  <2> QED BY <1>2, <1>3, <2>1, <2>2, <2>3, LocalIInv DEF Local, Acks, Aborts, Caches
<1>4. CASE conn # "idle" /\ Finish(r, req[r], InsertError(req[r])) /\ UNCHANGED conn
  <2>1. InsertError(req[r]) \in Statuses /\ Sent(req[r], InsertError(req[r])) # 200
    BY <1>1 DEF InsertError, Statuses, Sent, ReqOK, PathOK
  <2>2. /\ Only(r) /\ Acks(r) /\ ReqOK(req'[r]) /\ req'[r].pc \notin Holding
        /\ req'[r].row = req[r].row \/ req'[r].row = NoRow
    BY <1>1, <1>4, <2>1, FinishLocal DEF Unstored
  <2>3. Hold(r)
    BY <1>1, <1>4, <2>2 DEF Hold, Holding
  <2> QED BY <1>2, <2>2, <2>3, LocalIInv DEF Local, Aborts, Caches
<1> QED BY <1>3, <1>4 DEF InsertStart

\* The friends of a user, and the first of them, may be told.
LEMMA FriendsToTell ==
  ASSUME NEW u \in Users
  PROVE  /\ Friends[u] \in Seq(Users) /\ After(u, 0, Friends[u])
         /\ <<>> \in Seq(Users) /\ After(u, 0, <<>>)
         /\ \A k \in 0 .. Len(Friends[u]) :
              SubSeq(Friends[u], 1, k) \in Seq(Users) /\ After(u, 0, SubSeq(Friends[u], 1, k))
<1>1. Friends[u] \in Seq(Users) /\ Len(Friends[u]) \in Nat
  BY PostsAssumption, LenProperties
<1>2. After(u, 0, Friends[u])
  BY <1>1 DEF After
<1>3. <<>> \in Seq(Users) /\ After(u, 0, <<>>)
  BY <1>1 DEF After
<1>4. ASSUME NEW k \in 0 .. Len(Friends[u])
      PROVE  SubSeq(Friends[u], 1, k) \in Seq(Users) /\ After(u, 0, SubSeq(Friends[u], 1, k))
  <2> DEFINE s == SubSeq(Friends[u], 1, k)
  <2>1. /\ s \in Seq(Users) /\ Len(s) = k
        /\ \A i \in 1 .. k : s[i] = Friends[u][i] /\ i \in 1 .. Len(Friends[u])
    BY <1>1, SubSeqProperties
  <2> HIDE DEF s
  <2>2. After(u, 0, s)
    BY <1>1, <2>1 DEF After
  <2> QED BY <2>1, <2>2 DEF s
<1> QED BY <1>1, <1>2, <1>3, <1>4

\* notifyFriends goes on with a list, or ends with or without an error.
LEMMA NotifyLocal ==
  ASSUME IInv, NEW r \in Requests, req[r].pc \in {"friends", "listing", "notify"},
         \/ /\ \E list \in Seq(Users) : After(req[r].user, 0, list) /\ Notify(r, list)
            /\ req[r].pc # "notify" /\ UNCHANGED acked
         \/ Finish(r, req[r], 200)
  PROVE  /\ Only(r) /\ Acks(r) /\ ReqOK(req'[r])
         /\ req'[r].pc \notin Holding
         /\ req'[r].row = req[r].row \/ req'[r].row = NoRow
<1>1. TypeInv /\ req[r] \in ReqType /\ ReqOK(req[r])
  BY DEF IInv, TypeInv, ReqInv
<1>2. ASSUME NEW list \in Seq(Users), After(req[r].user, 0, list), Notify(r, list), UNCHANGED acked,
             req[r].pc # "notify"
      PROVE  /\ Only(r) /\ Acks(r) /\ ReqOK(req'[r])
             /\ req'[r].pc \notin Holding /\ req'[r].row = req[r].row
  <2>1. /\ Only(r) /\ req'[r].pc = "notify" /\ req'[r].kind = req[r].kind
        /\ req'[r].user = req[r].user /\ req'[r].row = req[r].row /\ req'[r].status = req[r].status
        /\ req'[r].rest = list
    BY <1>1, <1>2, NotifyFields DEF Only
  <2>3. \A u \in Users : ~Has(topic[u], req[r].row)
    BY <1>1, <1>2 DEF ReqOK, TellOK
  <2>4. \A u \in Users : Times(topic[u], req[r].row) <= Count(Friends[req[r].user], 0, u)
    <3> SUFFICES ASSUME NEW u \in Users
                 PROVE  Times(topic[u], req[r].row) <= Count(Friends[req[r].user], 0, u)
      OBVIOUS
    <3>1. Times(topic[u], req[r].row) = 0
      BY <2>3, TimesNone
    <3>2. Count(Friends[req[r].user], 0, u) \in Nat
      BY CountType
    <3> QED BY <3>1, <3>2
  <2>5. TellOK(req'[r])
    BY <1>2, <2>1, <2>4 DEF TellOK
  <2>2. ReqOK(req'[r])
    BY <1>1, <2>1, <2>5 DEF ReqOK, PathOK, RefusedOK, Unstored, FeedOK
  <2> QED BY <1>2, <2>1, <2>2 DEF Acks, Holding
<1>3. CASE Finish(r, req[r], 200)
  <2>1. 200 \in Statuses /\ Sent(req[r], 200) = 200
    BY <1>1 DEF Statuses, Sent, ReqOK, PathOK
  <2>2. req[r].row \in ever /\ (~env.mock => req[r].row \in rows)
    BY <1>1 DEF ReqOK, PathOK
  <2> QED BY <1>3, <2>1, <2>2, FinishLocal
<1> QED BY <1>2, <1>3

\* notifyFriends gets the friends from Tarantool.
LEMMA FriendsTarantoolIInv ==
  ASSUME IInv, NEW r \in Requests, FriendsTarantool(r)
  PROVE  IInv'
<1>1. req[r].pc = "friends" /\ req[r].user \in Users
  BY DEF FriendsTarantool, IInv, ReqInv, ReqOK, PathOK
<1>2. \/ /\ \E list \in Seq(Users) : After(req[r].user, 0, list) /\ Notify(r, list)
         /\ UNCHANGED acked
      \/ Finish(r, req[r], 200)
  <2>1. Friends[req[r].user] \in Seq(Users) /\ After(req[r].user, 0, Friends[req[r].user])
    BY <1>1, FriendsToTell
  <2> QED BY <2>1 DEF FriendsTarantool, NotifyError
<1>3. /\ Only(r) /\ Acks(r) /\ ReqOK(req'[r]) /\ req'[r].pc \notin Holding
      /\ req'[r].row = req[r].row \/ req'[r].row = NoRow
  BY <1>1, <1>2, NotifyLocal
<1>4. Hold(r)
  BY <1>1, <1>3 DEF Hold, Holding, FriendsTarantool
<1> QED BY <1>3, <1>4, LocalIInv DEF FriendsTarantool, outside, mocking, Local, Aborts, Caches

\* notifyFriends asks PostgreSQL for the friends.
LEMMA FriendsStartIInv ==
  ASSUME IInv, NEW r \in Requests, FriendsStart(r)
  PROVE  IInv'
<1>1. TypeInv /\ req[r] \in ReqType /\ ReqOK(req[r]) /\ req[r].pc = "friends"
  BY DEF IInv, TypeInv, ReqInv, FriendsStart
<1>2. UNCHANGED <<env, tx, data, cache, topic, made, mock, pairs, faults>>
  BY DEF FriendsStart, outside, mocking
<1>3. CASE Lock /\ Goto(r, req[r], "listing") /\ UNCHANGED acked
  <2>1. /\ Only(r) /\ req'[r].pc = "listing" /\ req'[r].kind = req[r].kind
        /\ req'[r].user = req[r].user /\ req'[r].row = req[r].row /\ req'[r].status = req[r].status
    BY <1>1, <1>3, GotoFields DEF Pcs, Only
  <2>2. ReqOK(req'[r])
    BY <1>1, <2>1 DEF ReqOK, PathOK, RefusedOK, Unstored, FeedOK, TellOK
  <2>3. Hold(r)
    BY <1>1, <1>3, <2>1 DEF Hold, Holding
  <2> QED BY <1>2, <1>3, <2>1, <2>2, <2>3, LocalIInv DEF Local, Acks, Aborts, Caches
<1>4. CASE /\ UNCHANGED conn
           /\ NotifyError(r) \/ (Notify(r, <<>>) /\ UNCHANGED acked)
  <2>1. <<>> \in Seq(Users) /\ After(req[r].user, 0, <<>>)
    BY <1>1, FriendsToTell DEF ReqOK, PathOK
  <2>2. /\ Only(r) /\ Acks(r) /\ ReqOK(req'[r]) /\ req'[r].pc \notin Holding
        /\ req'[r].row = req[r].row \/ req'[r].row = NoRow
    BY <1>1, <1>4, <2>1, NotifyLocal DEF NotifyError
  <2>3. Hold(r)
    BY <1>1, <1>4, <2>2 DEF Hold, Holding
  <2> QED BY <1>2, <2>2, <2>3, LocalIInv DEF Local, Aborts, Caches
<1> QED BY <1>3, <1>4 DEF FriendsStart

\* The rows of that query are read, or it is refused.
LEMMA FriendsEndIInv ==
  ASSUME IInv, NEW r \in Requests, FriendsEnd(r)
  PROVE  IInv'
<1>1. req[r].pc = "listing" /\ req[r].user \in Users
  BY DEF FriendsEnd, IInv, ReqInv, ReqOK, PathOK
<1>2. \/ /\ \E list \in Seq(Users) : After(req[r].user, 0, list) /\ Notify(r, list)
         /\ UNCHANGED acked
      \/ Finish(r, req[r], 200)
  BY <1>1, FriendsToTell DEF FriendsEnd, NotifyError
<1>3. /\ Only(r) /\ Acks(r) /\ ReqOK(req'[r]) /\ req'[r].pc \notin Holding
      /\ req'[r].row = req[r].row \/ req'[r].row = NoRow
  BY <1>1, <1>2, NotifyLocal
<1>4. Hold(r)
  BY <1>1, <1>3 DEF Hold, Holding, FriendsEnd
<1> QED BY <1>3, <1>4, LocalIInv DEF FriendsEnd, outside, mocking, Local, Aborts, Caches

\* PostFeedGet looks into Redis.
LEMMA CacheFeedIInv ==
  ASSUME IInv, NEW r \in Requests, CacheFeed(r)
  PROVE  IInv'
<1>1. TypeInv /\ req[r] \in ReqType /\ ReqOK(req[r]) /\ req[r].pc = "cache"
  BY DEF IInv, TypeInv, ReqInv, CacheFeed
<1>2. \E st \in Statuses : Goto(r, [req[r] EXCEPT !.status = st], "query")
  <2>1. \A c \in {200, 500} : Sent(req[r], c) \in Statuses
    BY <1>1 DEF Sent, Statuses, ReqType
  <2>2. req[r].status \in Statuses /\ [req[r] EXCEPT !.status = req[r].status] = req[r]
    BY <1>1 DEF ReqType
  <2> QED BY <2>1, <2>2 DEF CacheFeed
<1>3. PICK st \in Statuses : Goto(r, [req[r] EXCEPT !.status = st], "query")
  BY <1>2
<1> DEFINE q == [req[r] EXCEPT !.status = st]
<1>4. q \in ReqType /\ q.kind = req[r].kind /\ q.user = req[r].user /\ q.row = req[r].row
  BY <1>1 DEF ReqType
<1>5. /\ Only(r) /\ req'[r].pc = "query" /\ req'[r].kind = req[r].kind
      /\ req'[r].user = req[r].user /\ req'[r].row = req[r].row
  <2> HIDE DEF q
  <2> QED BY <1>1, <1>3, <1>4, GotoFields DEF Pcs, Only, q
<1>6. ReqOK(req'[r])
  BY <1>1, <1>5 DEF ReqOK, PathOK, RefusedOK, Unstored, FeedOK, TellOK
<1>7. Hold(r)
  BY <1>1, <1>5 DEF Hold, Holding, CacheFeed
<1> QED BY <1>5, <1>6, <1>7, LocalIInv DEF CacheFeed, outside, mocking, Local, Acks, Aborts, Caches

\* What the query of a feed returns, in part or as a whole, may be kept.
LEMMA FeedRight ==
  ASSUME TypeInv, DataInv, NEW u \in Users, NEW some \in SUBSET Feed(u)
  PROVE  some \in Lists /\ some \in SUBSET AllRows /\ FeedOf(u, some)
  BY DEF Feed, Visible, FeedOf, Lists, TypeInv, DataInv

\* A request has the rows of its feed.
LEMMA FeedLocal ==
  ASSUME IInv, NEW r \in Requests, req[r].pc \in {"query", "rows"},
         \/ FeedError(r)
         \/ \E list \in SUBSET Feed(req[r].user) : FeedRows(r, list)
  PROVE  /\ Only(r) /\ ReqOK(req'[r])
         /\ req'[r].pc = "set" /\ req'[r].row = req[r].row
<1>1. TypeInv /\ DataInv /\ req[r] \in ReqType /\ ReqOK(req[r])
  BY DEF IInv, TypeInv, ReqInv
<1>2. req[r].user \in Users
  BY <1>1 DEF ReqOK, PathOK
<1>3. PICK list \in Lists, st \in Statuses :
        /\ FeedOf(req[r].user, list)
        /\ Goto(r, [req[r] EXCEPT !.list = list, !.status = st], "set")
  <2>1. CASE FeedError(r)
    <3>1. Null \in Lists /\ Sent(req[r], 404) \in Statuses /\ FeedOf(req[r].user, Null)
      BY <1>1 DEF Lists, Sent, Statuses, ReqType, FeedOf
    <3> QED BY <2>1, <3>1 DEF FeedError
  <2>2. ASSUME NEW list \in SUBSET Feed(req[r].user), FeedRows(r, list)
        PROVE  /\ list \in Lists /\ FeedOf(req[r].user, list) /\ req[r].status \in Statuses
               /\ Goto(r, [req[r] EXCEPT !.list = list, !.status = req[r].status], "set")
    <3>1. [req[r] EXCEPT !.list = list, !.status = req[r].status] = [req[r] EXCEPT !.list = list]
      BY <1>1 DEF ReqType
    <3>2. req[r].status \in Statuses
      BY <1>1 DEF ReqType
    <3> QED BY <1>1, <1>2, <2>2, <3>1, <3>2, FeedRight DEF FeedRows
  <2> QED BY <2>1, <2>2
<1> DEFINE q == [req[r] EXCEPT !.list = list, !.status = st]
<1>4. /\ q \in ReqType /\ q.kind = req[r].kind /\ q.user = req[r].user /\ q.row = req[r].row
      /\ q.list = list
  BY <1>1 DEF ReqType
<1>5. /\ Only(r) /\ req'[r].pc = "set" /\ req'[r].kind = req[r].kind /\ req'[r].list = list
      /\ req'[r].user = req[r].user /\ req'[r].row = req[r].row
  <2> HIDE DEF q
  <2> QED BY <1>1, <1>3, <1>4, GotoFields DEF Pcs, Only, q
<1>6. ReqOK(req'[r])
  BY <1>1, <1>2, <1>3, <1>5 DEF ReqOK, PathOK, RefusedOK, Unstored, FeedOK, TellOK
<1> QED BY <1>5, <1>6

\* PostFeedGet sends its query.
LEMMA FeedStartIInv ==
  ASSUME IInv, NEW r \in Requests, FeedStart(r)
  PROVE  IInv'
<1>1. TypeInv /\ req[r] \in ReqType /\ ReqOK(req[r]) /\ req[r].pc = "query"
  BY DEF IInv, TypeInv, ReqInv, FeedStart
<1>2. UNCHANGED <<env, tx, data, cache, topic, acked, made, mock, pairs, faults>>
  BY DEF FeedStart, outside, mocking
<1>3. CASE Lock /\ Goto(r, req[r], "rows")
  <2>1. /\ Only(r) /\ req'[r].pc = "rows" /\ req'[r].kind = req[r].kind
        /\ req'[r].user = req[r].user /\ req'[r].row = req[r].row
    BY <1>1, <1>3, GotoFields DEF Pcs, Only
  <2>2. ReqOK(req'[r])
    BY <1>1, <2>1 DEF ReqOK, PathOK, RefusedOK, Unstored, FeedOK, TellOK
  <2>3. Hold(r)
    BY <1>1, <1>3, <2>1 DEF Hold, Holding
  <2> QED BY <1>2, <2>1, <2>2, <2>3, LocalIInv DEF Local, Acks, Aborts, Caches
<1>4. CASE UNCHANGED conn /\ (FeedError(r) \/ FeedRows(r, {}))
  <2>1. Only(r) /\ ReqOK(req'[r]) /\ req'[r].pc = "set" /\ req'[r].row = req[r].row
    BY <1>1, <1>4, FeedLocal
  <2>2. Hold(r)
    BY <1>1, <1>4, <2>1 DEF Hold, Holding
  <2> QED BY <1>2, <2>1, <2>2, LocalIInv DEF Local, Acks, Aborts, Caches
<1> QED BY <1>3, <1>4 DEF FeedStart

\* The rows of the feed are read, or the query fails.
LEMMA FeedEndIInv ==
  ASSUME IInv, NEW r \in Requests, FeedEnd(r)
  PROVE  IInv'
<1>1. req[r].pc = "rows" /\ Unlock
  BY DEF FeedEnd
<1>2. FeedError(r) \/ \E list \in SUBSET Feed(req[r].user) : FeedRows(r, list)
  BY DEF FeedEnd
<1>3. Only(r) /\ ReqOK(req'[r]) /\ req'[r].pc = "set" /\ req'[r].row = req[r].row
  BY <1>1, <1>2, FeedLocal
<1>4. Hold(r)
  BY <1>1, <1>3 DEF Hold, Holding
<1>5. Aborts
  BY DEF FeedEnd, Fails, Aborts
<1> QED BY <1>3, <1>4, <1>5, LocalIInv DEF FeedEnd, outside, mocking, Local, Acks, Caches

\* PostFeedGet stores the feed it read in Redis.
LEMMA CacheSetIInv ==
  ASSUME IInv, NEW r \in Requests, CacheSet(r)
  PROVE  IInv'
<1>1. TypeInv /\ req[r] \in ReqType /\ ReqOK(req[r]) /\ req[r].pc = "set"
  BY DEF IInv, TypeInv, ReqInv, CacheSet
<1>2. req[r].kind = "feed" /\ req[r].row = NoRow
  BY <1>1 DEF ReqOK, PathOK
<1>3. /\ Only(r) /\ Acks(r) /\ ReqOK(req'[r]) /\ req'[r].pc \notin Holding
      /\ req'[r].row = req[r].row \/ req'[r].row = NoRow
  BY <1>2, FinishLocal DEF CacheSet, Statuses
<1>4. Hold(r)
  BY <1>1, <1>3 DEF Hold, Holding, CacheSet
<1> QED BY <1>1, <1>3, <1>4, LocalIInv DEF CacheSet, mocking, Local, Aborts, Caches

\* The statements of the account and friend requests.
LEMMA ExecIInv ==
  ASSUME IInv, NEW r \in Requests, ExecStart(r) \/ ExecEnd(r)
  PROVE  IInv'
<1>1. TypeInv /\ req[r] \in ReqType /\ ReqOK(req[r]) /\ req[r].pc \in {"exec", "execing"}
  BY DEF IInv, TypeInv, ReqInv, ExecStart, ExecEnd
<1>2. req[r].kind \in {"friend", "read"} /\ req[r].row = NoRow
  BY <1>1 DEF ReqOK, PathOK
<1>3. UNCHANGED <<env, data, cache, topic, made, mock, pairs, faults>>
  BY DEF ExecStart, ExecEnd, outside, mocking
<1>4. ASSUME Answered(r)
      PROVE  /\ Only(r) /\ Acks(r) /\ ReqOK(req'[r]) /\ req'[r].pc \notin Holding
             /\ req'[r].row = NoRow
  <2>1. req' = [req EXCEPT ![r] = Idle] /\ UNCHANGED acked
    BY <1>4 DEF Answered
  <2>2. Only(r) /\ req'[r] = Idle
    BY <1>1, <2>1, IdleType DEF Only, TypeInv
  <2>3. Idle.row = NoRow /\ Idle.pc \notin Holding
    BY DEF Idle, Holding
  <2> QED BY <1>1, <2>1, <2>2, <2>3, IdleOK DEF Acks
<1>5. CASE ExecStart(r)
  <2>1. CASE Lock /\ Goto(r, req[r], "execing") /\ UNCHANGED acked
    <3>1. /\ Only(r) /\ req'[r].pc = "execing" /\ req'[r].kind = req[r].kind
          /\ req'[r].user = req[r].user /\ req'[r].row = req[r].row
      BY <1>1, <2>1, GotoFields DEF Pcs, Only
    <3>2. ReqOK(req'[r])
      BY <1>1, <1>2, <3>1 DEF ReqOK, PathOK, RefusedOK, Unstored, FeedOK, TellOK
    <3>3. Hold(r)
      BY <1>5, <2>1, <3>1 DEF Hold, Holding, ExecStart
    <3> QED BY <1>3, <1>5, <2>1, <3>1, <3>2, <3>3, LocalIInv
           DEF ExecStart, Local, Acks, Aborts, Caches
  <2>2. CASE UNCHANGED conn /\ Answered(r)
    <3>1. Hold(r)
      BY <1>4, <1>5, <2>2 DEF Hold, Holding, ExecStart
    <3> QED BY <1>3, <1>4, <1>5, <2>2, <3>1, LocalIInv DEF ExecStart, Local, Aborts, Caches
  <2> QED BY <1>5, <2>1, <2>2 DEF ExecStart
<1>6. CASE ExecEnd(r)
  <2>1. Answered(r) /\ Unlock /\ req[r].pc = "execing"
    BY <1>6 DEF ExecEnd
  <2>2. Hold(r)
    BY <1>4, <2>1 DEF Hold, Holding
  <2>3. Aborts
    BY <1>6 DEF ExecEnd, Aborts, Fails
  <2> QED BY <1>3, <1>4, <2>1, <2>2, <2>3, LocalIInv DEF Local, Caches
<1> QED BY <1>5, <1>6

\* Requests that come without a row, and the end of a request.
LEMMA StartLocal ==
  ASSUME IInv, NEW r \in Requests, NEW q \in ReqType, q.row = NoRow, q.pc = "idle",
         NEW where \in {"cache", "exec"},
         where = "cache" => q.kind = "feed" /\ q.user \in Users,
         where = "exec" => q.kind \in {"friend", "read"},
         Begin(r, q, where), UNCHANGED made
  PROVE  IInv'
<1>1. TypeInv /\ req[r].pc = "idle" /\ made \in Nat
  BY DEF IInv, TypeInv, Begin
<1>2. /\ Only(r) /\ req'[r].pc = where /\ req'[r].kind = q.kind
      /\ req'[r].user = q.user /\ req'[r].row = NoRow
  <2>1. where \in Pcs /\ Goto(r, q, where)
    BY DEF Pcs, Begin
  <2> QED BY <1>1, <2>1, GotoFields DEF Only
<1>3. ReqOK(req'[r])
  BY <1>1, <1>2 DEF ReqOK, PathOK, RefusedOK, Unstored, FeedOK, TellOK, NoRow
<1>4. Hold(r)
  BY <1>1, <1>2 DEF Hold, Holding, Begin
<1> QED BY <1>2, <1>3, <1>4, LocalIInv DEF Begin, outside, mocking, Local, Acks, Aborts, Caches

\* A request that inserts nothing arrives, or an answered one is closed.
LEMMA ArriveIInv ==
  ASSUME IInv, NEW r \in Requests,
         \/ \E u \in Readers : PostFeedGet(r, u)
         \/ FriendSetUserIdPut(r) \/ FriendDeleteUserIdPut(r)
         \/ UserGetIdGet(r) \/ UserSearchGet(r) \/ LoginPost(r)
         \/ BindFails(r) \/ Close(r)
  PROVE  IInv'
<1>1. TypeInv /\ DataInv
  BY DEF IInv
<1>2. ASSUME NEW u \in Readers, PostFeedGet(r, u) PROVE IInv'
  <2> DEFINE f == Request("feed", u)
             q == [f EXCEPT !.low = Feed(u)]
  <2>1. u \in Users /\ "feed" \in Kinds
    BY PostsAssumption DEF Kinds
  <2>2. f \in ReqType /\ f.pc = "idle" /\ f.kind = "feed" /\ f.user = u /\ f.row = NoRow
    BY <2>1, RequestType
  <2>3. Feed(u) \in SUBSET AllRows
    BY <1>1, <2>1, FeedRight
  <2> HIDE DEF f
  <2>4. q \in ReqType /\ q.pc = "idle" /\ q.kind = "feed" /\ q.user = u /\ q.row = NoRow
    BY <2>2, <2>3 DEF ReqType
  <2>5. Begin(r, q, "cache") /\ UNCHANGED made
    BY <1>2 DEF PostFeedGet, f
  <2> HIDE DEF q
  <2> QED BY <2>1, <2>4, <2>5, StartLocal
<1>3. ASSUME NEW kind \in {"friend", "read"},
             Begin(r, [Idle EXCEPT !.kind = kind], "exec"), UNCHANGED made
      PROVE  IInv'
  <2> DEFINE q == [Idle EXCEPT !.kind = kind]
  <2>1. q \in ReqType /\ q.pc = "idle" /\ q.kind = kind /\ q.row = NoRow
    BY OtherType DEF Kinds
  <2> HIDE DEF q
  <2> QED BY <1>3, <2>1, StartLocal DEF q
<1>4. CASE BindFails(r)
  <2> DEFINE q == [Idle EXCEPT !.kind = "bad"]
  <2>1. q \in ReqType /\ q.kind = "bad" /\ q.row = NoRow
    BY OtherType DEF Kinds
  <2>2. Finish(r, q, 400) /\ req[r].pc = "idle" /\ 400 \in Statuses
    BY <1>4 DEF BindFails, Statuses
  <2> HIDE DEF q
  <2>3. Only(r) /\ UNCHANGED acked
    BY <1>1, <2>1, <2>2, FinishFields DEF Only
  <2>4. /\ req'[r] = Idle \/ (req'[r].pc = "done" /\ req'[r].kind = "bad" /\ req'[r].row = NoRow)
    BY <1>1, <2>1, <2>2, FinishFields
  <2>5. ReqOK(req'[r]) /\ req'[r].row = NoRow /\ req'[r].pc \notin Holding
    <3>1. made \in Nat
      BY <1>1 DEF TypeInv
    <3>2. CASE req'[r] = Idle
      BY <1>1, <3>2, IdleOK DEF Idle, Holding
    <3>3. CASE req'[r].pc = "done" /\ req'[r].kind = "bad" /\ req'[r].row = NoRow
      BY <3>1, <3>3 DEF ReqOK, PathOK, RefusedOK, Unstored, FeedOK, TellOK, NoRow, Holding
    <3> QED BY <2>4, <3>2, <3>3
  <2>6. Hold(r)
    BY <1>4, <2>2, <2>5 DEF Hold, Holding, BindFails
  <2> QED BY <1>4, <2>3, <2>5, <2>6, LocalIInv
         DEF BindFails, outside, mocking, Local, Acks, Aborts, Caches
<1>5. CASE Close(r)
  <2>1. Only(r) /\ req'[r] = Idle /\ req[r].pc = "done"
    BY <1>1, <1>5, IdleType DEF Close, Only, TypeInv
  <2>2. ReqOK(req'[r]) /\ req'[r].row = NoRow /\ req'[r].pc = "idle"
    BY <1>1, <2>1, IdleOK DEF Idle
  <2>3. Hold(r)
    BY <1>5, <2>1, <2>2 DEF Hold, Holding, Close
  <2> QED BY <1>5, <2>1, <2>2, <2>3, LocalIInv
         DEF Close, outside, mocking, Local, Acks, Aborts, Caches
<1>6. CASE FriendSetUserIdPut(r) \/ FriendDeleteUserIdPut(r)
  BY <1>3, <1>6 DEF FriendSetUserIdPut, FriendDeleteUserIdPut
<1>7. CASE UserGetIdGet(r)
  BY <1>3, <1>7 DEF UserGetIdGet
<1>8. CASE UserSearchGet(r)
  BY <1>3, <1>8 DEF UserSearchGet
<1>9. CASE LoginPost(r)
  BY <1>3, <1>9 DEF LoginPost
<1> QED BY <1>2, <1>4, <1>5, <1>6, <1>7, <1>8, <1>9
-----------------------------------------------------------------------------
(* Steps that give a row its number, insert it or tell it *)

\* What a request has keeps true while rows are added and numbers given out, as
\* long as the request's own row stays out when it must.
LEMMA KeepReq ==
  ASSUME TypeInv, NEW s \in Requests, ReqOK(req[s]), req'[s] = req[s],
         UNCHANGED <<env, topic>>, rows \subseteq rows', ever \subseteq ever',
         made' \in Nat, made <= made', faults' = 0 => faults = 0,
         Unstored(req[s]) /\ faults' = 0 /\ ~env.mock => (req[s].row \in ever' => req[s].row \in ever)
  PROVE  ReqOK(req[s])'
<1>1. req[s].row.n \in Nat /\ made \in Nat
  BY DEF TypeInv, ReqType, AllRows, NoRow
<1>2. PathOK(req[s])'
  BY <1>1 DEF ReqOK, PathOK
<1>3. RefusedOK(req[s])'
  BY DEF ReqOK, RefusedOK, Unstored
<1>4. FeedOK(req[s])' /\ TellOK(req[s])'
  BY DEF ReqOK, FeedOK, FeedOf, TellOK
<1> QED BY <1>2, <1>3, <1>4 DEF ReqOK

\* A new row has a number nobody else has.
LEMMA CreateIInv ==
  ASSUME IInv, NEW r \in Requests, NEW q \in ReqType, NEW table \in {"Post", "User"},
         NEW u \in Users \cup {NoUser}, q.row = NewRow(table, u), q.user = u,
         q.status = IF u = NoUser /\ table = "Post" THEN 400 ELSE 0,
         q.kind = IF table = "Post" THEN "create" ELSE "register",
         made < MaxRows[env], made' = made + 1, Begin(r, q, "insert")
  PROVE  IInv'
<1>1. TypeInv /\ ConnHeld /\ DataInv /\ ReqInv /\ UniqueInv /\ CacheOwn /\ PairInv
  BY DEF IInv
<1>2. /\ q.row \in AllRows /\ q.row.n = made + 1 /\ q.row.table = table /\ q.row.by = u
      /\ made' \in 0 .. MaxRows[env] /\ made \in Nat
  BY <1>1, NewRowType
<1>3. UNCHANGED <<env, conn, tx, rows, draft, ever, cache, topic, acked, mock, pairs, faults>>
  BY DEF Begin, data, outside, mocking
<1>4. /\ Only(r) /\ req[r].pc = "idle" /\ req'[r].pc = "insert" /\ req'[r].kind = q.kind
      /\ req'[r].user = u /\ req'[r].row = q.row /\ req'[r].status = q.status
  BY <1>1, GotoFields DEF Begin, Pcs, Only
<1>5. Hold(r)
  BY <1>3, <1>4 DEF Hold, Holding
<1>6. ConnHeld'
  BY <1>1, <1>3, <1>4, <1>5, HoldStep
<1>7. TypeInv'
  BY <1>1, <1>2, <1>3, <1>4, SameRows DEF TypeInv, Only
<1>8. DataInv'
  <2>1. \A p \in ever : p.n \in Nat
    BY <1>1 DEF TypeInv, AllRows
  <2>2. ASSUME NEW v \in Users, NEW k \in 1 .. Len(topic[v]) PROVE topic[v][k].n \in Nat
    <3>1. topic[v] \in Seq(AllRows)
      BY <1>1 DEF TypeInv
    <3>2. topic[v][k] \in AllRows
      BY <3>1, ElementOfSeq
    <3> QED BY <3>2 DEF AllRows
  <2> QED BY <1>1, <1>2, <1>3, <2>1, <2>2 DEF DataInv
<1>9. q.row \notin ever /\ \A v \in Users : ~Has(topic[v], q.row)
  BY <1>1, <1>2 DEF DataInv, Has
<1>10. ReqInv'
  <2> SUFFICES ASSUME NEW s \in Requests PROVE ReqOK(req[s])'
    BY DEF ReqInv
  <2>1. CASE s = r
    <3>1. q.row # NoRow
      BY <1>2 DEF NoRow
    <3>2. PathOK(req[r])'
      BY <1>2, <1>4, <3>1 DEF PathOK
    <3>3. RefusedOK(req[r])' /\ FeedOK(req[r])' /\ TellOK(req[r])'
      BY <1>3, <1>4, <1>9 DEF RefusedOK, FeedOK, TellOK
    <3> QED BY <2>1, <3>2, <3>3 DEF ReqOK
  <2>2. CASE s # r
    <3>1. req'[s] = req[s] /\ ReqOK(req[s])
      BY <1>1, <1>4, <2>2 DEF Only, ReqInv
    <3>2. made' \in Nat /\ made <= made'
      BY <1>2
    <3> QED BY <1>1, <1>3, <3>1, <3>2, KeepReq
  <2> QED BY <2>1, <2>2
<1>11. UniqueInv'
  <2>1. \A s \in Requests \ {r} : req'[s] = req[s] /\ req[s].row.n <= made /\ req[s].row.n \in Nat
    BY <1>1, <1>4 DEF Only, ReqInv, ReqOK, PathOK, TypeInv, ReqType, AllRows, NoRow
  <2>2. req'[r].row.n = made + 1
    BY <1>2, <1>4
  <2>3. \A p \in ever : p.n \in Nat /\ p.n <= made
    BY <1>1 DEF TypeInv, DataInv, AllRows
  <2> QED BY <1>1, <1>2, <1>3, <2>1, <2>2, <2>3 DEF UniqueInv
<1>12. CacheOwn'
  BY <1>1, <1>3 DEF CacheOwn
<1>13. PairInv'
  BY <1>1, <1>3 DEF PairInv
<1> QED BY <1>6, <1>7, <1>8, <1>10, <1>11, <1>12, <1>13 DEF IInv

\* A request that inserts a row arrives: its row is not yet stored.
LEMMA NewRequestIInv ==
  ASSUME IInv, NEW r \in Requests, (\E u \in Authors : PostCreatePost(r, u)) \/ UserRegisterPost(r)
  PROVE  IInv'
<1>1. TypeInv
  BY DEF IInv
<1>2. ASSUME NEW u \in Authors, PostCreatePost(r, u) PROVE IInv'
  <2> DEFINE f == Request("create", u)
             q == [f EXCEPT !.row = NewRow("Post", u)]
  <2>1. u \in Users \cup {NoUser} /\ "create" \in Kinds
    BY PostsAssumption DEF Kinds
  <2>2. made < MaxRows[env] /\ made' = made + 1 /\ Begin(r, q, "insert")
    BY <1>2 DEF PostCreatePost
  <2>3. NewRow("Post", u) \in AllRows
    BY <1>1, <2>1, <2>2, NewRowType
  <2>4. /\ f \in ReqType /\ f.kind = "create" /\ f.user = u
        /\ f.status = IF u = NoUser THEN 400 ELSE 0
    BY <2>1, RequestType
  <2> HIDE DEF f
  <2>5. /\ q \in ReqType /\ q.kind = "create" /\ q.user = u /\ q.row = NewRow("Post", u)
        /\ q.status = IF u = NoUser THEN 400 ELSE 0
    BY <2>3, <2>4 DEF ReqType
  <2> HIDE DEF q
  <2> QED BY <2>1, <2>2, <2>5, CreateIInv
<1>3. CASE UserRegisterPost(r)
  <2> DEFINE f == [Idle EXCEPT !.kind = "register"]
             q == [f EXCEPT !.row = NewRow("User", NoUser)]
  <2>1. made < MaxRows[env] /\ made' = made + 1
    BY <1>3 DEF UserRegisterPost
  <2>2. Begin(r, q, "insert")
    BY <1>3 DEF UserRegisterPost
  <2>3. NewRow("User", NoUser) \in AllRows
    BY <1>1, <2>1, NewRowType
  <2>4. f \in ReqType /\ f.kind = "register" /\ f.status = 0
    BY OtherType DEF Kinds
  <2>5. f.user = NoUser
    BY DEF Idle
  <2> HIDE DEF f
  <2>6. /\ q \in ReqType /\ q.kind = "register" /\ q.user = NoUser
        /\ q.row = NewRow("User", NoUser) /\ q.status = 0
    BY <2>3, <2>4, <2>5 DEF ReqType
  <2> HIDE DEF q
  <2> QED BY <2>1, <2>2, <2>6, CreateIInv
<1> QED BY <1>2, <1>3

\* The insertion is executed.
Inserts(r) ==
  LET q == req[r]  new == {q.row} IN
  /\ Served /\ Insertable(q.row)
  /\ IF tx = "open" THEN draft' = draft \cup new /\ UNCHANGED rows
                    ELSE rows' = rows \cup new /\ UNCHANGED draft
  /\ ever' = ever \cup new
  /\ IF q.kind = "create" THEN Goto(r, q, "friends") /\ UNCHANGED acked
                          ELSE Finish(r, q, 200)
  /\ UNCHANGED tx

\* The row of an insertion that the server executes is stored, and is nobody
\* else's.
LEMMA InsertEndIInv ==
  ASSUME IInv, NEW r \in Requests, InsertEnd(r)
  PROVE  IInv'
<1>1. TypeInv /\ ConnHeld /\ DataInv /\ ReqInv /\ UniqueInv /\ CacheOwn /\ PairInv
  BY DEF IInv
<1>2. /\ req[r] \in ReqType /\ ReqOK(req[r]) /\ req[r].pc = "inserting" /\ Unlock
      /\ req[r].row # NoRow /\ req[r].row \in AllRows
      /\ UNCHANGED <<env, cache, topic, made, mock, pairs, faults>>
  BY <1>1 DEF TypeInv, ReqInv, InsertEnd, outside, mocking, ReqOK, PathOK, ReqType
<1>3. CASE Fails /\ Finish(r, req[r], InsertError(req[r])) /\ UNCHANGED data
  <2>1. /\ Fails /\ UNCHANGED <<rows, draft, ever>>
        /\ Finish(r, req[r], InsertError(req[r]))
    BY <1>3 DEF data
  <2>2. InsertError(req[r]) \in Statuses /\ Sent(req[r], InsertError(req[r])) # 200
    BY <1>2 DEF InsertError, Statuses, Sent, ReqOK, PathOK
  <2>3. /\ Only(r) /\ Acks(r) /\ ReqOK(req'[r]) /\ req'[r].pc \notin Holding
        /\ req'[r].row = req[r].row \/ req'[r].row = NoRow
    BY <1>2, <2>1, <2>2, FinishLocal DEF Unstored
  <2>4. Hold(r) /\ Aborts
    BY <1>2, <2>1, <2>3 DEF Hold, Holding, Fails, Aborts
  <2> QED BY <1>2, <2>1, <2>3, <2>4, LocalIInv DEF Local, Caches, data
<1>4. CASE Inserts(r)
  <2>1. /\ UNCHANGED tx /\ ever' = ever \cup {req[r].row}
        /\ \/ tx = "open" /\ draft' = draft \cup {req[r].row} /\ rows' = rows
           \/ tx # "open" /\ rows' = rows \cup {req[r].row} /\ draft' = draft
        /\ IF req[r].kind = "create" THEN Goto(r, req[r], "friends") /\ UNCHANGED acked
                                     ELSE Finish(r, req[r], 200)
    BY <1>4 DEF Inserts
  <2>2. ~env.mock => tx = "none" /\ draft' = {} /\ req[r].row \in rows'
    BY <1>1, <2>1 DEF DataInv
  <2>3. /\ req' \in [Requests -> ReqType] /\ \A s \in Requests \ {r} : req'[s] = req[s]
        /\ acked' = acked \/ acked' = acked \cup {req[r].row}
        /\ \/ req'[r] = Idle
           \/ /\ req[r].kind = "create" /\ req'[r].pc = "friends" /\ req'[r].kind = req[r].kind
              /\ req'[r].row = req[r].row /\ req'[r].user = req[r].user
              /\ req'[r].status = req[r].status
    <3>1. CASE req[r].kind = "create"
      <4>1. Goto(r, req[r], "friends") /\ UNCHANGED acked
        BY <2>1, <3>1
      <4> QED BY <1>1, <1>2, <3>1, <4>1, GotoFields DEF Pcs
    <3>2. CASE req[r].kind # "create"
      <4>1. Finish(r, req[r], 200) /\ 200 \in Statuses
        BY <2>1, <3>2 DEF Statuses
      <4>2. req[r].kind = "register"
        BY <1>2, <3>2 DEF ReqOK, PathOK
      <4> QED BY <1>1, <1>2, <4>1, <4>2, FinishFields
    <3> QED BY <3>1, <3>2
  <2>4. Only(r) /\ Hold(r)
    BY <1>2, <2>3 DEF Only, Hold, Holding, Idle
  <2>5. conn' \in {"idle", "busy", "closed"} /\ ConnHeld'
    BY <1>1, <1>2, <2>4, HoldStep
  <2>6. rows' \subseteq AllRows /\ draft' \subseteq AllRows /\ ever' \subseteq AllRows
        /\ acked' \subseteq AllRows
    BY <1>1, <1>2, <2>1, <2>3 DEF TypeInv
  <2>7. TypeInv'
    BY <1>1, <1>2, <2>1, <2>3, <2>5, <2>6, SameRows DEF TypeInv
  <2>8. DataInv'
    <3>1. req[r].row.n <= made
      BY <1>2 DEF ReqOK, PathOK
    <3>2. rows' \subseteq ever' /\ draft' \subseteq ever' /\ acked' \subseteq ever'
      BY <1>1, <2>1, <2>3 DEF DataInv
    <3>3. ~env.mock => tx' = "none" /\ draft' = {} /\ mock'.pc = "off" /\ acked' \subseteq rows'
      BY <1>1, <1>2, <2>1, <2>2, <2>3 DEF DataInv
    <3>4. \A p \in ever' : p.n <= made
      BY <1>1, <2>1, <3>1 DEF DataInv
    <3> QED BY <1>1, <1>2, <3>2, <3>3, <3>4 DEF DataInv
  <2>9. ReqInv'
    <3> SUFFICES ASSUME NEW s \in Requests PROVE ReqOK(req[s])'
      BY DEF ReqInv
    <3>1. CASE s # r
      <4>1. req'[s] = req[s] /\ ReqOK(req[s]) /\ made \in Nat /\ made' = made /\ faults' = faults
        BY <1>1, <1>2, <2>3, <3>1 DEF ReqInv, TypeInv
      <4>2. req[s].row # req[r].row
        BY <1>1, <1>2, <3>1 DEF UniqueInv
      <4>3. req[s].row \in ever' => req[s].row \in ever
        BY <2>1, <4>2
      <4>4. rows \subseteq rows' /\ ever \subseteq ever'
        BY <2>1
      <4> QED BY <1>1, <1>2, <4>1, <4>3, <4>4, KeepReq
    <3>2. CASE s = r /\ req'[r] = Idle
      <4>1. made' \in Nat
        BY <2>7 DEF TypeInv
      <4> QED BY <3>2, <4>1 DEF ReqOK, PathOK, RefusedOK, Unstored, FeedOK, TellOK, Idle, NoRow
    <3>3. CASE s = r /\ req'[r].pc = "friends"
      <4>1. /\ req[r].kind = "create" /\ req'[r].kind = req[r].kind
            /\ req'[r].row = req[r].row /\ req'[r].user = req[r].user
            /\ req'[r].status = req[r].status
        BY <2>3, <3>3 DEF Idle
      <4>2. /\ req[r].row.table = "Post" /\ req[r].row.by = req[r].user
            /\ req[r].row.n <= made /\ (req[r].user # NoUser => req[r].status = 0)
        BY <1>2, <4>1 DEF ReqOK, PathOK
      <4>3. req[r].user \in Users /\ req[r].status = 0
        BY <1>2, <1>4, <4>2 DEF Inserts, Insertable, ReqType
      <4>4. PathOK(req[r])'
        BY <1>2, <2>1, <2>2, <3>3, <4>1, <4>2, <4>3 DEF PathOK
      <4>5. \A u \in Users : ~Has(topic[u], req[r].row)
        BY <1>2 DEF ReqOK, RefusedOK, Unstored
      <4> QED BY <1>2, <3>3, <4>1, <4>4, <4>5 DEF ReqOK, RefusedOK, Unstored, FeedOK, TellOK
    <3> QED BY <2>3, <3>1, <3>2, <3>3
  <2>10. UniqueInv'
    <3>1. \A s \in Requests : req'[s].row = NoRow \/ req'[s].row = req[s].row
      BY <2>3 DEF Idle
    <3> QED BY <1>1, <1>2, <2>1, <3>1 DEF UniqueInv
  <2>11. CacheOwn'
    BY <1>1, <1>2, <2>1 DEF CacheOwn
  <2>12. PairInv'
    BY <1>1, <1>2 DEF PairInv, Unlock
  <2> QED BY <2>5, <2>7, <2>8, <2>9, <2>10, <2>11, <2>12 DEF IInv
<1> QED BY <1>3, <1>4 DEF InsertEnd, Inserts

\* A notification carries the row of its author's request, which was inserted.
LEMMA WriteMessagesIInv ==
  ASSUME IInv, NEW r \in Requests, WriteMessages(r)
  PROVE  IInv'
<1>1. TypeInv /\ ConnHeld /\ DataInv /\ ReqInv /\ UniqueInv /\ CacheOwn /\ PairInv
  BY DEF IInv
<1>2. /\ req[r] \in ReqType /\ ReqOK(req[r]) /\ req[r].pc = "notify"
      /\ UNCHANGED <<env, conn, tx, rows, draft, ever, cache, made, mock, pairs, faults>>
  BY <1>1 DEF TypeInv, ReqInv, WriteMessages, mocking, data
<1>3. CASE Finish(r, req[r], 200) /\ UNCHANGED topic
  <2>1. /\ Only(r) /\ Acks(r) /\ ReqOK(req'[r]) /\ req'[r].pc \notin Holding
        /\ req'[r].row = req[r].row \/ req'[r].row = NoRow
    BY <1>2, <1>3, NotifyLocal
  <2>2. Hold(r)
    BY <1>2, <2>1 DEF Hold, Holding
  <2> QED BY <1>2, <1>3, <2>1, <2>2, LocalIInv DEF Local, Aborts, Caches, data
<1>4. CASE /\ req[r].rest # <<>>
           /\ \/ topic' = [topic EXCEPT ![Head(req[r].rest)] = Append(@, req[r].row)]
              \/ UNCHANGED topic
           /\ req' = [req EXCEPT ![r].rest = Tail(@)] /\ UNCHANGED acked
  <2> DEFINE rest == req[r].rest
             row == req[r].row
             q == [req[r] EXCEPT !.rest = Tail(rest)]
  <2>1. rest \in Seq(Users) /\ Head(rest) \in Users /\ Tail(rest) \in Seq(Users)
    <3>1. rest \in Seq(Users)
      BY <1>2 DEF ReqType
    <3> QED BY <1>4, <3>1, HeadTailProperties
  <2>2. row \in ever /\ row \in AllRows /\ row # NoRow /\ row.n <= made
    <3>1. row \in ever /\ row.n <= made
      BY <1>2 DEF ReqOK, PathOK
    <3>2. row \in AllRows
      BY <1>1, <3>1 DEF TypeInv
    <3> QED BY <3>1, <3>2 DEF AllRows, NoRow
  <2>3. /\ q \in ReqType /\ q.pc = "notify" /\ q.kind = req[r].kind /\ q.user = req[r].user
        /\ q.row = row /\ q.status = req[r].status
    BY <1>2, <2>1 DEF ReqType
  <2>4. req' = [req EXCEPT ![r] = q]
    BY <1>4
  <2> HIDE DEF q
  <2>5. Only(r) /\ req'[r] = q
    BY <1>1, <2>3, <2>4 DEF Only, TypeInv
  <2>10. PICK i \in Nat : /\ After(req[r].user, i, rest)
                          /\ \A u \in Users : Times(topic[u], row) <= Count(Friends[req[r].user], i, u)
    BY <1>2 DEF ReqOK, TellOK
  <2>11. PICK j \in Nat : j = i + 1
    OBVIOUS
  <2>12. After(req[r].user, j, Tail(rest)) /\ Friends[req[r].user][i + 1] = Head(rest)
    <3>1. /\ Len(Tail(rest)) = Len(rest) - 1 /\ Head(rest) = rest[1] /\ Len(rest) \in Nat \ {0}
          /\ \A k \in 1 .. Len(Tail(rest)) : Tail(rest)[k] = rest[k + 1]
      BY <1>4, <2>1, HeadTailProperties, LenProperties, EmptySeq
    <3>2. Len(Friends[req[r].user]) \in Nat
      <4>1. req[r].user \in Users
        BY <1>2 DEF ReqOK, PathOK
      <4> QED BY <4>1, FriendsToTell, LenProperties
    <3>3. /\ i + Len(rest) <= Len(Friends[req[r].user])
          /\ \A k \in 1 .. Len(rest) : rest[k] = Friends[req[r].user][i + k]
      BY <2>10 DEF After
    <3> HIDE DEF rest, row
    <3>4. Friends[req[r].user][i + 1] = Head(rest)
      BY <3>1, <3>3
    <3>5. j + Len(Tail(rest)) <= Len(Friends[req[r].user])
      BY <2>11, <3>1, <3>2, <3>3
    <3>6. ASSUME NEW k \in 1 .. Len(Tail(rest))
          PROVE  Tail(rest)[k] = Friends[req[r].user][j + k]
      <4>1. k + 1 \in 1 .. Len(rest) /\ i + (k + 1) = j + k
        BY <2>11, <3>1
      <4>2. Tail(rest)[k] = rest[k + 1] /\ rest[k + 1] = Friends[req[r].user][i + (k + 1)]
        BY <3>1, <3>3, <4>1
      <4> QED BY <4>1, <4>2
    <3> QED BY <3>4, <3>5, <3>6 DEF After
  <2>13. ASSUME NEW u \in Users
         PROVE  /\ Count(Friends[req[r].user], i, u) \in Nat
                /\ Count(Friends[req[r].user], j, u) \in Nat
                /\ Count(Friends[req[r].user], i, u) <= Count(Friends[req[r].user], j, u)
                /\ u = Head(rest) =>
                     Count(Friends[req[r].user], j, u) = Count(Friends[req[r].user], i, u) + 1
    <3> DEFINE f == Friends[req[r].user]
    <3>1. f[i + 1] = Head(rest)
      BY <2>12
    <3> HIDE DEF f, rest
    <3>2. /\ f[i + 1] = u => Count(f, i + 1, u) = Count(f, i, u) + 1
          /\ f[i + 1] # u => Count(f, i + 1, u) = Count(f, i, u)
      BY CountNext
    <3>3. Count(f, i, u) \in Nat
      BY CountType
    <3> QED BY <2>11, <3>1, <3>2, <3>3 DEF f
  <2>14. ASSUME NEW u \in Users PROVE Times(topic[u], row) \in Nat
    <3>1. topic[u] \in Seq(AllRows)
      BY <1>1 DEF TypeInv
    <3> QED BY <2>2, <3>1, TimesAppend
  <2>6. ReqOK(req'[r])
    <3>1. q.rest = Tail(rest)
      BY <1>2 DEF ReqType, q
    <3>2. \A u \in Users : Times(topic[u], row) <= Count(Friends[req[r].user], j, u)
      <4> HIDE DEF rest, row
      <4> QED BY <2>10, <2>13, <2>14
    <3>3. TellOK(q)
      BY <2>3, <2>12, <3>1, <3>2 DEF TellOK
    <3> QED BY <1>2, <2>3, <2>5, <3>3 DEF ReqOK, PathOK, RefusedOK, Unstored, FeedOK
  <2>7. Hold(r)
    BY <1>2, <2>3, <2>5 DEF Hold, Holding
  <2>8. CASE UNCHANGED topic
    BY <1>2, <1>4, <2>3, <2>5, <2>6, <2>7, <2>8, LocalIInv DEF Local, Acks, Aborts, Caches, data
  <2>9. CASE topic' = [topic EXCEPT ![Head(rest)] = Append(@, row)]
    <3> DEFINE h == Head(rest)
    <3>1. h \in Users /\ topic \in [Users -> Seq(AllRows)]
      BY <1>1, <2>1 DEF TypeInv
    <3> HIDE DEF h
    <3>2. topic' = [topic EXCEPT ![h] = Append(topic[h], row)]
      BY <2>9 DEF h
    <3>3. /\ Append(topic[h], row) \in Seq(AllRows)
          /\ Len(Append(topic[h], row)) = Len(topic[h]) + 1
          /\ \A k \in 1 .. Len(topic[h]) : Append(topic[h], row)[k] = topic[h][k]
          /\ Append(topic[h], row)[Len(topic[h]) + 1] = row
          /\ Len(topic[h]) \in Nat
      <4>1. topic[h] \in Seq(AllRows)
        BY <3>1
      <4> QED BY <2>2, <4>1, AppendProperties, LenProperties
    <3>4. topic' \in [Users -> Seq(AllRows)]
      BY <3>1, <3>2, <3>3
    <3>5. ASSUME NEW u \in Users, NEW k \in 1 .. Len(topic'[u])
          PROVE  topic'[u][k] = row \/ \E m \in 1 .. Len(topic[u]) : topic'[u][k] = topic[u][m]
      <4>1. CASE u = h
        BY <3>1, <3>2, <3>3, <4>1
      <4>2. CASE u # h
        BY <3>1, <3>2, <4>2
      <4> QED BY <4>1, <4>2
    <3>6. conn' \in {"idle", "busy", "closed"} /\ ConnHeld'
      BY <1>1, <1>2, <2>5, <2>7, HoldStep
    <3>7. TypeInv'
      BY <1>1, <1>2, <1>4, <2>5, <3>4, <3>6, SameRows DEF TypeInv, Only
    <3>8. DataInv'
      <4>1. \A u \in Users : \A k \in 1 .. Len(topic'[u]) : topic'[u][k].n <= made
        BY <1>1, <2>2, <3>5 DEF DataInv
      <4> QED BY <1>1, <1>2, <1>4, <4>1 DEF DataInv
    <3>9. ReqInv'
      <4> SUFFICES ASSUME NEW s \in Requests PROVE ReqOK(req[s])'
        BY DEF ReqInv
      <4>1. ReqOK(req'[s])
        BY <1>1, <2>5, <2>6 DEF ReqInv, Only
      <4>2. Unstored(req'[s]) => req'[s].row # row
        BY <1>1, <2>2, <2>3, <2>5 DEF UniqueInv, Only, Unstored
      <4>3. Unstored(req'[s]) => \A u \in Users : ~Has(topic'[u], req'[s].row)
        BY <3>5, <4>1, <4>2 DEF Has, ReqOK, RefusedOK
      <4>4. RefusedOK(req[s])'
        BY <1>2, <4>1, <4>3 DEF ReqOK, RefusedOK, Unstored
      <4>5. TellOK(req[s])'
        <5>1. CASE s = r
          <6>1. req'[r].pc = "notify" /\ req'[r].row = row /\ req'[r].rest = Tail(rest)
                /\ req'[r].user = req[r].user
            BY <1>2, <2>3, <2>5 DEF ReqType, q
          <6>2. ASSUME NEW u \in Users
                PROVE  Times(topic'[u], row) <= Count(Friends[req[r].user], j, u)
            <7>1. CASE u = h
              <8>1. topic'[u] = Append(topic[h], row) /\ topic[h] \in Seq(AllRows)
                BY <3>1, <3>2, <7>1
              <8>2. Times(topic'[u], row) = Times(topic[u], row) + 1
                BY <2>2, <7>1, <8>1, TimesAppend
              <8>3. Count(Friends[req[r].user], j, u) = Count(Friends[req[r].user], i, u) + 1
                BY <2>13, <7>1 DEF h
              <8>4. Times(topic[u], row) <= Count(Friends[req[r].user], i, u)
                BY <2>10
              <8> HIDE DEF row
              <8> QED BY <2>13, <2>14, <8>2, <8>3, <8>4
            <7>2. CASE u # h
              <8>1. topic'[u] = topic[u]
                BY <3>1, <3>2, <7>2
              <8> HIDE DEF row
              <8> QED BY <2>10, <2>13, <2>14, <8>1
            <7> QED BY <7>1, <7>2
          <6> QED BY <2>12, <5>1, <6>1, <6>2 DEF TellOK
        <5>2. CASE s # r
          <6>1. req'[s] = req[s] /\ TellOK(req[s]) /\ PathOK(req[s]) /\ req[s] \in ReqType
            BY <1>1, <2>5, <5>2 DEF Only, ReqInv, ReqOK, TypeInv
          <6>2. req[s].pc \in {"friends", "listing", "notify"} => req[s].row # row
            BY <1>1, <2>2, <5>2 DEF UniqueInv
          <6>3. req[s].row # row => \A u \in Users : Has(topic'[u], req[s].row) => Has(topic[u], req[s].row)
            BY <3>5 DEF Has
          <6>4. ASSUME NEW u \in Users, req[s].row # row
                PROVE  Times(topic'[u], req[s].row) = Times(topic[u], req[s].row)
            <7>1. CASE u = h
              <8>1. topic'[u] = Append(topic[h], row) /\ topic[h] \in Seq(AllRows)
                BY <3>1, <3>2, <7>1
              <8> QED BY <2>2, <6>4, <7>1, <8>1, TimesAppend
            <7>2. CASE u # h
              BY <3>1, <3>2, <7>2
            <7> QED BY <7>1, <7>2
          <6> QED BY <6>1, <6>2, <6>3, <6>4 DEF TellOK
        <5> QED BY <5>1, <5>2
      <4> QED BY <1>2, <4>1, <4>4, <4>5 DEF ReqOK, PathOK, FeedOK, FeedOf
    <3>10. UniqueInv'
      BY <1>1, <1>2, <2>3, <2>5 DEF UniqueInv, Only
    <3>11. CacheOwn' /\ PairInv'
      BY <1>1, <1>2 DEF CacheOwn, PairInv
    <3> QED BY <3>6, <3>7, <3>8, <3>9, <3>10, <3>11 DEF IInv
  <2> QED BY <1>4, <2>8, <2>9
<1> QED BY <1>3, <1>4 DEF WriteMessages, NotifyError
-----------------------------------------------------------------------------
(* Steps of the cache, of createMockData, of the connection and the process *)

\* Redis drops a feed.
LEMMA ExpireIInv ==
  ASSUME IInv, NEW u \in Users, Expire(u)
  PROVE  IInv'
<1>1. TypeInv /\ ConnHeld /\ DataInv /\ ReqInv /\ UniqueInv /\ CacheOwn /\ PairInv
  BY DEF IInv
<1>2. /\ cache' = [cache EXCEPT ![u] = NoList]
      /\ UNCHANGED <<env, conn, tx, rows, draft, ever, topic, req, acked, made, mock, pairs, faults>>
  BY DEF Expire, data, mocking
<1>3. cache' \in [Users -> Lists]
  BY <1>1, <1>2 DEF TypeInv, Lists
<1>4. TypeInv'
  BY <1>1, <1>2, <1>3, SameRows DEF TypeInv
<1>5. ConnHeld' /\ PairInv'
  BY <1>1, <1>2 DEF ConnHeld, Holders, MockHolds, PairInv
<1>6. DataInv'
  BY <1>1, <1>2 DEF DataInv
<1>7. ReqInv' /\ UniqueInv'
  BY <1>1, <1>2 DEF ReqInv, ReqOK, PathOK, RefusedOK, Unstored, FeedOK, TellOK, FeedOf, UniqueInv
<1>8. CacheOwn'
  BY <1>1, <1>2 DEF CacheOwn, TypeInv
<1> QED BY <1>4, <1>5, <1>6, <1>7, <1>8 DEF IInv

\* Rows are added, requests stay: what is said of rows and requests remains, if
\* only insertions in flight are kept when the session ends.
LEMMA RowsKept ==
  ASSUME IInv, UNCHANGED <<env, topic, req, acked, made, cache>>,
         rows \subseteq rows', ever \subseteq ever', rows' \subseteq ever',
         draft' = {}, tx' = "none", ~env.mock => mock'.pc = "off",
         \A p \in ever' : p \in ever \/ p \in InFlight,
         faults' \in Nat, faults' = 0 => faults = 0 /\ (env.mock \/ ever' = ever)
  PROVE  /\ DataInv' /\ ReqInv' /\ UniqueInv' /\ CacheOwn'
         /\ rows' \subseteq AllRows /\ ever' \subseteq AllRows
<1>1. TypeInv /\ ConnHeld /\ DataInv /\ ReqInv /\ UniqueInv /\ CacheOwn /\ PairInv
  BY DEF IInv
<1>2. \A p \in InFlight : \E r \in Requests : req[r].pc = "inserting" /\ p = req[r].row
  BY DEF InFlight
<1>3. \A p \in InFlight : p \in AllRows /\ p.n <= made
  <2> SUFFICES ASSUME NEW r \in Requests, req[r].pc = "inserting"
               PROVE  req[r].row \in AllRows /\ req[r].row.n <= made
    BY <1>2
  <2> QED BY <1>1 DEF ReqInv, ReqOK, PathOK, TypeInv, ReqType
<1>4. rows' \subseteq AllRows /\ ever' \subseteq AllRows
  BY <1>1, <1>3 DEF TypeInv
<1>5. DataInv'
  BY <1>1, <1>3 DEF DataInv
<1>6. ReqInv'
  <2> SUFFICES ASSUME NEW s \in Requests PROVE ReqOK(req[s])'
    BY DEF ReqInv
  <2>1. ReqOK(req[s]) /\ made \in Nat /\ made <= made
    BY <1>1 DEF ReqInv, TypeInv
  <2> QED BY <1>1, <2>1, KeepReq
<1>7. UniqueInv'
  <2>1. ASSUME NEW r \in Requests, req[r].row # NoRow, NEW p \in InFlight, p.n = req[r].row.n
        PROVE  p = req[r].row
    <3>1. PICK s \in Requests : req[s].pc = "inserting" /\ p = req[s].row
      BY <1>2, <2>1
    <3>2. req[s].row # NoRow
      BY <1>1, <3>1 DEF ReqInv, ReqOK, PathOK
    <3> QED BY <1>1, <2>1, <3>1, <3>2 DEF UniqueInv
  <2> QED BY <1>1, <2>1 DEF UniqueInv
<1>8. CacheOwn'
  BY <1>1 DEF CacheOwn
<1> QED BY <1>4, <1>5, <1>6, <1>7, <1>8

\* What is kept when the session ends was inserted, or is being inserted.
LEMMA KeptRows ==
  ASSUME DataInv, NEW kept \in Kept
  PROVE  \A p \in kept : p \in ever \/ p \in InFlight
  BY DEF Kept, DataInv

\* The session ends and the connection is closed.
LEMMA ClosedIInv ==
  ASSUME IInv, EndSession, conn' = "closed", UNCHANGED <<env, topic, req, acked, made, cache>>,
         mock' = mock \/ (env.mock /\ mock' = [mock EXCEPT !.pc = "failed"]),
         faults' \in Nat, faults' = 0 => faults = 0 /\ env.mock
  PROVE  IInv'
<1>1. TypeInv /\ ConnHeld /\ DataInv /\ PairInv
  BY DEF IInv
<1>2. PICK kept \in Kept : rows' = rows \cup kept /\ ever' = ever \cup kept
  BY DEF EndSession
<1>10. \A p \in kept : p \in ever \/ p \in InFlight
  BY <1>1, KeptRows
<1>3. tx' = "none" /\ draft' = {} /\ pairs' = [pairs EXCEPT !.draft = {}]
  BY DEF EndSession
<1>4. mock' \in MockType /\ mock'.pc \in {mock.pc, "failed"}
      /\ (~env.mock => mock'.pc = "off")
  BY <1>1 DEF TypeInv, MockPcs, DataInv, MockType, Making
<1>5. /\ DataInv' /\ ReqInv' /\ UniqueInv' /\ CacheOwn'
      /\ rows' \subseteq AllRows /\ ever' \subseteq AllRows
  BY <1>1, <1>2, <1>3, <1>4, <1>10, RowsKept DEF DataInv
<1>6. /\ pairs' \in PairsType
      /\ pairs'.pg = pairs.pg /\ pairs'.tarantool = pairs.tarantool
  BY <1>1, <1>3 DEF TypeInv, PairsType
<1>7. TypeInv'
  BY <1>1, <1>3, <1>4, <1>5, <1>6, SameRows DEF TypeInv
<1>8. ConnHeld'
  BY <1>1, <1>4 DEF ConnHeld, Holders, MockHolds
<1>9. PairInv'
  BY <1>1, <1>4, <1>6 DEF PairInv
<1> QED BY <1>5, <1>7, <1>8, <1>9 DEF IInv

\* The connection breaks and the session is rolled back.
LEMMA LoseConnIInv ==
  ASSUME IInv, LoseConn
  PROVE  IInv'
<1>1. faults \in Nat /\ faults' = faults + 1
  BY DEF LoseConn, IInv, TypeInv
<1>2. faults' \in Nat /\ faults' # 0
  BY <1>1
<1> QED BY <1>2, ClosedIInv DEF LoseConn, outside

\* main runs again: the database keeps what it has.
LEMMA RestartIInv ==
  ASSUME IInv, Restart
  PROVE  IInv'
<1>1. TypeInv /\ ConnHeld /\ DataInv /\ ReqInv /\ UniqueInv /\ CacheOwn /\ PairInv
  BY DEF IInv
<1>2. PICK kept \in Kept : rows' = rows \cup kept /\ ever' = ever \cup kept
  BY DEF Restart
<1>3. /\ conn' = "idle" /\ tx' = "none" /\ draft' = {}
      /\ req' = [r \in Requests |-> Idle] /\ mock' = MockStart
      /\ pairs' = [NoPairs EXCEPT !.taken = pairs.taken \cup pairs.tarantool]
      /\ faults' = faults + 1
      /\ UNCHANGED <<env, cache, topic, acked, made>>
  BY DEF Restart, outside
<1>4. \A p \in kept : p \in AllRows /\ p.n <= made
  <2>1. \A p \in kept : p \in ever \/ p \in InFlight
    BY <1>1, KeptRows
  <2>2. \A p \in ever : p \in AllRows /\ p.n <= made
    BY <1>1 DEF DataInv, TypeInv
  <2>3. \A p \in InFlight : \E r \in Requests : req[r].pc = "inserting" /\ p = req[r].row
    BY DEF InFlight
  <2>4. \A r \in Requests : req[r].pc = "inserting" => req[r].row \in AllRows /\ req[r].row.n <= made
    BY <1>1 DEF ReqInv, ReqOK, PathOK, TypeInv, ReqType
  <2> QED BY <2>1, <2>2, <2>3, <2>4
<1>5. /\ mock' \in MockType /\ mock'.pc \in {"begin", "off"}
      /\ (~env.mock => mock'.pc = "off")
  BY <1>3, PostsAssumption DEF MockStart, MockPcs, MockType, Making
<1>6. /\ pairs' \in PairsType
      /\ pairs'.tarantool = {}
  BY <1>1, <1>3 DEF NoPairs, PairsType, TypeInv
<1>7. req' \in [Requests -> ReqType] /\ \A r \in Requests : req'[r] = Idle
  BY <1>3, IdleType
<1>8. TypeInv'
  <2>1. rows' \subseteq AllRows /\ draft' \subseteq AllRows /\ ever' \subseteq AllRows
    BY <1>1, <1>2, <1>3, <1>4 DEF TypeInv
  <2>2. faults' \in Nat
    BY <1>1, <1>3 DEF TypeInv
  <2> QED BY <1>1, <1>3, <1>5, <1>6, <1>7, <2>1, <2>2, SameRows DEF TypeInv
<1>9. ConnHeld'
  BY <1>3, <1>5, <1>7 DEF ConnHeld, Holders, MockHolds, Idle
<1>10. DataInv'
  BY <1>1, <1>2, <1>3, <1>4, <1>5 DEF DataInv
<1>11. ReqInv' /\ UniqueInv'
  <2>1. made' \in Nat
    BY <1>8 DEF TypeInv
  <2>2. \A r \in Requests : ReqOK(req[r])'
    BY <1>7, <2>1 DEF ReqOK, PathOK, RefusedOK, Unstored, FeedOK, TellOK, Idle, NoRow
  <2>3. UniqueInv'
    BY <1>7 DEF UniqueInv, Idle
  <2> QED BY <2>2, <2>3 DEF ReqInv
<1>12. CacheOwn'
  BY <1>1, <1>2, <1>3 DEF CacheOwn
<1>13. PairInv'
  BY <1>5, <1>6 DEF PairInv
<1> QED BY <1>8, <1>9, <1>10, <1>11, <1>12, <1>13 DEF IInv

MockHolding == {"beginning", "execing", "committing"}

\* createMockData takes the connection, gives it back, or leaves it alone.
MockHold ==
  \/ UNCHANGED conn /\ mock.pc \notin MockHolding /\ mock'.pc \notin MockHolding
  \/ Lock /\ mock.pc \notin MockHolding /\ mock'.pc \in MockHolding
  \/ Unlock /\ mock.pc \in MockHolding /\ mock'.pc \notin MockHolding

\* A step of createMockData that keeps the connection open.
LEMMA MockLocal ==
  ASSUME IInv, mock.pc # "off", MockHold, PairInv',
         mock' \in MockType,
         pairs' \in PairsType,
         tx' \in {"none", "open", "aborted"},
         rows \subseteq rows', rows' \subseteq rows \cup draft, draft' \subseteq draft,
         UNCHANGED <<env, ever, cache, topic, req, acked, made, faults>>
  PROVE  IInv'
<1>1. TypeInv /\ ConnHeld /\ DataInv /\ ReqInv /\ UniqueInv /\ CacheOwn /\ PairInv
  BY DEF IInv
<1>2. env.mock
  BY <1>1 DEF DataInv
<1>3. conn' \in {"idle", "busy", "closed"} /\ ConnHeld'
  <2>1. /\ Holders' = Holders
        /\ MockHolds <=> mock.pc \in MockHolding
        /\ MockHolds' <=> mock'.pc \in MockHolding
    BY DEF Holders, MockHolds, MockHolding
  <2>2. CASE UNCHANGED conn /\ mock.pc \notin MockHolding /\ mock'.pc \notin MockHolding
    BY <1>1, <2>1, <2>2 DEF ConnHeld, TypeInv
  <2>3. CASE Lock /\ mock.pc \notin MockHolding /\ mock'.pc \in MockHolding
    BY <1>1, <2>1, <2>3 DEF ConnHeld, Lock
  <2>4. CASE Unlock /\ mock.pc \in MockHolding /\ mock'.pc \notin MockHolding
    BY <1>1, <2>1, <2>4 DEF ConnHeld, Unlock, TypeInv
  <2> QED BY <2>2, <2>3, <2>4 DEF MockHold
<1>4. TypeInv'
  <2>1. rows' \subseteq AllRows /\ draft' \subseteq AllRows
    BY <1>1 DEF TypeInv
  <2> QED BY <1>1, <1>3, <2>1, SameRows DEF TypeInv
<1>5. DataInv'
  BY <1>1, <1>2 DEF DataInv
<1>6. ReqInv'
  <2> SUFFICES ASSUME NEW s \in Requests PROVE ReqOK(req[s])'
    BY DEF ReqInv
  <2>1. ReqOK(req[s]) /\ made \in Nat /\ made <= made
    BY <1>1 DEF ReqInv, TypeInv
  <2> QED BY <1>1, <2>1, KeepReq
<1>7. UniqueInv' /\ CacheOwn'
  BY <1>1 DEF UniqueInv, CacheOwn
<1> QED BY <1>3, <1>4, <1>5, <1>6, <1>7 DEF IInv

\* The goroutine that makes the mock data takes a step.
LEMMA MockIInv ==
  ASSUME IInv, Mock
  PROVE  IInv'
<1>1. TypeInv /\ ConnHeld /\ DataInv /\ PairInv
  BY DEF IInv
<1>2. mock \in MockType
      /\ pairs \in PairsType
  BY <1>1 DEF TypeInv
<1>12. mock.pc \in Making
  BY DEF Mock, Making, MockBegin, MockBegun, MockExec, MockExecuted, MockTarantool, MockCommit,
     MockCommitted
<1>3. ASSUME NEW where \in MockPcs, MockGoto(where)
      PROVE  /\ mock' \in MockType
             /\ mock'.pc = where /\ mock'.index = mock.index
  BY <1>2, <1>3, <1>12 DEF MockGoto, MockType
<1>4. ASSUME mock.pc \in {"begin", "batch"}, conn # "idle", conn' = "closed", MockGoto("failed"),
             EndSession, UNCHANGED <<env, outside, req, acked, made, faults>>
      PROVE  IInv'
  <2>1. env.mock /\ faults' \in Nat
    BY <1>1, <1>4 DEF DataInv, TypeInv
  <2> QED BY <1>4, <2>1, ClosedIInv DEF MockGoto, outside
<1>5. CASE MockBegin
  <2>1. ASSUME Lock, MockGoto("beginning"), UNCHANGED <<tx, data, pairs>> PROVE IInv'
    <3>1. mock.pc = "begin" /\ mock'.pc = "beginning" /\ UNCHANGED pairs
          /\ mock' \in MockType
      BY <1>3, <1>5, <2>1 DEF MockBegin, MockPcs
    <3>2. MockHold
      BY <2>1, <3>1 DEF MockHold, MockHolding
    <3>3. PairInv'
      BY <1>1, <3>1 DEF PairInv
    <3> QED BY <1>1, <1>2, <1>5, <2>1, <3>1, <3>2, <3>3, MockLocal
           DEF MockBegin, data, outside, TypeInv
  <2> QED BY <1>4, <1>5, <2>1 DEF MockBegin
<1>6. CASE MockBegun
  <2>1. mock.pc = "beginning" /\ Unlock /\ UNCHANGED <<data, pairs>>
    BY <1>6 DEF MockBegun
  <2>2. /\ mock' \in MockType
        /\ mock'.pc \in {"batch", "failed"} /\ tx' \in {"none", "open", "aborted"}
    <3>1. CASE conn = "busy"
      BY <1>3, <1>6, <3>1 DEF MockBegun, MockPcs
    <3>2. CASE conn # "busy"
      BY <1>1, <1>3, <1>6, <3>2 DEF MockBegun, MockPcs, TypeInv
    <3> QED BY <3>1, <3>2
  <2>3. MockHold
    BY <2>1, <2>2 DEF MockHold, MockHolding
  <2>4. PairInv'
    BY <1>1, <2>1, <2>2 DEF PairInv
  <2> QED BY <1>2, <1>6, <2>1, <2>2, <2>3, <2>4, MockLocal DEF MockBegun, data, outside
<1>7. CASE MockExec
  <2>1. mock.pc = "batch" /\ UNCHANGED <<tx, data, pairs>>
    BY <1>7 DEF MockExec
  <2>2. /\ mock' \in MockType
        /\ (Lock /\ mock'.pc = "execing") \/ (UNCHANGED conn /\ mock'.pc = "failed")
    BY <1>3, <1>7 DEF MockExec, MockPcs
  <2>3. MockHold
    BY <2>1, <2>2 DEF MockHold, MockHolding
  <2>4. PairInv'
    BY <1>1, <2>1, <2>2 DEF PairInv, Lock
  <2> QED BY <1>1, <1>2, <1>7, <2>1, <2>2, <2>3, <2>4, MockLocal
         DEF MockExec, data, outside, TypeInv
<1>8. CASE MockExecuted
  <2>1. mock.pc = "execing" /\ Unlock /\ UNCHANGED <<tx, data>>
    BY <1>8 DEF MockExecuted
  <2>2. CASE MockGoto("batch") /\ UNCHANGED pairs
    <3>1. mock' \in MockType /\ mock'.pc = "batch"
      BY <1>3, <2>2 DEF MockPcs
    <3>2. MockHold
      BY <2>1, <3>1 DEF MockHold, MockHolding
    <3>3. PairInv'
      BY <1>1, <2>1, <2>2, <3>1 DEF PairInv, Unlock
    <3> QED BY <1>1, <1>2, <1>8, <2>1, <2>2, <3>1, <3>2, <3>3, MockLocal
           DEF MockExecuted, data, outside, TypeInv
  <2>3. CASE MockGoto("tarantool") /\ pairs' = [pairs EXCEPT !.draft = @ \cup {mock.index}]
    <3>1. /\ mock' \in MockType /\ mock'.pc = "tarantool"
          /\ mock'.index = mock.index /\ mock.index \in Nat
      BY <1>2, <1>3, <2>3 DEF MockPcs, MockType
    <3>2. /\ pairs' \in PairsType
          /\ pairs'.draft = pairs.draft \cup {mock.index} /\ pairs'.pg = pairs.pg
          /\ pairs'.tarantool = pairs.tarantool
      BY <1>2, <2>3, <3>1 DEF PairsType
    <3>3. MockHold
      BY <2>1, <3>1 DEF MockHold, MockHolding
    <3>4. PairInv'
      BY <1>1, <2>1, <3>1, <3>2 DEF PairInv, Unlock
    <3> QED BY <1>1, <1>8, <2>1, <3>1, <3>2, <3>3, <3>4, MockLocal
           DEF MockExecuted, data, outside, TypeInv
  <2>4. CASE MockGoto("failed") /\ UNCHANGED pairs
    <3>1. mock' \in MockType /\ mock'.pc = "failed"
      BY <1>3, <2>4 DEF MockPcs
    <3>2. MockHold
      BY <2>1, <3>1 DEF MockHold, MockHolding
    <3>3. PairInv'
      BY <3>1 DEF PairInv
    <3> QED BY <1>1, <1>2, <1>8, <2>1, <2>4, <3>1, <3>2, <3>3, MockLocal
           DEF MockExecuted, data, outside, TypeInv
  <2> QED BY <1>8, <2>2, <2>3, <2>4 DEF MockExecuted
<1>9. CASE MockTarantool
  <2>1. mock.pc = "tarantool" /\ UNCHANGED <<conn, tx, data>>
    BY <1>9 DEF MockTarantool
  <2>2. /\ mock' \in MockType /\ mock'.pc = "batch"
        /\ mock.index \in Nat
    <3>1. mock.index \in Nat /\ mock.index + 1 \in Nat /\ "batch" \in MockPcs
      BY <1>2 DEF MockPcs, MockType
    <3>2. mock' = [mock EXCEPT !.pc = "batch", !.index = mock.index + 1]
      BY <1>9 DEF MockTarantool
    <3> QED BY <1>2, <1>12, <3>1, <3>2 DEF MockType
  <2>3. /\ pairs' \in PairsType
        /\ pairs'.draft = pairs.draft /\ pairs'.pg = pairs.pg
        /\ pairs'.tarantool \subseteq pairs.tarantool \cup {mock.index}
    BY <1>2, <1>9, <2>2 DEF MockTarantool, PairsType
  <2>4. MockHold
    BY <2>1, <2>2 DEF MockHold, MockHolding
  <2>5. PairInv'
    BY <1>1, <2>1, <2>2, <2>3 DEF PairInv
  <2> QED BY <1>1, <1>9, <2>1, <2>2, <2>3, <2>4, <2>5, MockLocal
         DEF MockTarantool, data, outside, TypeInv
<1>10. CASE MockCommit
  <2>1. ASSUME Lock, MockGoto("committing"), UNCHANGED <<tx, data, pairs>> PROVE IInv'
    <3>1. mock.pc = "batch" /\ mock'.pc = "committing"
          /\ mock' \in MockType
      BY <1>3, <1>10, <2>1 DEF MockCommit, MockPcs
    <3>2. MockHold
      BY <2>1, <3>1 DEF MockHold, MockHolding
    <3>3. PairInv'
      BY <1>1, <2>1, <3>1 DEF PairInv, Lock
    <3> QED BY <1>1, <1>2, <1>10, <2>1, <3>1, <3>2, <3>3, MockLocal
           DEF MockCommit, data, outside, TypeInv
  <2> QED BY <1>4, <1>10, <2>1 DEF MockCommit
<1>11. CASE MockCommitted
  <2>1. /\ mock.pc = "committing" /\ Unlock /\ tx' = "none" /\ draft' = {}
        /\ UNCHANGED <<env, ever, cache, topic, req, acked, made, faults>>
    BY <1>11 DEF MockCommitted, outside
  <2>2. CASE /\ Served /\ rows' = rows \cup draft
             /\ pairs' = [pairs EXCEPT !.pg = @ \cup pairs.draft, !.draft = {}]
             /\ mock' = [mock EXCEPT !.pc = IF mock.batch + 1 < MockBatches THEN "begin" ELSE "done",
                                     !.batch = @ + 1]
    <3>1. mock' \in MockType /\ mock'.pc \in {"begin", "done"}
      <4>1. PICK where \in {"begin", "done"} :
              /\ mock' = [mock EXCEPT !.pc = where, !.batch = mock.batch + 1]
              /\ where = "begin" => mock.batch + 1 < MockBatches
        BY <2>2
      <4>2. mock.batch + 1 \in 0 .. MockBatches /\ where \in MockPcs
        BY <1>2, <1>12, PostsAssumption DEF MockPcs, MockType
      <4> QED BY <1>2, <4>1, <4>2 DEF MockType, Making
    <3>2. /\ pairs' \in PairsType
          /\ pairs'.pg = pairs.pg \cup pairs.draft /\ pairs'.tarantool = pairs.tarantool
      BY <1>2, <2>2 DEF PairsType
    <3>3. MockHold
      BY <2>1, <3>1 DEF MockHold, MockHolding
    <3>4. PairInv'
      BY <1>1, <2>1, <2>2, <3>1, <3>2 DEF PairInv, Served
    <3> QED BY <2>1, <2>2, <3>1, <3>2, <3>3, <3>4, MockLocal
  <2>3. CASE ~Served /\ MockGoto("failed") /\ pairs' = [pairs EXCEPT !.draft = {}] /\ UNCHANGED rows
    <3>1. mock' \in MockType /\ mock'.pc = "failed"
      BY <1>3, <2>3 DEF MockPcs
    <3>2. pairs' \in PairsType
      BY <1>2, <2>3 DEF PairsType
    <3>3. MockHold /\ PairInv'
      BY <2>1, <3>1 DEF MockHold, MockHolding, PairInv
    <3> QED BY <2>1, <2>3, <3>1, <3>2, <3>3, MockLocal
  <2> QED BY <1>11, <2>2, <2>3 DEF MockCommitted
<1> QED BY <1>5, <1>6, <1>7, <1>8, <1>9, <1>10, <1>11 DEF Mock
-----------------------------------------------------------------------------
(* The theorems *)

\* The service has just started.
LEMMA InitIInv == Init => IInv
<1> SUFFICES ASSUME Init PROVE IInv
  OBVIOUS
<1>1. TypeInv
  <2>1. env \in Settings /\ conn = "idle" /\ tx = "none"
        /\ rows = {} /\ draft = {} /\ ever = {} /\ acked = {} /\ made = 0 /\ faults = 0
    BY DEF Init
  <2>2. MaxRows[env] \in Nat
    BY <2>1, PostsAssumption, Zenon
  <2>3. cache \in [Users -> Lists] /\ req \in [Requests -> ReqType]
    BY IdleType DEF Init, Lists
  <2>4. topic \in [Users -> Seq(AllRows)]
    BY DEF Init
  <2>5. /\ mock \in MockType
        /\ pairs \in PairsType
    BY PostsAssumption DEF Init, MockStart, MockPcs, NoPairs, MockType, Making, PairsType
  <2>6. made \in 0 .. MaxRows[env] /\ faults \in Nat
    BY <2>1, <2>2
  <2> QED BY <2>1, <2>3, <2>4, <2>5, <2>6 DEF TypeInv
<1>2. \A r \in Requests : req[r] = Idle
  BY DEF Init
<1>3. ConnHeld
  BY <1>2 DEF Init, ConnHeld, Holders, MockHolds, MockStart, Idle
<1>4. DataInv
  BY DEF Init, DataInv, MockStart
<1>5. ReqInv /\ UniqueInv
  BY <1>1, <1>2, IdleOK DEF ReqInv, UniqueInv, Idle
<1>6. CacheOwn /\ PairInv
  BY DEF Init, CacheOwn, PairInv, MockStart, NoPairs
<1> QED BY <1>1, <1>3, <1>4, <1>5, <1>6 DEF IInv

\* Nothing changes.
LEMMA StutterIInv ==
  ASSUME IInv, UNCHANGED vars
  PROVE  IInv'
<1>1. UNCHANGED <<env, conn, tx, rows, draft, ever, cache, topic, req, acked, made, mock, pairs,
                  faults>>
  BY DEF vars, data, outside, mocking
<1>2. TypeInv' /\ DataInv' /\ UniqueInv'
  BY <1>1, SameRows DEF IInv, TypeInv, DataInv, UniqueInv
<1>3. ConnHeld' /\ PairInv' /\ CacheOwn'
  BY <1>1 DEF IInv, ConnHeld, Holders, MockHolds, PairInv, CacheOwn
<1>4. ReqInv'
  BY <1>1 DEF IInv, ReqInv, ReqOK, PathOK, RefusedOK, Unstored, FeedOK, TellOK, FeedOf
<1> QED BY <1>2, <1>3, <1>4 DEF IInv

\* Every step keeps the invariant.
LEMMA NextIInv ==
  ASSUME IInv, [Next]_vars
  PROVE  IInv'
<1>1. ASSUME NEW r \in Requests, Arrive(r) \/ Close(r) PROVE IInv'
  BY <1>1, ArriveIInv, NewRequestIInv DEF Arrive
<1>2. ASSUME NEW r \in Requests, Step(r) PROVE IInv'
  BY <1>2, InsertStartIInv, InsertEndIInv, FriendsTarantoolIInv, FriendsStartIInv, FriendsEndIInv,
     WriteMessagesIInv, CacheFeedIInv, FeedStartIInv, FeedEndIInv, CacheSetIInv, ExecIInv DEF Step
<1>3. ASSUME NEW u \in Users, Expire(u) PROVE IInv'
  BY <1>3, ExpireIInv
<1>4. CASE Mock \/ LoseConn \/ Restart \/ UNCHANGED vars
  BY <1>4, MockIInv, LoseConnIInv, RestartIInv, StutterIInv
<1> QED BY <1>1, <1>2, <1>3, <1>4 DEF Next

\* The inductive invariant holds in every reachable state of the service: the
\* requests, the goroutine that makes mock data, the connection and the process.
THEOREM PostsInvariance == Spec => []IInv
<1>1. IInv /\ [Next]_vars => IInv'
  BY NextIInv
<1> QED BY <1>1, InitIInv, PTL DEF Spec

\* The state of the service keeps its types, also while connection and process
\* fail.
THEOREM PostsTypeCorrect == Spec => []TypeOK
<1>1. IInv => TypeOK
  <2> SUFFICES ASSUME IInv PROVE TypeOK
    OBVIOUS
  <2>1. TypeInv
    BY DEF IInv
  <2>2. \A r \in Requests : /\ req[r].pc \in Pcs
                            /\ req[r].row \in AllRows \cup {NoRow}
                            /\ req[r].status \in {0, 200, 400, 404, 500}
    BY <2>1 DEF TypeInv, ReqType, Statuses
  <2>3. DOMAIN cache = Users /\ mock.pc \in MockPcs /\ mock.batch \in 0 .. MockBatches
    BY <2>1 DEF TypeInv, MockType
  <2> QED BY <2>1, <2>2, <2>3 DEF TypeInv, TypeOK, MockPcs
<1> QED BY <1>1, PostsInvariance, PTL

\* The one connection that all goroutines share carries one statement at a time
\* and is never left busy, for any number of requests: it is given back also when
\* a statement fails, when Scan refuses a row, and when the connection breaks.
THEOREM OneStatement == Spec => []ConnHeld
<1>1. IInv => ConnHeld
  BY DEF IInv
<1> QED BY <1>1, PostsInvariance, PTL

\* Clients are told the truth about their posts and accounts: confirmed is
\* stored (without mock data), refused is nowhere.
THEOREM ToldTheTruth == Spec => []AnswersTrue
<1>1. IInv => AnswersTrue
  BY DEF IInv, DataInv, ReqInv, ReqOK, RefusedOK, Unstored, AnswersTrue, AckedDurable, RefusedAbsent
<1> QED BY <1>1, PostsInvariance, PTL

\* Redis keeps only feeds of stored posts of the user's own friends.
THEOREM CachedFeedsOwn == Spec => []CacheOwn
<1>1. IInv => CacheOwn
  BY DEF IInv
<1> QED BY <1>1, PostsInvariance, PTL

\* createMockData that returns without an error left no friend pair of this
\* process in Tarantool that PostgreSQL does not have, whatever other goroutines'
\* statements did to its transactions.
THEOREM MockPairsCommitted == Spec => []MockMatches
<1>1. IInv => MockMatches
  BY DEF IInv, PairInv, MockMatches
<1> QED BY <1>1, PostsInvariance, PTL
-----------------------------------------------------------------------------
(* SocialPosts implements PostSpec *)

PostsVars == <<Posts(ever), topic, Posts(acked)>>

\* Steps that leave rows, topics and confirmations alone are stutters of PostSpec.
LEMMA Stutters ==
  ASSUME UNCHANGED <<ever, topic, acked>>
  PROVE  UNCHANGED PostsVars
  BY DEF PostsVars, Posts

\* A row that is inserted is a new post, no post, or there already.
LEMMA StoreStep ==
  ASSUME IInv, NEW r \in Requests, req[r].row # NoRow, ever' = ever \cup {req[r].row},
         UNCHANGED topic, Posts(acked)' = Posts(acked)
  PROVE  PS!Next \/ UNCHANGED PostsVars
<1> DEFINE p == req[r].row
<1>1. CASE p \in ever \/ p.table # "Post"
  BY <1>1 DEF PostsVars, Posts
<1>2. CASE p \notin ever /\ p.table = "Post"
  <2>1. Posts(ever)' = Posts(ever) \cup {p}
    BY <1>2 DEF Posts
  <2>2. \A q \in Posts(ever) : q.n # p.n
    BY <1>2 DEF IInv, UniqueInv, Posts
  <2>3. PS!Store(p)
    BY <2>1, <2>2 DEF PS!Store
  <2> QED BY <2>1, <2>3 DEF PS!Next
<1> QED BY <1>1, <1>2

\* A confirmation tells of a row that was inserted.
LEMMA AckStep ==
  ASSUME IInv', NEW p, acked' = acked \/ acked' = acked \cup {p}, UNCHANGED <<ever, topic>>
  PROVE  PS!Next \/ UNCHANGED PostsVars
<1>1. CASE Posts(acked)' = Posts(acked)
  BY <1>1 DEF PostsVars, Posts
<1>2. CASE Posts(acked)' # Posts(acked)
  <2>1. acked' = acked \cup {p} /\ p \in ever
    BY <1>2 DEF Posts, IInv, DataInv
  <2>2. p \notin acked /\ p.table = "Post"
    BY <1>2, <2>1 DEF Posts
  <2>3. p \in Posts(ever) \ Posts(acked) /\ Posts(acked)' = Posts(acked) \cup {p}
        /\ UNCHANGED <<Posts(ever), topic>>
    BY <2>1, <2>2 DEF Posts
  <2>4. PS!Ack(p)
    BY <2>3 DEF PS!Ack
  <2> QED BY <2>3, <2>4 DEF PS!Next
<1> QED BY <1>1, <1>2

\* Every answer confirms at most the row of its request.
LEMMA FinishAcks ==
  ASSUME NEW r, NEW q, NEW code, Finish(r, q, code)
  PROVE  acked' = acked \/ acked' = acked \cup {q.row}
  BY DEF Finish

\* The executed insertion stores a post; the account of a registration is none.
LEMMA InsertEndStep ==
  ASSUME IInv, IInv', NEW r \in Requests, InsertEnd(r)
  PROVE  PS!Next \/ UNCHANGED PostsVars
<1>1. /\ req[r].pc = "inserting" /\ ReqOK(req[r]) /\ req[r].row # NoRow /\ UNCHANGED topic
      /\ req[r].kind \in {"create", "register"}
      /\ req[r].kind = "register" => req[r].row.table = "User"
  BY DEF InsertEnd, IInv, ReqInv, ReqOK, PathOK, outside
<1>2. CASE Fails /\ Finish(r, req[r], InsertError(req[r])) /\ UNCHANGED data
  BY <1>1, <1>2, FinishAcks, AckStep DEF data
<1>3. CASE Inserts(r)
  <2>1. /\ ever' = ever \cup {req[r].row}
        /\ IF req[r].kind = "create" THEN UNCHANGED acked ELSE Finish(r, req[r], 200)
    BY <1>3 DEF Inserts
  <2>2. Posts(acked)' = Posts(acked)
    <3>1. CASE req[r].kind = "create"
      BY <2>1, <3>1 DEF Posts
    <3>2. CASE req[r].kind = "register"
      <4>1. Finish(r, req[r], 200) /\ req[r].row.table = "User"
        BY <1>1, <2>1, <3>2
      <4>2. acked' = acked \/ acked' = acked \cup {req[r].row}
        BY <4>1, FinishAcks
      <4> QED BY <4>1, <4>2 DEF Posts
    <3> QED BY <1>1, <3>1, <3>2
  <2> QED BY <1>1, <2>1, <2>2, StoreStep
<1> QED BY <1>2, <1>3 DEF InsertEnd, Inserts

\* Both modules count in the same way.
LEMMA SameTimes ==
  ASSUME NEW s, NEW x
  PROVE  PS!Times(s, x) = Times(s, x)
<1>1. \A S : PS!Cardinality(S) = Cardinality(S)
  BY Zenon DEF PS!Cardinality, Cardinality
<1> QED BY <1>1 DEF PS!Times, Times, Count

\* A notification goes to a friend of the author who is listed more often than told.
LEMMA WriteMessagesStep ==
  ASSUME IInv, IInv', NEW r \in Requests, WriteMessages(r)
  PROVE  PS!Next \/ UNCHANGED PostsVars
<1> DEFINE rest == req[r].rest
           row == req[r].row
           u == Head(rest)
<1>1. req[r].pc = "notify" /\ req[r] \in ReqType /\ ReqOK(req[r]) /\ UNCHANGED ever
  BY DEF WriteMessages, IInv, TypeInv, ReqInv, data
<1>2. CASE Finish(r, req[r], 200) /\ UNCHANGED topic
  BY <1>1, <1>2, FinishAcks, AckStep
<1>3. CASE UNCHANGED <<topic, acked>>
  BY <1>1, <1>3, Stutters
<1>4. CASE rest # <<>> /\ topic' = [topic EXCEPT ![u] = Append(@, row)] /\ UNCHANGED acked
  <2>1. rest \in Seq(Users)
    BY <1>1 DEF ReqType
  <2>2. u \in Users /\ u = rest[1] /\ 1 \in 1 .. Len(rest)
    BY <1>4, <2>1, HeadTailProperties, LenProperties
  <2>3. row \in Posts(ever) /\ row.by = req[r].user
    BY <1>1 DEF ReqOK, PathOK, Posts
  <2>7. PICK i \in Nat : /\ After(req[r].user, i, rest)
                         /\ \A v \in Users : Times(topic[v], row) <= Count(Friends[req[r].user], i, v)
    BY <1>1 DEF ReqOK, TellOK
  <2> HIDE DEF u, row, rest
  <2>4. Times(topic[u], row) < Times(Friends[row.by], u)
    <3>1. req[r].user \in Users /\ topic[u] \in Seq(AllRows) /\ row \in AllRows
      BY <1>1, <2>2, <2>3 DEF ReqOK, PathOK, Posts, IInv, TypeInv
    <3> DEFINE f == Friends[req[r].user]
    <3>2. Len(f) \in Nat /\ Len(rest) \in Nat
      BY <2>1, <3>1, FriendsToTell, LenProperties
    <3>3. i < Len(f) /\ f[i + 1] = u
      BY <2>2, <2>7, <3>2 DEF After
    <3>4. Times(topic[u], row) <= Count(f, i, u)
      BY <2>2, <2>7
    <3> HIDE DEF f
    <3>5. Count(f, i, u) < Count(f, Len(f), u)
      BY <3>2, <3>3, CountBelow
    <3>6. Count(f, i, u) \in Nat /\ Count(f, Len(f), u) \in Nat
      BY <3>2, CountType
    <3>7. Times(topic[u], row) \in Nat
      BY <3>1, TimesAppend
    <3>8. Times(topic[u], row) < Count(f, Len(f), u)
      BY <3>4, <3>5, <3>6, <3>7
    <3> QED BY <2>3, <3>8 DEF Times, f
  <2>5. UNCHANGED <<Posts(ever), Posts(acked)>>
    BY <1>1, <1>4 DEF Posts
  <2>6. PS!Tell(u, row)
    BY <1>4, <2>3, <2>4, <2>5, SameTimes DEF PS!Tell, rest, u, row
  <2> QED BY <2>2, <2>3, <2>6 DEF PS!Next
<1>5. \/ Finish(r, req[r], 200) /\ UNCHANGED topic
      \/ UNCHANGED <<topic, acked>>
      \/ rest # <<>> /\ topic' = [topic EXCEPT ![u] = Append(@, row)] /\ UNCHANGED acked
  BY DEF WriteMessages, NotifyError
<1> QED BY <1>2, <1>3, <1>4, <1>5

\* The other steps of a request store nothing and tell nobody.
LEMMA RequestStep ==
  ASSUME IInv, IInv', NEW r \in Requests, Arrive(r) \/ Step(r) \/ Close(r)
  PROVE  PS!Next \/ UNCHANGED PostsVars
<1>1. CASE InsertEnd(r)
  BY <1>1, InsertEndStep
<1>2. CASE WriteMessages(r)
  BY <1>2, WriteMessagesStep
<1>3. CASE Arrive(r) \/ Close(r)
  <2>1. UNCHANGED <<ever, topic>> /\ (UNCHANGED acked \/ BindFails(r))
    BY <1>3 DEF Arrive, Close, PostCreatePost, PostFeedGet, FriendSetUserIdPut,
       FriendDeleteUserIdPut, UserRegisterPost, UserGetIdGet, UserSearchGet, LoginPost,
       BindFails, Begin, data, outside
  <2>2. CASE BindFails(r)
    <3> DEFINE q == [Idle EXCEPT !.kind = "bad"]
    <3>1. Finish(r, q, 400)
      BY <2>2 DEF BindFails
    <3> HIDE DEF q
    <3>2. acked' = acked \/ acked' = acked \cup {q.row}
      BY <3>1, FinishAcks
    <3> QED BY <2>1, <3>2, AckStep
  <2> QED BY <2>1, <2>2, Stutters
<1>4. CASE InsertStart(r) \/ FriendsTarantool(r) \/ FriendsStart(r) \/ FriendsEnd(r)
           \/ CacheSet(r)
  <2>1. UNCHANGED <<ever, topic>>
    BY <1>4 DEF InsertStart, FriendsTarantool, FriendsStart, FriendsEnd, CacheSet, data, outside
  <2>2. UNCHANGED acked \/ \E c : Finish(r, req[r], c)
    <3>1. CASE InsertStart(r)
      BY <3>1 DEF InsertStart
    <3>2. CASE FriendsTarantool(r)
      BY <3>2 DEF FriendsTarantool, NotifyError
    <3>3. CASE FriendsStart(r)
      BY <3>3 DEF FriendsStart, NotifyError
    <3>4. CASE FriendsEnd(r)
      BY <3>4 DEF FriendsEnd, NotifyError
    <3>5. CASE CacheSet(r)
      BY <3>5 DEF CacheSet
    <3> QED BY <1>4, <3>1, <3>2, <3>3, <3>4, <3>5
  <2> QED BY <2>1, <2>2, FinishAcks, AckStep, Stutters
<1>5. CASE CacheFeed(r) \/ FeedStart(r) \/ FeedEnd(r) \/ ExecStart(r) \/ ExecEnd(r)
  <2>1. UNCHANGED <<ever, topic, acked>>
    BY <1>5 DEF CacheFeed, FeedStart, FeedEnd, ExecStart, ExecEnd, Answered, data, outside
  <2> QED BY <2>1, Stutters
<1> QED BY <1>1, <1>2, <1>3, <1>4, <1>5 DEF Step

\* A session that ends keeps at most the one insertion in flight, or what the
\* transaction had inserted.
LEMMA KeptStep ==
  ASSUME IInv, \E kept \in Kept : ever' = ever \cup kept, UNCHANGED <<topic, acked>>
  PROVE  PS!Next \/ UNCHANGED PostsVars
<1>4. PICK some \in Kept : ever' = ever \cup some
  OBVIOUS
<1> DEFINE kept == some \ ever
<1>1. kept \in SUBSET InFlight /\ ever' = ever \cup kept
  BY <1>4, KeptRows DEF IInv
<1> HIDE DEF kept
<1>2. CASE kept = {}
  BY <1>1, <1>2, Stutters
<1>3. ASSUME NEW p \in kept PROVE PS!Next \/ UNCHANGED PostsVars
  <2>1. PICK r \in Requests : req[r].pc = "inserting" /\ p = req[r].row
    BY <1>1 DEF InFlight
  <2>2. \A q \in InFlight : \E s \in Requests : req[s].pc = "inserting" /\ q = req[s].row
    BY DEF InFlight
  <2>3. \A s \in Requests : req[s].pc = "inserting" => s = r
    BY <2>1 DEF IInv, ConnHeld, Holders
  <2>4. kept = {p}
    BY <1>1, <1>3, <2>1, <2>2, <2>3
  <2>5. req[r].row # NoRow
    BY <2>1 DEF IInv, ReqInv, ReqOK, PathOK
  <2> QED BY <1>1, <2>1, <2>4, <2>5, StoreStep DEF Posts
<1> QED BY <1>2, <1>3

\* Mock data commit and roll back rows that were inserted before; only the end
\* of a session stores a post, the one whose insertion was in flight.
LEMMA OtherStep ==
  ASSUME IInv, (\E u \in Users : Expire(u)) \/ Mock \/ LoseConn \/ Restart
  PROVE  PS!Next \/ UNCHANGED PostsVars
<1>1. CASE \E u \in Users : Expire(u)
  BY <1>1, Stutters DEF Expire, data
<1>2. CASE LoseConn \/ Restart
  BY <1>2, KeptStep DEF LoseConn, Restart, EndSession, outside
<1>3. CASE Mock
  <2>1. CASE MockBegin \/ MockCommit
    <3>1. UNCHANGED <<topic, acked>> /\ (UNCHANGED ever \/ EndSession)
      BY <2>1 DEF MockBegin, MockCommit, data, outside
    <3> QED BY <3>1, KeptStep, Stutters DEF EndSession
  <2>2. CASE MockBegun \/ MockExec \/ MockExecuted \/ MockTarantool \/ MockCommitted
    BY <2>2, Stutters DEF MockBegun, MockExec, MockExecuted, MockTarantool, MockCommitted, data,
       outside
  <2> QED BY <1>3, <2>1, <2>2 DEF Mock
<1> QED BY <1>1, <1>2, <1>3

\* The service implements PostSpec: a post is stored once, notified only after
\* that, to friends of its author only and to each at most as often as it is listed,
\* and confirmed only after it was stored; whatever requests, mock data,
\* connection and process do.
THEOREM PostsRefinement == Spec => ImplementsPostSpec
<1>1. Init => PS!Init
  BY DEF Init, PS!Init, Posts
<1>2. IInv /\ IInv' /\ [Next]_vars => [PS!Next]_PostsVars
  <2> SUFFICES ASSUME IInv, IInv', [Next]_vars PROVE PS!Next \/ UNCHANGED PostsVars
    OBVIOUS
  <2>1. CASE UNCHANGED vars
    BY <2>1, Stutters DEF vars, data, outside
  <2>2. CASE Next
    BY <2>2, RequestStep, OtherStep DEF Next
  <2> QED BY <2>1, <2>2
<1> QED BY <1>1, <1>2, PostsInvariance, PTL DEF Spec, ImplementsPostSpec, PS!Spec, PostsVars
=============================================================================
