--------------------------- MODULE MCSocialPosts ---------------------------
(* Constants of the SocialPosts runs that a .cfg cannot write. *)
EXTENDS SocialPosts, TLC

CONSTANTS ann, bob

\* ann lists bob twice, as the mock data may, and bob lists ann: ann's posts are in
\* bob's feed, and go to the topic of bob.
FewFriends == [u \in Users |-> CASE u = ann -> <<bob, bob>> [] u = bob -> <<ann>>]

Setting(m, t, refused) ==
  [mock |-> m, tarantool |-> t, malformed |-> refused]

\* As deployed; friends from PostgreSQL; mock data, which need Tarantool; and mock
\* data with feeds that PostgreSQL refuses.
Deployed == {Setting(FALSE, TRUE, {})}
WithMock == Setting(TRUE, TRUE, {})
Refusing == Setting(TRUE, TRUE, {bob})
AllSettings == Deployed \cup {Setting(FALSE, FALSE, {}), WithMock, Refusing}

\* Two rows and a fault without mock data.  With them one row, and the faults that
\* mock data and requests make for each other; or a fault, feeds that are refused,
\* and no new row.
RowBound == [s \in AllSettings |-> IF s = WithMock THEN 1 ELSE IF s = Refusing THEN 0 ELSE 2]
FaultBound == [s \in AllSettings |-> IF s = WithMock THEN 0 ELSE 1]

OneRow == [s \in Deployed |-> 1]
NoFault == [s \in Deployed |-> 0]

\* Requests are interchangeable.
RequestSymmetry == Permutations(Requests)
=============================================================================
