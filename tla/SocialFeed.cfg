SPECIFICATION Spec
CONSTANTS
  ann = ann
  bob = bob
  Users = {ann, bob}
  Authors = {ann, NoUser}
  Readers = {bob}
  NoUser = NoUser
  Friends <- FewFriends
  Requests = {r1, r2}
  NoList = NoList
  Null = Null
  Settings <- Deployed
  MaxRows <- OneRow
  MockRows = 1
  MockBatches = 1
  MaxFaults <- NoFault
INVARIANTS FeedComplete
