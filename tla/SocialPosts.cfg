SPECIFICATION Spec
CONSTANTS
  ann = ann
  bob = bob
  Users = {ann, bob}
  Authors = {ann, NoUser}
  Readers = {bob}
  NoUser = NoUser
  Friends <- FewFriends
  Requests = {r1, r2}
  NoList = NoList
  Null = Null
  Settings <- AllSettings
  MaxRows <- RowBound
  MockRows = 1
  MockBatches = 1
  MaxFaults <- FaultBound
INVARIANTS TypeOK ConnHeld AnswersTrue CacheOwn MockMatches
PROPERTIES ImplementsPostSpec
SYMMETRY RequestSymmetry
