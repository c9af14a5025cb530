SPECIFICATION Spec
CONSTANTS
  Users = {u1, u2}
  Rmmod = Rmmod
  Entries = {1, 2, 3}
  Values = {3, 7}
  Serial = TRUE
  EarlyUse = FALSE
INVARIANTS TypeOK ListWhole EntriesAlive
PROPERTY ImplementsStackSpec
