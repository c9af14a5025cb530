SPECIFICATION Spec
CONSTANTS
  Users = {u1, u2}
  Rmmod = Rmmod
  Entries = {1, 2}
  Values = {7}
  Serial = FALSE
  EarlyUse = FALSE
INVARIANT SizeExact
