SPECIFICATION FairSpec
CONSTANTS
  Conns = {a, b}
  Counts = {7, 13}
  Clients = {s}
  RADIX_POWERS = {1, 10}
  FLOAT_EXACT = 8
  ULPS = {1, 2}
INVARIANTS TypeOK GaugesMatchRead NoStaleSeries
PROPERTY SignalEnds
