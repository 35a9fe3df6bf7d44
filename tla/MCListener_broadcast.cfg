CONSTANTS
  Clients = {c1, c2}
  Shapes <- MixedShapes
  MaxLedger = 2
  MaxBreaks = 2
SPECIFICATION FairListener
INVARIANTS
  TypeOK
  NoEventSkipped
PROPERTIES
  BroadcastReachesAll
  Broadcasts
  Registered
\* When every update is broadcast and every client has left, nothing happens.
CHECK_DEADLOCK FALSE
