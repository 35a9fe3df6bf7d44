CONSTANTS
  Clients = {c1, c2}
  Shapes <- TwoShapes
  MaxLedger = 3
  MaxBreaks = 1
  Pages = {p1}
  PageOf <- OnePage
  Transport = "grpc"
  MaxVisits = 1
SPECIFICATION Spec
INVARIANTS
  ViewsRefresh
SYMMETRY ConnectionSymmetry
\* When every update is broadcast and every socket has been used, nothing happens.
CHECK_DEADLOCK FALSE
