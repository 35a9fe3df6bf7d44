CONSTANTS
  Admin = admin
  Booted = {carl}
  Newcomers = {ann}
  Pages = {p1, p2}
  Hosts = {}
  Home <- LastHome
  Participants = 2
  Transport = "grpc"
  MaxTries = 2
  MaxFaults = 0
  MaxAtOnce = 2
SPECIFICATION Spec
INVARIANTS
  OneFactory
SYMMETRY CallerSymmetry
\* Every call is served once: when all have ended, the instance stops.
CHECK_DEADLOCK FALSE
