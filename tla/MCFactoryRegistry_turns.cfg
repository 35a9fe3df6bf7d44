CONSTANTS
  Admin = admin
  Booted = {carl}
  Newcomers = {ann, bea}
  Pages = {p1}
  Hosts = {host}
  Home <- LastHome
  Participants = 2
  Transport = "grpc"
  MaxTries = 2
  MaxFaults = 1
  MaxAtOnce = 2
SPECIFICATION FairSpec
INVARIANTS
  TypeOK

  
  
\* Every call is served once: when all have ended, the instance stops.
CHECK_DEADLOCK FALSE
