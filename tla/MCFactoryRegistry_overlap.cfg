CONSTANTS
  Admin = admin
  Booted = {}
  Newcomers = {ann, bea}
  Pages = {p1}
  Hosts = {host}
  Home <- LastHome
  Participants = 1
  Transport = "http"
  MaxTries = 2
  MaxFaults = 2
  MaxAtOnce = 3
SPECIFICATION FairSpec
INVARIANTS
  ObserversAddUp
  ReplacementsBounded
  ReadyMeansFactory
PROPERTIES
  PagesGetReady
\* Every call is served once: when all have ended, the instance stops.
CHECK_DEADLOCK FALSE
