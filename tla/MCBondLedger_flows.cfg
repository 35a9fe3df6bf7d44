CONSTANTS
  Parties = {alice, bob, carol}
  Admin = admin
  Instruments = {"BOND"}
  Supported = {"BOND"}
  Native = {"BOND"}
  Terms = {"std"}
  DefaultTerms = "std"
  Flows = {"own", "transfer", "allocation"}
  ContractIds = {1, 2, 3, 4, 5}
  MaxAmount = 2
  MaxSupply <- TwoUnits
  MaxTime = 2
SPECIFICATION Spec
INVARIANTS
  TypeOK
  Conservation
  Funded
  LockMatches
  NoStrandedLock
PROPERTIES
  ConsentToLoss
  ImplementsAccounts
VIEW NoBy
SYMMETRY PartySymmetry
\* All ids in use, all units minted and the time at its bound: the instance stops.
CHECK_DEADLOCK FALSE
