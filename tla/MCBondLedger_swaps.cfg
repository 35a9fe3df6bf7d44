CONSTANTS
  Parties = {alice, bob}
  Admin = admin
  Instruments = {"BOND", "EUR"}
  Supported = {"BOND", "EUR"}
  Native = {"BOND", "EUR"}
  Terms = {"std"}
  DefaultTerms = "std"
  Flows = {"transfer", "dvp"}
  ContractIds = {1, 2, 3, 4, 5, 6}
  MaxAmount = 1
  MaxSupply <- BondAndCash
  MaxTime = 1
SPECIFICATION Spec
INVARIANTS
  Conservation
  Funded
PROPERTIES
  DvPAtomic
  ConsentToLoss
  ImplementsAccounts
VIEW NoBy
SYMMETRY PartySymmetry
\* All ids in use, all units minted and the time at its bound: the instance stops.
CHECK_DEADLOCK FALSE
