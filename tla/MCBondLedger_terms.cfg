CONSTANTS
  Parties = {alice, bob}
  Admin = admin
  Instruments = {"BOND"}
  Supported = {"BOND"}
  Native = {"BOND"}
  Terms = {"bond"}
  DefaultTerms = "std"
  Flows = {"transfer"}
  ContractIds = {1, 2, 3, 4}
  MaxAmount = 1
  MaxSupply <- TwoUnits
  MaxTime = 2
SPECIFICATION Spec
PROPERTIES
  TransfersKeepTerms
SYMMETRY PartySymmetry
\* All ids in use, all units minted and the time at its bound: the instance stops.
CHECK_DEADLOCK FALSE
