CONSTANTS
  Parties = {alice, bob}
  Admin = admin
  Instruments = {"BOND"}
  Supported = {"BOND"}
  Native = {"BOND"}
  Terms = {"std"}
  DefaultTerms = "std"
  Flows = {"dvp"}
  ContractIds = {1, 2, 3, 4, 5}
  MaxAmount = 1
  MaxSupply <- TwoUnits
  MaxTime = 1
SPECIFICATION Spec
INVARIANTS
  DvPCancellable
SYMMETRY PartySymmetry
\* All ids in use, all units minted and the time at its bound: the instance stops.
CHECK_DEADLOCK FALSE
