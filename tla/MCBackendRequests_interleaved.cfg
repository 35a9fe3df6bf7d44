CONSTANTS
  Parties <- AllParties
  Admin <- AdminParty
  Instruments = {"BOND", "EUR"}
  Supported = {"BOND", "EUR"}
  Native = {"BOND", "EUR"}
  Terms = {"std"}
  DefaultTerms = "std"
  Flows = {"own", "transfer", "allocation", "dvp"}
  ContractIds = {1, 2, 3, 4, 5, 6, 7}
  MaxAmount = 2
  MaxSupply <- Supply
  MaxTime = 2
  Participants = 2
  Hints = {"admin", "alice", "exec", "bob", "dave"}
  NoHint = ""
  Configured <- ConfiguredParties
  Booted <- BootedParties
  Newcomers <- NewParties
  r1 = r1
  r2 = r2
  r3 = r3
  r4 = r4
  Requests = {r1, r2, r3, r4}
  Bodies <- RequestBodies
  NoRequest = NoRequest
  NoCid = NoCid
  Day = 1
SPECIFICATION BackendSpec
VIEW NoBy
INVARIANTS
  BackendTypeOK
  AnswersTrue
  AcceptedUnlessOvertaken
  EverySubmissionDecided
  AlwaysClosable
  LoneNamesResolve
PROPERTIES
  ImplementsService
CHECK_DEADLOCK FALSE
