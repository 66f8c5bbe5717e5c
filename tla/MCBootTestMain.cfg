\* Two calls in "normal" mode, with one SIGUSR1 at any moment.
SPECIFICATION Spec
CONSTANTS
  Boots <- TableBoots
  NoBoot = "none"
  BootTable <- AnchoredTable
  Reports <- AllReports
  DefaultState <- StateOn
  InvalidStateMatch <- BlankMatch
  DefaultPowerOn = "on"
  DefaultPowerOff = "off"
  BootStacks <- TwoBoots
  StackModes = {"normal"}
  InitGlob <- NormalGlob
  BootList = {"on"}
  MaxNumTests = 1
  Threshold = 0
  CallPostStackPlug = TRUE
  FfdcCheckAll = FALSE
  DeleteErrlogs = TRUE
  FfdcOnly = {TRUE, FALSE}
  TestMode = FALSE
  InitPass = 0
  InitFail = 0
  NoResults = NoResults
  Torn = Torn
  MaxCalls = 2
  MaxSignals = 1
  MaxBoots = 4
  None = None
INVARIANTS
  TypeOK
  NormalPassMeansStackDone
  FailuresBounded
  StoppedBootFails
  ArmedAfterFailureOnly
  GlobalsKept
  SavedResultsKept
PROPERTIES
  SavedResultsGrow
