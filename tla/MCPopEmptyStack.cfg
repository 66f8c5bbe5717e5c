SPECIFICATION Spec
CONSTANTS
  Boots <- TableBoots
  NoBoot = "none"
  BootTable <- AnchoredTable
  Reports <- AllReports
  DefaultState <- StateOn
  InvalidStateMatch <- BlankMatch
  DefaultPowerOn = "on"
  DefaultPowerOff = "off"
  BootStacks <- Stacks
  StackModes = {"normal"}
  InitGlob <- NormalGlob
  BootList = {"on"}
  MaxNumTests = 1
  Threshold = 0
  CallPostStackPlug = TRUE
  FfdcCheckAll = FALSE
  DeleteErrlogs = FALSE
  FfdcOnly = {FALSE}
  TestMode = FALSE
  InitPass = 0
  InitFail = 0
  NoResults = NoResults
  Torn = Torn
  MaxCalls = 1
  MaxSignals = 0
  MaxBoots = 3
  None = None
INVARIANTS
  NoPopOfEmptyStack
