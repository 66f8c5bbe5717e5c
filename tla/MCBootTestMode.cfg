\* Test mode: nothing but the selection of boots and the plug-ins.
SPECIFICATION FairSpec
CONSTANTS
  Boots <- TableBoots
  NoBoot = "none"
  BootTable <- AnchoredTable
  Reports <- AllReports
  DefaultState <- StateOff
  InvalidStateMatch <- BlankMatch
  DefaultPowerOn = "on"
  DefaultPowerOff = "off"
  BootStacks <- LongStacks
  StackModes = {"normal", "skip"}
  InitGlob <- NormalGlob
  BootList = {"on"}
  MaxNumTests = 1
  Threshold = 0
  CallPostStackPlug = TRUE
  FfdcCheckAll = FALSE
  DeleteErrlogs = TRUE
  FfdcOnly = {TRUE, FALSE}
  TestMode = TRUE
  InitPass = 0
  InitFail = 0
  NoResults = NoResults
  Torn = Torn
  MaxCalls = 1
  MaxSignals = 0
  MaxBoots = 12
  None = None
INVARIANTS
  StackWorkBounded
PROPERTIES
  CallEnds
