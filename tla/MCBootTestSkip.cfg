\* The user's boot list, with a boot table as the shipped ones: anchored.
SPECIFICATION Spec
CONSTANTS
  Boots <- TableBoots
  NoBoot = "none"
  BootTable <- AnchoredTable
  Reports <- AllReports
  DefaultState <- StateOn
  InvalidStateMatch <- BlankMatch
  DefaultPowerOn = "on"
  DefaultPowerOff = "off"
  BootStacks <- LongStacks
  StackModes = {"normal", "skip"}
  InitGlob <- NormalGlob
  BootList = {"ipmi_on", "off"}
  MaxNumTests = 2
  Threshold = 0
  CallPostStackPlug = FALSE
  FfdcCheckAll = TRUE
  DeleteErrlogs = FALSE
  FfdcOnly = {FALSE}
  TestMode = FALSE
  InitPass = 0
  InitFail = 0
  NoResults = NoResults
  Torn = Torn
  MaxCalls = 1
  MaxSignals = 0
  MaxBoots = 6
  None = None
INVARIANTS
  DefaultOnlyIfListHasNone
