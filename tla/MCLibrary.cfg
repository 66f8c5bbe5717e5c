\* Three ssh calls to two hosts under four aliases; two masters; two robot calls; two plug-in programs; outputs of four lines; two validations; one call point; two collections.
SPECIFICATION LibSpec
CONSTANTS
  Hosts = {"h1", "h2"}
  Aliases = {"bmc", "os", "xcat", "device"}
  TestModes = {TRUE, FALSE}
  max_login_attempts = 2
  MaxSshCalls = 3
  NoRc = NoRc
  BootNames = {"on"}
  StateNames <- MCStateNames
  MasterPids = {1, 2}
  MaxHistory = 1
  MaxBoots = 2
  MaxPgms = 3
  MaxRobotCalls = 2
  MaxSeconds = 2
  MaxRobotSignals = 1
  PlugInPgms = {"p", "q"}
  RunPids = {1, 2}
  MaxTestRuns = 2
  MaxPgmStarts = 3
  SavedValues <- MCSavedValues
  Defaults <- MCDefaults
  MaxLines = 4
  MaxGrowth = 6
  MaxRows = 3
  TextValues <- MCTextValues
  Lists <- MCLists
  Items <- MCItems
  Dicts <- MCDicts
  ListsByKey <- MCListsByKey
  Numbers <- MCNumbers
  Bounds = {0, 1}
  MaxValidations = 2
  PlugIns <- Packages
  Integrated = {"Auto_reboot"}
  Unsupported = {"Odd"}
  UserLists <- PackageLists
  ReturnCodes = {0, 1, 2}
  AllowedRcs = {0, 512}
  NoName = ""
  FfdcMethods = {"manifest"}
  Dumps = {"d1", "d2"}
  MaxCollections = 2
  MaxFfdcSeconds = 2
INVARIANTS
  ConnectionsRight
  SshResultsRight
  ResultsKept
  ValuesRight
  TextsRight
  ValidationsRight
  ReportRight
  CollectionRight
PROPERTIES
  CallsLeaveOrder
CHECK_DEADLOCK FALSE
