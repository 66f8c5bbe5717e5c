\* Two threads and two children; one wait for a reboot; a program with two descendants; a check of two images.
SPECIFICATION LibSpec
CONSTANTS
  PtyThreads = {"t1", "t2"}
  PtyAliases = {9}
  MaxSpawned = 2
  MaxPtyCalls = 3
  SubStates = {"rest", "redfish", "chassis", "bmc", "host", "boot_progress",
               "operating_system", "os_ping", "os_login"}
  Reports <- MCReports
  Second = 2
  MaxNow = 9
  ReadGap = 2
  MaxPolls = 2
  MaxProcs = 2
  MaxSignals = 1
  Rcs = {0, 1}
  Images = {"a", "b"}
  WaitTries = 2
  ReadFailThreshold = 2
  CheckTries = 2
  RestFailLimit = 2
  PathTries = 2
  MaxBmcChanges = 3
INVARIANTS
  ChildrenAccounted
  StopsTakeEffect
  RebootSeen
  StateRight
  ProgramRight
  AnswersRight
PROPERTIES
  IsRegistry
  WaitsEnd
CHECK_DEADLOCK FALSE
