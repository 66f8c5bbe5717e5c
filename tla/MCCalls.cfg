\* Two calls of the redfish client; three jobs; three runs under a timer; three attempts of a command; three events.
SPECIFICATION LibSpec
CONSTANTS
  Names = {"v1", "chassis", "fan", "log", "schemas", "hidden"}
  Root = "v1"
  Nested <- MCNested
  Members <- MCMembers
  Unwalked <- MCUnwalked
  Callers = {"client", "utils", "plugin"}
  MaxCalls = 2
  MaxChanges = 1
  MaxJobs = 3
  MaxTicks = 1
  MaxRuns = 3
  MaxOutside = 2
  MaxAttempts = 3
  CmdLimits = {TRUE, FALSE}
  Forks = {TRUE, FALSE}
  NoShellRc = NoShellRc
  MaxLogins = 3
  MaxSignalled = 3
  MaxSubscribes = 2
INVARIANTS
  WalkRight
  RequestsBounded
  StatusesReturned
  TimerHandled
  ShellResultRight
  ListenersTruthful
PROPERTIES
  EntryReported
  LimitedCallsEnd
CHECK_DEADLOCK FALSE
