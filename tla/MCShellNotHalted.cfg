\* A command that takes longer than its limit.
SPECIFICATION ShellSpec
CONSTANTS
  MaxAttempts = 2
  CmdLimits = {TRUE}
  Forks = {FALSE}
  NoShellRc = NoShellRc
INVARIANTS
  HaltedOnTimeOut
CHECK_DEADLOCK FALSE
