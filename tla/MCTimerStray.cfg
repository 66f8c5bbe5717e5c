\* A timer that expires while cleanup is under way.
SPECIFICATION TimerSpec
CONSTANTS
  MaxRuns = 1
  MaxOutside = 0
INVARIANTS
  AlarmNotPassedOn
CHECK_DEADLOCK FALSE
