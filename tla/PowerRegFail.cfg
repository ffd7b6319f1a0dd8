\* Enable steps and register accesses may fail.
CONSTANTS
  EnableMayFail = TRUE
  RegMayFail = TRUE
  MaxCycles <- MCMaxCycles
SPECIFICATION Spec
INVARIANT RailsFollowPower
CHECK_DEADLOCK FALSE
