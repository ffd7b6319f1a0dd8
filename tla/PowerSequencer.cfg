\* Every enable step may fail; register accesses succeed.
CONSTANTS
  EnableMayFail = TRUE
  RegMayFail = FALSE
  MaxCycles <- MCMaxCycles
SPECIFICATION Spec
INVARIANT TypeOK RailsFollowPower
\* After MaxCycles power-on calls only a power-off can still happen.
CHECK_DEADLOCK FALSE
