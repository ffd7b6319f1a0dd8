\* Diamond graph; adjust and set functions may fail.
CONSTANTS
  Caps <- MCCaps
  Values <- MCValues
  Defaults <- MCDefaults
  Children <- DiamondChildren
  CapsList <- DiamondOrder
  HasAdjust = {1, 2, 3, 4}
  HasSet = {1, 2, 4}
  DynamicAllowed = {1, 2, 3}
  GopSize = 3
  Fallible = {2}
  MaxCtrls = 3
  NoCtrl = NoCtrl
SPECIFICATION Spec
INVARIANT TypeOK FirmwareInSync DependentsAdjusted ListsDrained
\* Every call is counted against MaxCtrls; after the last one nothing runs.
CHECK_DEADLOCK FALSE
