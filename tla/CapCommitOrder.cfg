\* 1 -> <<3, 2, 4>>, 2 -> <<3>>; every function present and succeeding.
CONSTANTS
  Caps <- MCCaps
  Values <- MCValues
  Defaults <- MCDefaults
  Children <- SkewChildren
  CapsList <- SkewOrder
  HasAdjust = {1, 2, 3, 4}
  HasSet = {1, 2, 3, 4}
  DynamicAllowed = {1, 2, 3}
  GopSize = 3
  Fallible = {}
  MaxCtrls = 3
  NoCtrl = NoCtrl
SPECIFICATION Spec
INVARIANT CommitOrder
CHECK_DEADLOCK FALSE
