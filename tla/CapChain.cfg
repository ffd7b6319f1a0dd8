\* Chain 1 -> 2 -> 3 (spec.md line 96); every function present and succeeding.
CONSTANTS
  Caps <- MCCaps
  Values <- MCValues
  Defaults <- MCDefaults
  Children <- ChainChildren
  CapsList <- ChainOrder
  HasAdjust = {1, 2, 3, 4}
  HasSet = {1, 2, 3, 4}
  DynamicAllowed = {1, 2, 3}
  GopSize = 3
  Fallible = {}
  MaxCtrls = 3
  NoCtrl = NoCtrl
SPECIFICATION Spec
INVARIANT NoSpuriousEinval
CHECK_DEADLOCK FALSE
