\* synx_import fails on the arm64 build (64-bit long).
CONSTANTS
  Idx <- MCIdx
  MaxCalls <- MCMaxCalls
  Outcomes = {"ok", "synxfail"}
  InOrder = TRUE
  LongBits = 64
  NoFence = NoFence
SPECIFICATION Spec
INVARIANT ExportedImported
CHECK_DEADLOCK FALSE
