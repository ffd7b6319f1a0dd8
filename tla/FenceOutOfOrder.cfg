\* Every allocation succeeds; the client completes buffers in any order.
CONSTANTS
  Idx <- MCIdx
  MaxCalls <- MCMaxCalls
  Outcomes = {"ok"}
  InOrder = FALSE
  LongBits = 64
  NoFence = NoFence
SPECIFICATION Spec
INVARIANT NoOrphanedFence
CHECK_DEADLOCK FALSE
