\* A signal-fence or synx-buffer allocation failure destroys fences still on the submit list.
CONSTANTS
  Idx <- MCIdx
  MaxCalls <- MCMaxCalls
  Outcomes = {"ok", "nomem"}
  InOrder = TRUE
  LongBits = 64
  NoFence = NoFence
SPECIFICATION Spec
INVARIANT FenceOwnership
CHECK_DEADLOCK FALSE
