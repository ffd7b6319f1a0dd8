\* In-order buffer flow, every allocation succeeds.
CONSTANTS
  Idx <- MCIdx
  MaxCalls <- MCMaxCalls
  Outcomes = {"ok"}
  InOrder = TRUE
  LongBits = 64
  NoFence = NoFence
SPECIFICATION Spec
INVARIANT TypeOK FenceOwnership FifoPairing NoHangingWaiter
PROPERTY AllReleased ImplementsFenceAbstract
\* After msm_vidc_sync_deinit_timeline the session is gone: nothing is enabled.
CHECK_DEADLOCK FALSE
