# TLA+ models of the msm_vidc video driver

This directory holds TLA+ specifications of the parts of the video driver in
`src/` whose correctness depends on the order of events: the fence/timeline
synchronisation of a session, the capability dependency graph, and the power
and firmware-boot sequencing of the iris33_au core. Every definition is
translated from the C source; `PROJECT.json` maps each one to the lines it
models.

## The system

| Part | Source | What it does |
|---|---|---|
| FenceTimelineManager | `src/driver/vidc/src/msm_vidc_sync.c`, `inc/msm_vidc_sync.h` | Two dma_fence timelines per session ("wait" and "signal"); each `create_queue_fences` call creates one fence on each, exports them, and binds the oldest ones to a synx buffer; buffer completion retires synx buffers by seqno pairing. |
| CapabilityGraph | `src/driver/vidc/src/msm_vidc_control.c` | Builds a parent-before-child order of the capabilities (`prepare_dependency_list`), and on a client control while streaming adjusts the capability and its descendants and commits the changed ones to firmware (`adjust_dynamic_property`, `set_dynamic_property`). |
| Secure admission | `src/driver/vidc/src/msm_vidc_control.c` | On the static path of `s_ctrl`, a SECURE_MODE request is written to the session's capability database and then admitted by counting the secure sessions of the core (`msm_vidc_allow_secure_session`). |
| PowerSequencer | `src/driver/variant/iris33_au/src/msm_vidc_iris33_au.c` | `__power_on`/`__power_off` of controller and hardware with rollback on failure, interrupt enable/disable. |
| FirmwareBootProtocol | same file | `__boot_firmware`: write CTRL_INIT and poll the status register at most 1000 times; `__prepare_pc`: the power-collapse handshake with the firmware; `raise_interrupt`, `clear_interrupt` and `watchdog`. |

The parts interact through the session (`msm_vidc_inst`) and the core
(`msm_vidc_core`): the fence code runs from the session's buffer ioctls and
buffer-done path, the capability code from `s_ctrl` and stream-on, and the
power code from core init, suspend and power collapse. The callers that hold
the instance and core locks are outside `src/`; every model therefore runs
one driver entry point as one atomic step, which is what those locks give.

## Modules

### FenceSync and FenceAbstract (`FenceSync.tla`, `FenceAbstract.tla`, instance `MCFenceSync.tla`)

State:

- `timeline[t]` is `struct msm_vidc_sync_fence_timeline`: `next` (`next_value`), the
  `submit` and `release` lists of `fence_tracker`, `ref` (the kref), and `closed`
  (`is_inst_closed`).
- `fence[f]` is a fence named by `<<timeline, seqno>>`. It holds the set of holders of a
  dma_fence reference ("drv" from `dma_fence_init`, "file" for the sync_file,
  "synx" for the synx import, "ext" for another process or device), its ERROR
  flag, and whether it was signalled with an error.
- `synx` is the session's synx_tracker: the submit and release lists of synx
  buffers, each with an index, a wait fence, a signal fence and the QUEUED flag.
- History variables used only by the properties: `origin`, `exported`, `doneOk`
  and `lastRetire`. `origin` records which call created each fence.

Actions, one per driver entry point:

- `Init` is `msm_vidc_sync_init_timeline`.
- `CreateQueueFences(i, withWait, wo, so, bo)` is
  `msm_vidc_sync_create_queue_fences`. `wo`, `so` and `bo` are the outcomes of
  the wait-fence, signal-fence and synx-buffer allocations. A fence
  allocation is "ok", "nomem" (no fence), "fdfail" (no fd or sync_file) or
  "synxfail" (synx_import fails). The action includes the error labels.
  A synx failure is unwound only when `handle < 0` sees it.
  `msm_vidc_sync_get_synx_handle` returns `u32`, and the constant `LongBits`
  is the width of the `long` that receives it. With 32 bits the value wraps
  to -EINVAL. With 64 bits, the arm64 build, it stays 2^32 - EINVAL > 0
  (`SynxFailureSeen`). Every cfg sets `LongBits = 64`. With 32, the synx
  import run passes (121479 states).
- `ReleaseSynxBuffer(i, size)` is `msm_vidc_sync_release_synx_buffer`.
- `CleanupSynxBuffers` and `DeinitTimeline` are the close path.
- `Queue`, `ExtGet` and `ExtPut` are the environment: the qbuf path that sets
  QUEUED (outside `src/`), and consumers that take and drop a fence reference.

The sub-steps are operators on a record `[timeline, fence]`, composed the way
the C functions call each other: `DestroySyncFence`, `PutSyncFence`,
`FenceRelease` and the others. The timeline kref has the operators
`TimelineGet`, `TimelinePut` and `Freed` (the count reached 0 and
`msm_vidc_sync_fence_timeline_destroy` freed the timeline). A
`get_sync_fence` on a freed timeline returns NULL, like a failed kzalloc.
The loops of the cleanup are `FoldLeft` over
the lists.

`FenceRelease` models `list_del_init` faithfully for a node that was added
twice. It unlinks the node from the list it was last added to and leaves the
other list pointing at it.

`FenceAbstract.tla` states the lifetime rules of spec.md for fences and
timelines, with no lists, refcounts or synx buffers. Each seqno of a timeline
goes from "none" to "live" to "freed", or from "none" straight to "freed".
Seqnos are taken in order, only on a timeline that is neither closed nor
freed. A timeline is freed only once it is closed and none of its fences is
live, and it is never reused. One step may move several objects, because one
driver call allocates or releases two fences. FenceSync maps onto it with
`FenceLifecycle`: a fence with a holder is "live", a seqno at or below
`next_value` with no holder is "freed", and any other seqno is "none".
`closed` is `is_inst_closed` and `tfreed` is `Freed` on the kref.
`ImplementsFenceAbstract` checks the refinement in the fence_inorder run.

### CapDependency (`CapDependency.tla`, instance `MCCapDependency.tla`)

Models `msm_vidc_prepare_dependency_list`, one loop iteration per step, so
that the termination and loop detection of the two list walks are checked
and not assumed.

State:

- `cap_id` and `children` are the session's capability table. `cap_id` says
  which ids are valid. `children[c]` is the `children[]` array of cap `c`, cut
  at its first 0.
- `root` and `opt` are the local `root_list` and `opt_list`. `caps_list` is
  `inst->caps_list`.
- `pc`, `pos` and `cur` record where the function is: which loop, and which
  entry and child it is on.
- `num_nodes`, `tmp_count` and `tmp_count_total` are the function's counters.
- `rc` is the result, and `calls` counts the calls.

Actions:

- `Populate` sorts the valid ids into the two lists.
- `Phase1` walks `root_list`, and `ChildStep` handles one child of the
  current entry.
- `Count` sets up the second walk.
- `Phase2` handles one `opt_list` entry. It either promotes the entry, or
  moves it to the tail with `swap_node`, where `DetectLoop` counts it.
- `Finish` copies the result to `caps_list`. `Fail` is the error label.

`list_for_each_entry_safe` is modelled by `NextNode`. `NextNode` reads the
successor before the body runs, so an entry the body re-appends at the tail
ends the walk.

The constant `IdTables` lists the tables of valid ids to try: all four ids
valid, id 4 unused, and id 1 mapped to 2. Every children table on four ids is
enumerated. Self-loops are allowed only on cap 1, which keeps the run within
time.

### CapPropagation (`CapPropagation.tla`, instance `MCCapPropagation.tla`)

Models `msm_v4l2_op_s_ctrl` and the stream-on adjust/set pass
(`msm_vidc_adjust_set_v4l2_properties`).

State:

- `value` is the capability database. `clientSet` is `CAP_FLAG_CLIENT_SET`.
- `fw` is what firmware last received.
- `streaming` is the port's vb2 streaming flag.
- `firmware_list` and `children_list` are the instance lists of the same
  names.
- `adjustFn` is what each dependent capability's `adjust` computes. It is any
  deterministic function of the parents' values and is chosen in `Init`, so
  the run covers every such table on two values. A root's adjust keeps its
  value when it is called without a control.

The C helpers are operators on a record holding one call's state:
`AddCapidToFwList`, `AddChildren`, `AdjustCap`, `SetCap`, `ChildBody`,
`WalkChildren`, `DropLists`, `AdjustDynamicProperty` and
`SetDynamicProperty`. `WalkChildren` is `list_for_each_entry_safe` over a
list the body appends to. The successor is taken before the body, so the walk
stops after an entry that was last when its body started.

The actions are `SCtrl(c, v, afails, sfails)` and `StreamOn(afails, sfails)`.
`afails` and `sfails` say which adjust or set functions fail in that call: at
most one, and only of the `Fallible` capabilities.

A call runs under the client and instance locks, so it is one step. The
history variables `lastRc`, `lastCommit` and `failed` are read only
by the properties.

### FirmwareBoot (`FirmwareBoot.tla`, instance `MCFirmwareBoot.tla`)

`__boot_firmware_iris33_au`, one action per register access:

- `SetupUcRegion` is `__setup_ucregion_memory_map_iris33_au`.
- `WriteCtrlInit` writes `HFI_CTRL_INIT`.
- `PollStatus` is one iteration of the poll loop. It reads `HFI_CTRL_STATUS`,
  breaks on the UC-region error, and otherwise increments `count`.
- `LoopExit` leaves the loop when its condition is false.
- `CheckCount` is the `count >= max_tries` test.
- `EnableIntr` and `ReleaseRpmh` are the two final register writes.

Any register access may fail (`RegMayFail`). A failed access is an early
return.

The firmware is the environment. Once CTRL_INIT is written, it writes the
status register once, at any time, or never. The status register is
abstracted to the four cases the loop tells apart: zero, ready, the
UC-region error (error field 0x4), and any other error.

`max_tries` keeps its value of 1000. When the boot returns, its locals
`count` and `ctrl_status` go out of scope (`Done`).

After a successful boot the module goes on with the power-collapse
handshake, one action per register access of `__prepare_pc_iris33_au`:

- `PreparePcCall` is the caller entering it. The caller may retry after a
  failure, up to `MaxPcCalls` calls.
- `ReadCtrlStatus` returns 0 at once if PC_READY is set, and otherwise keeps
  the idle bit in `idle_status`.
- `ReadWfiStatus` skips collapse unless the CPU is in WFI and the idle bit
  read before was set.
- `PrepareCmd` is `__prepare_pc`, which is outside `src/`. It queues the
  prepare command and raises the interrupt, which wakes the firmware CPU.
- `PollPcReady` and `PollWfi` are the two bounded polls. A poll succeeds
  when its bit is set at that step. Otherwise it times out, and the waiting
  is the firmware's steps before it.
- `SkipReadCtrl` and `SkipReadWfi` are the `skip_power_off` reads, ending in
  -EAGAIN.
- `RaiseInterrupt` is `__raise_interrupt_iris33_au`. The caller sends a
  command after a skipped collapse, and this wakes the firmware.

The firmware's side is taken from spec.md 4.2, because the firmware is not
in the repository:

- `FirmwareIdle`: the firmware goes idle.
- `FirmwareWfi`: an idle CPU with nothing pending enters WFI.
- `FirmwarePcPrep`: a pending prepare command sets PC_READY. The CPU enters
  WFI only by a later step.

### SecureAdmission (`SecureAdmission.tla`)

The state is the set of open sessions (`core->instances`), and each
session's SECURE_MODE value in its capability database (`secure`). There
is also the position of each session's running `s_ctrl` (`pc`) and its
return value (`rc`). `Open` and `Close` are the client side of a session
(outside `src/`).

- `SetSecure(s, v)` is the static case of `msm_v4l2_op_s_ctrl` up to the
  SECURE_MODE branch of `msm_vidc_update_static_property`. It writes the
  value under the session's own instance lock.
- `AllowSecureSession(s)` is `msm_vidc_allow_secure_session` and the return
  of `s_ctrl`. It counts, under the core lock, the sessions whose value is
  set (`SecureCount`), and returns -EINVAL above `MaxSecure`. It does not
  restore the value.

The two steps are separate actions because other sessions' `s_ctrl` calls
run between them. Only the instance lock of one session is held, and
`allow_secure_session` reads the other sessions' values without their locks.

### PowerSequencer (`PowerSequencer.tla`, instance `MCPowerSequencer.tla`)

State:

- `en[r]` is the number of enables the driver holds on each power domain and
  clock: iris-ctl gdsc, gcc_video_axi0, core_clk, vcodec gdsc and vcodec_clk.
- `bus` is the bandwidth vote.
- `power_enable` and `fw_pwr_ctrl` are the core sub-states.
- `hw_collapsed` is the power-status register bit.
- `intr_status` is `core->intr_status`, and `hw_intr` is the interrupt status
  register.
- `irq_on` is the enable/disable balance of this file.

Actions:

- `PowerOn(f, hwRegOk, ctlRegOk)` is `__power_on_iris33_au`. `f` is the first
  step that fails, or "none". The controller and hardware halves and the
  whole goto ladder are the operators `PowerOnController` and
  `PowerOnHardware`. The rollback calls `PowerOffHardware` and
  `PowerOffController`.
- `PowerOff` is `__power_off_iris33_au`.
- `ClearInterrupt` is `__clear_interrupt_iris33_au`.
- `FirmwarePowerControl` and `FirmwareInterrupt` are the firmware.

An abstract on/off switch was not kept. Its only states are "off with the
rails down" and "on with the rails up", and it allows every step between
them. So refining it says no more than `RailsFollowPower`.

## Runs

| Run | Config | Expect | What it shows |
|---|---|---|---|
| fence_inorder | `FenceSync.cfg` | pass | With buffers completed in creation order and no allocation failures, fences are never freed while still referenced, retirement pairs the fences of one call, no waiter hangs, and teardown frees every fence and both timelines. The lifetimes refine `FenceAbstract`. |
| fence_out_of_order | `FenceOutOfOrder.cfg` | violation of `NoOrphanedFence` | A buffer that completes before the buffer created just before it finds no synx buffer to retire. The call returns -EINVAL, and the earlier buffer is never retired before cleanup. spec.md section 8 requires pairing to survive out-of-order completion. |
| fence_error_path | `FenceErrorPath.cfg` | violation of `FenceOwnership` | An allocation failure after the wait fence destroys fences still linked on the submit list, and the list keeps a pointer to freed memory. |
| fence_synx_import | `FenceSynxImport.cfg` | violation of `ExportedImported` | On a 64-bit build a failed synx_import is not detected. The fence's fd reaches the client and the fence is bound to a synx buffer without a synx handle, while spec.md says both exports succeed or the fence is unwound. |
| cap_dependency | `CapDependency.cfg` | pass | For every children table on four ids: the call always terminates, the result is a parent-before-child order of the valid ids, and it fails exactly when the graph has a cycle. |
| cap_propagation | `CapPropagation.cfg` | pass | On a diamond graph with every table of adjust functions: after successful controls, firmware matches the database and every dependent capability is re-adjusted. No call leaves entries in the instance lists. |
| cap_chain | `CapChain.cfg` | violation of `NoSpuriousEinval` | Setting A of A -> B -> C returns -EINVAL "child_list is not empty". C, which B's change appended, is never walked. |
| cap_commit_order | `CapCommitOrder.cfg` | violation of `CommitOrder` | A child listed before its other parent is queued for firmware before that parent. |
| firmware_boot | `FirmwareBoot.cfg` | pass | With register failures and a firmware that answers at any poll or never, the boot always returns. Interrupts are enabled only after the firmware has answered. A `__prepare_pc` that sent the prepare command returns 0 only with the firmware ready for collapse, and every call returns. |
| power_sequencer | `PowerSequencer.cfg` | pass | Any enable step of power-on may fail, and every rollback releases exactly what was taken. The rails follow POWER_ENABLE. |
| secure_spurious_reject | `SecureSpuriousReject.cfg` | violation of `NoSpuriousRejection` | With one secure session allowed, two sessions that request secure mode at once are both rejected. Each writes SECURE_MODE before counting, and a rejected session keeps the value, so it also blocks later requests. |
| power_rollback_leak | `PowerRegFail.cfg` | violation of `RailsFollowPower` | When register accesses fail, the rollback of a failed power-on returns early from `__power_off_iris33_au_controller`, and the controller's clocks and gdsc stay enabled. |

### Properties of FenceSync

- `FenceOwnership`: every fence pointer held in a timeline list or a synx
  buffer points to a live fence, and no fence is linked twice.
- `FifoPairing`: the synx buffer retired on a completion belongs to the same
  `create_queue_fences` call as the completed buffer's wait fence.
- `NoOrphanedFence`: a completion with a wait fence always finds its partner
  (spec.md section 7 names the missing match `OrphanedFence`; section 8 asks
  for it even when completions arrive out of order). It is checked in a
  violation run with `InOrder = FALSE`. It holds when buffers complete in
  creation order. When buffer k completes before buffer k-1, k-1 is still on
  the submit list. The call returns -EINVAL, and k-1 stays on the release
  list until cleanup, because its only partner has already completed.
- Not kept as a run: when the sync_file export of a wait fence fails, its
  seqno is still consumed. The wait and signal timelines drift apart, and a
  later completion retires the synx buffer of a different call. TLC finds
  `FifoPairing` violated in 6 states with `Outcomes = {"ok", "fdfail"}`.
  The passing run checks `FifoPairing` with successful allocations only.
- `ExportedImported`: every fence handed to the client holds a synx import
  while the driver holds it. It is checked in a violation run.
- `NoHangingWaiter`: once the driver drops an exported signal fence, the fence
  has either completed with data or been signalled with an error.
- `AllReleased` (liveness): after deinit, every fence is freed and both
  timeline krefs reach zero.
- `ImplementsFenceAbstract` (refinement): the behaviour of FenceSync is a
  behaviour of `FenceAbstract`. It fails if the timeline reference counting
  lets a timeline be freed while one of its fences is live or before deinit,
  if a freed fence is used again, or if a seqno is reused or skipped.

### Properties of CapDependency

- `TopologicalOrder`: on success, `caps_list` holds every valid id once, and
  each id comes after all its parents.
- `FailsExactlyOnCycle`: the call fails exactly when the valid ids do not
  match the table or the parent graph has a cycle.
- `Terminates` (liveness): every call reaches its end.

### Properties of CapPropagation

- `FirmwareInSync`: while streaming, and if no call has failed, each
  capability with a set function holds in firmware the value it holds in the
  database.
- `DependentsAdjusted`: under the same condition, each dependent capability
  the client has not set equals its adjust function applied to its parents'
  current values.
- `ListsDrained`: between calls, `firmware_list` and `children_list` are
  empty.
- `NoSpuriousEinval` and `CommitOrder` state what spec.md says of
  propagation. Each is checked in a violation run.

### Properties of FirmwareBoot

- `InterruptsOnlyAfterAnswer`: the interrupt enable is written only after
  the firmware has written a status. A silent firmware, or one too slow for
  1000 polls, ends in the -ETIME return and gets no interrupts (spec.md 4.2
  and section 8).
- `Terminates` (liveness): the boot returns whatever the firmware does.
- Not kept as a run: a firmware that answers on the 1000th read still gets
  -ETIME, because `count` is incremented after a read that returned a
  non-zero status. TLC finds this with the invariant "-ETIME means every read
  returned zero". The run slot went to the secure-admission finding, and the
  off-by-one remains in the hazard list.
- `PcOkMeansCollapsible`: a `__prepare_pc_iris33_au` call that sent the
  prepare command returns 0 only when the firmware has set PC_READY and its
  CPU is in WFI. The firmware moves between the reads, so this holds only
  because of the order of the two polls.
- `PreparePcReturns` (liveness): every call returns, even if the firmware
  never answers.
- Not stated: a call that finds PC_READY already set returns 0 without
  looking at WFI. A retry after a timed-out call can therefore return 0
  before the firmware CPU reaches WFI. TLC finds this interleaving once the
  `pp_sent` condition is dropped from `PcOkMeansCollapsible`. spec.md 4.2
  makes this early return a deliberate no-op, so it is listed as a hazard
  and not as a finding.

### Properties of SecureAdmission

- `NoSpuriousRejection` (action property): a secure request is rejected
  only when `MaxSecure` other open sessions were granted secure mode and
  still have it. This is what the rejection message claims. It is checked
  in a violation run.

### Properties of PowerSequencer

- `RailsFollowPower`: with POWER_ENABLE set, the driver holds exactly one
  enable of each domain and clock and the bus vote. With it clear, the
  driver holds none.

### Bounds

- `MCFenceSync` uses two buffer indices and at most three `create_queue_fences`
  calls.
- `MCCapDependency` uses four ids and two children per cap.
  - With three ids, the loop detection's early-exit mutant survives.
  - Four ids give an opt_list long enough for a non-promoting pass in the
    middle of the walk.
- `MCCapPropagation` uses four capabilities, values {0, 1} and three calls.
  - Two values are enough for an adjust to change a value or to leave it.
  - Three calls cover stream-on followed by two dynamic controls, or a
    static control, stream-on and a dynamic control.
  - The diamond graph has a capability with two parents, a capability without
    a set function, and a GOP_SIZE stand-in.
- `MCFirmwareBoot` keeps `max_tries` = 1000. The state space is only linear
  in it.
- `MCFirmwareBoot` allows two `__prepare_pc` calls: a skipped collapse and a
  retry.
- `SecureSpuriousReject.cfg` uses three sessions and
  `MAX_SECURE_SESSION_COUNT` = 1. Two sessions make the concurrent rejection
  possible. The third lets a rejected session block a later request after
  the admitted one closes.
- `MCPowerSequencer` allows four power-on calls. That is enough for a failed
  power-on followed by a good one, and for a power-off and a new power-on.
- Three `create_queue_fences` calls is the smallest number that contains every case:
  - a first call without a wait fence;
  - a later call whose wait fence pairs with an earlier call's signal fence;
  - a failed call between two good ones.

### Fairness

- `ExtPut` is weakly fair: a consumer that holds a fence reference eventually
  drops it. Without this, `AllReleased` could not hold.
- No driver step is assumed fair. The close path is not forced to happen;
  `AllReleased` is stated from the point where it has happened.
- `CHECK_DEADLOCK FALSE`: after deinit the session no longer exists and
  nothing is enabled.
- `CapDependency` is weakly fair on its internal steps. A running call
  executes without waiting on anything.
- `CapPropagation` has no fairness and no liveness property. Each control is
  one step, and the runs stop at the call bound (`CHECK_DEADLOCK FALSE`).
- `FirmwareBoot` is weakly fair on the steps of a running boot
  (`Boot`) and of a running `__prepare_pc` (`PreparePc`). The firmware is
  not fair, because it may never answer. Whether the caller enters
  `__prepare_pc` or raises an interrupt is not fair either.
- `PowerSequencer` has no fairness. Its properties are safety properties.
- `firmware_list` and `children_list` are state variables rather than
  per-call locals. A leak from one call would therefore show in the next.

## Not modelled

- Resource operations (`call_res_op`) and register accesses are outside
  `src/`. Their results are nondeterministic in the models. In the
  power-off halves, a disable that fails is assumed to have released the
  resource, because the code only logs the error.
- Concurrent `create_queue_fences` calls on one session. `next_value` is
  incremented outside `tl->lock`, but the buffer ioctls that call it are
  serialised by the instance lock, which is held outside `src/`.
- `__setup_intr` and `__interrupt_init` are single register writes whose
  callers are outside `src/`. `__noc_error_info` only reads and logs
  registers.
- The interrupt service routine, which disables the line and re-enables it
  unless a watchdog was latched, is outside `src/`. So no property is stated
  on `irq_on`.

- Text formatting: timeline names (`update_timeline_name`),
  `print_synx_buffer`, and the dma_fence_ops callbacks that only return names
  or strings.
- `msm_vidc_ctrl_init`/`deinit`: registration of V4L2 controls with the
  framework.
- The other per-id effects of `msm_vidc_update_static_property` (s_fmt,
  bitstream size, priority, meta ports, buffer counts) call code outside
  `src/`. Only its database write (in CapPropagation) and its SECURE_MODE
  admission (in SecureAdmission) are modelled.
- The work-mode, work-route, quality-mode and bitrate-boost decisions. These
  are pure functions of capability values. Neither spec.md nor a code
  comment gives a reference for them other than the code, so a model would
  only restate their branches. Their inputs come from tables and helpers
  outside `src/`. One of these is the BITRATE_BOOST range, which decides
  whether `100 / adjusted_value` in the boost check can divide by zero.
- `__setup_intr_iris33_au` rewrites the interrupt enable. Its caller, the
  resume path, is outside `src/`.
