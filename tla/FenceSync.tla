----------------------------- MODULE FenceSync -----------------------------
(***************************************************************************)
(* The fence/timeline synchronisation of one video session                 *)
(* (src/driver/vidc/src/msm_vidc_sync.c).                                  *)
(*                                                                         *)
(* A session owns two timelines, "wait" and "signal".  Each                *)
(* create_queue_fences call allocates one fence on each timeline, exports  *)
(* it (sync_file fd and synx handle) and binds the OLDEST fences of the    *)
(* timelines' submit lists to a synx buffer.  When a buffer completes,     *)
(* release_synx_buffer moves its synx buffer to the release list and       *)
(* retires the synx buffer whose SIGNAL fence seqno equals the completed   *)
(* buffer's WAIT fence seqno.                                              *)
(*                                                                         *)
(* A fence is identified by <<timeline, seqno>>; seqnos are never reused.  *)
(* Its dma_fence reference count is the set of holders of a reference:    *)
(* "drv" (dma_fence_init), "file" (the sync_file), "synx" (the synx        *)
(* import) and "ext" (any other device or process that took a reference). *)
(* The fence memory is live exactly while some holder remains.             *)
(***************************************************************************)
EXTENDS Integers, Sequences, SequencesExt, FiniteSets

CONSTANTS
  Idx,        \* buffer indices the client passes in msm_v4l2_synx_fence
  MaxCalls,   \* bound on create_queue_fences calls (and so on seqnos)
  Outcomes,   \* outcomes an allocation may have: "ok", "nomem" (kzalloc),
              \* "fdfail" (no fd or sync_file), "synxfail" (synx_import)
  InOrder,    \* TRUE: buffers are queued and completed in creation order
  LongBits,   \* width of the kernel's long (64 on the arm64 build)
  NoFence     \* model value: a NULL fence pointer

ASSUME MaxCalls \in Nat \ {0}
ASSUME "ok" \in Outcomes
ASSUME Outcomes \subseteq {"ok", "nomem", "fdfail", "synxfail"}
ASSUME LongBits \in {32, 64}
ASSUME InOrder \in BOOLEAN

TL == {"wait", "signal"}
Holder == {"drv", "file", "synx", "ext"}

\* struct msm_vidc_sync_fence, identified by its timeline and seqno
Fence == TL \X (1..MaxCalls)

\* struct msm_vidc_synx_buffer (the DEFERRED flag is never read: omitted)
SBuf == [idx: Idx, wf: Fence \cup {NoFence}, sf: Fence \cup {NoFence},
         queued: BOOLEAN]

VARIABLES
  timeline,   \* struct msm_vidc_sync_fence_timeline, per timeline
  fence,      \* per fence: dma_fence holders, ERROR flag, error-signalled
  synx,       \* inst->synx_tracker: submit and release lists of SBuf
  open,       \* the timelines are initialised and not yet deinitialised
  \* history variables, read only by the properties
  calls,      \* number of create_queue_fences calls so far
  origin,     \* origin[f]: the call that allocated fence f
  exported,   \* fences whose fd was returned to the client
  doneOk,     \* signal fences whose buffer completed with data
  lastRetire  \* origins of the last completed wait fence and retired signal fence

vars == <<timeline, fence, synx, open, calls, origin, exported, doneOk,
          lastRetire>>

Live(f) == fence[f].holders # {}

-----------------------------------------------------------------------------
(***************************************************************************)
(* Operators on a state s = [timeline |-> ..., fence |-> ...]; they        *)
(* compose the sub-steps one driver call performs.                         *)
(***************************************************************************)

\* sync_fence_timeline_get (kref_get_unless_zero) and sync_fence_timeline_put
\* (kref_put) on the timeline's kref.
TimelineGet(tl) == [tl EXCEPT !.ref = @ + 1]
TimelinePut(tl) == [tl EXCEPT !.ref = @ - 1]

\* The kref reached 0: msm_vidc_sync_fence_timeline_destroy freed the
\* timeline, and kref_get_unless_zero no longer takes a reference.
Freed(tl) == tl.ref = 0

\* Mutant: the timeline reference is dropped twice.
FenceReleaseDoublePut(s, f) ==
  LET tl == s.timeline[f[1]]
  IN  [s EXCEPT !.timeline[f[1]] =
         IF f \in ToSet(tl.release)
           THEN [tl EXCEPT !.release = Remove(@, f), !.ref = @ - 2]
           ELSE [tl EXCEPT !.submit = Remove(@, f), !.ref = @ - 2]]

\* Mutant: sync_fence_timeline_put is missing from the release callback.
FenceReleaseNoPut(s, f) ==
  LET tl == s.timeline[f[1]]
  IN  [s EXCEPT !.timeline[f[1]] =
         IF f \in ToSet(tl.release)
           THEN [tl EXCEPT !.release = Remove(@, f)]
           ELSE [tl EXCEPT !.submit = Remove(@, f)]]

\* msm_vidc_sync_fence_release: list_del_init unlinks the node from the
\* list its own pointers name, the one it was last added to (the release
\* list when destroy_sync_fence added it there), and drops its timeline
\* reference (the timeline is freed when that reaches 0).
FenceRelease(s, f) ==
  LET tl == s.timeline[f[1]]
  IN  [s EXCEPT !.timeline[f[1]] =
         TimelinePut(IF f \in ToSet(tl.release)
                       THEN [tl EXCEPT !.release = Remove(@, f)]
                       ELSE [tl EXCEPT !.submit = Remove(@, f)])]

\* Drop holder h's reference; the last one runs the release callback.
Put(s, f, h) ==
  LET t == [s EXCEPT !.fence[f].holders = @ \ {h}]
  IN  IF h \in s.fence[f].holders /\ t.fence[f].holders = {}
        THEN FenceRelease(t, f) ELSE t

\* Mutant: the fence is put without signalling its error.
PutSyncFenceNoSignal(s, f) == Put(s, f, "drv")

\* msm_vidc_sync_put_sync_fence: signal with -ENOENT if flagged ERROR.
PutSyncFence(s, f) ==
  Put([s EXCEPT !.fence[f].errSignaled = @ \/ s.fence[f].err], f, "drv")

\* msm_vidc_sync_put_sync_file_fd (-EINVAL, no effect, when sync is NULL)
PutSyncFileFd(s, f) == Put(s, f, "file")

\* msm_vidc_sync_put_synx_handle
PutSynxHandle(s, f) == Put(s, f, "synx")

\* msm_vidc_sync_destroy_sync_fence: add to the timeline release list, then
\* release synx handle, sync_file and the driver's dma_fence reference.
DestroySyncFence(s, f) ==
  LET s1 == [s EXCEPT !.timeline[f[1]].release = Append(@, f)]
  IN  PutSyncFence(PutSyncFileFd(PutSynxHandle(s1, f), f), f)

\* msm_vidc_sync_destroy_synx_buffer: wait fence first, then signal fence.
DestroySynxBuffer(s, b) ==
  LET s1 == IF b.wf # NoFence THEN DestroySyncFence(s, b.wf) ELSE s
  IN  IF b.sf # NoFence THEN DestroySyncFence(s1, b.sf) ELSE s1

\* The fence the next msm_vidc_sync_get_sync_fence on timeline t creates.
NextFence(s, t) == <<t, s.timeline[t].next + 1>>

\* Mutant: the fence is created without taking a timeline reference.
NewSyncFenceNoGet(s, t) ==
  LET f == NextFence(s, t)
  IN  [s EXCEPT !.timeline[t].next = @ + 1,
                !.timeline[t].submit = Append(@, f),
                !.fence[f].holders = {"drv"}]

\* msm_vidc_sync_get_sync_fence on a live timeline: take a timeline
\* reference, ++next_value, init the dma_fence (one reference) and add it
\* to the submit list.
NewSyncFence(s, t) ==
  LET f == NextFence(s, t)
  IN  [s EXCEPT !.timeline[t] = TimelineGet(@),
                !.timeline[t].next = @ + 1,
                !.timeline[t].submit = Append(@, f),
                !.fence[f].holders = {"drv"}]

\* msm_vidc_sync_get_sync_file_fd succeeded: sync_file_create took a
\* dma_fence reference, held by the file installed at the fd.
SyncFileFd(s, f) == [s EXCEPT !.fence[f].holders = @ \cup {"file"}]

\* synx_import succeeded: the synx handle holds a dma_fence reference.
SynxImport(s, f) == [s EXCEPT !.fence[f].holders = @ \cup {"synx"}]

\* msm_vidc_sync_get_synx_handle returns u32, so its -EINVAL is the u32
\* 2^32 - EINVAL (top bit set).  allocate_sync_fence stores it in a long
\* and tests handle < 0: converted to a 32-bit long the value wraps to
\* -EINVAL, but a 64-bit long holds 2^32 - EINVAL unchanged, which is > 0.
SynxFailureSeen == LongBits = 32

\* The allocation returns the fence to create_queue_fences.
Returns(outcome) ==
  outcome = "ok" \/ (outcome = "synxfail" /\ ~SynxFailureSeen)

\* msm_vidc_sync_allocate_sync_fence.  "nomem" or a freed timeline:
\* get_sync_fence returns NULL, nothing changes.  "fdfail": get_sync_file_fd fails (the fd is
\* given back, no sync_file exists) and the fence is put again, its seqno
\* consumed.  "synxfail": synx_import fails after the sync_file exists;
\* the fd and the fence are put only if the handle check sees the error,
\* otherwise the fence is returned without a synx import.
AllocateSyncFence(s, t, outcome) ==
  LET f == NextFence(s, t)
      s1 == NewSyncFence(s, t)
      withFile == SyncFileFd(s1, f)
  IN  CASE outcome = "nomem" \/ Freed(s.timeline[t]) -> s
        [] outcome = "fdfail" -> PutSyncFence(s1, f)
        [] outcome = "synxfail" /\ SynxFailureSeen ->
             PutSyncFence(PutSyncFileFd(withFile, f), f)
        [] outcome = "synxfail" -> withFile
        [] outcome = "ok" -> SynxImport(withFile, f)

\* msm_vidc_sync_get_synx_buffer_from_index: first entry with the index
FromIndex(list, i) == SelectInSeq(list, LAMBDA b : b.idx = i)

\* Mutant: buf->wfence read where buf->sfence is meant.
FromWaitSeqno(list, seqno) ==
  SelectInSeq(list, LAMBDA b : b.wf # NoFence /\ b.wf[2] = seqno)

\* msm_vidc_sync_get_synx_buffer_from_signal_seqno: first entry whose
\* signal fence has the seqno (the timeline is not compared)
FromSignalSeqno(list, seqno) ==
  SelectInSeq(list, LAMBDA b : b.sf # NoFence /\ b.sf[2] = seqno)

-----------------------------------------------------------------------------
\* msm_vidc_sync_init_timeline: both timelines allocated, one reference each.
Init ==
  /\ timeline = [t \in TL |-> [next |-> 0, submit |-> <<>>, release |-> <<>>,
                               ref |-> 1, closed |-> FALSE]]
  /\ fence = [f \in Fence |-> [holders |-> {}, err |-> FALSE,
                               errSignaled |-> FALSE]]
  /\ synx = [submit |-> <<>>, release |-> <<>>]
  /\ open = TRUE
  /\ calls = 0
  /\ origin = [f \in Fence |-> 0]
  /\ exported = {}
  /\ doneOk = {}
  /\ lastRetire = [wait |-> 0, retired |-> 0]

\* Mutant: list_del_init forgotten.
StillLinked(list) == list

\* get_first_entry: the oldest fence of a submit list (NULL when empty);
\* the caller unlinks it with Tail.
FirstEntry(list) == IF list = <<>> THEN NoFence ELSE Head(list)
Unlinked(list) == IF list = <<>> THEN list ELSE Tail(list)

\* msm_vidc_sync_create_synx_buffer (after msm_memory_alloc succeeded):
\* the signal fence and, when wait_fd != -1, the wait fence are the FIRST
\* entries of the timelines' submit lists (get_first_entry).
CreateSynxBuffer(s, i, withWait) ==
  LET sq == s.timeline["signal"].submit
      wq == s.timeline["wait"].submit
  IN  [s  |-> [s EXCEPT !.timeline["signal"].submit = Unlinked(sq),
                        !.timeline["wait"].submit =
                            IF withWait THEN Unlinked(wq) ELSE wq],
       sb |-> [idx |-> i, sf |-> FirstEntry(sq), queued |-> FALSE,
               wf |-> IF withWait THEN FirstEntry(wq) ELSE NoFence]]

\* msm_vidc_sync_create_queue_fences(f) with f->index = i, f->wait_fd set
\* iff withWait; wo, so, bo: outcomes of the wait fence, signal fence and
\* synx buffer allocations.
CreateQueueFences(i, withWait, wo, so, bo) ==
  LET s0 == [timeline |-> timeline, fence |-> fence]
      wf == NextFence(s0, "wait")
      s1 == AllocateSyncFence(s0, "wait", wo)
      sf == NextFence(s1, "signal")
      s2 == AllocateSyncFence(s1, "signal", so)
      c  == CreateSynxBuffer(s2, i, withWait)
      s3 == CASE ~Returns(wo) -> s1
              [] ~Returns(so) -> DestroySyncFence(s2, wf)
              [] bo # "ok" -> DestroySyncFence(DestroySyncFence(s2, sf), wf)
              [] OTHER -> c.s
      ok == Returns(wo) /\ Returns(so) /\ bo = "ok"
      \* the seqnos this call consumed
      made == {f \in {wf, sf} :
                 wo # "nomem" /\ (f = sf => Returns(wo) /\ so # "nomem")}
  IN  /\ open
      /\ calls < MaxCalls
      /\ timeline' = s3.timeline
      /\ fence' = s3.fence
      /\ synx' = IF ok THEN [synx EXCEPT !.submit = Append(@, c.sb)] ELSE synx
      /\ calls' = calls + 1
      /\ origin' = [f \in Fence |-> IF f \in made THEN calls + 1 ELSE origin[f]]
      /\ exported' = IF ok THEN exported \cup {wf, sf} ELSE exported
      /\ UNCHANGED <<open, doneOk, lastRetire>>

\* The qbuf path (outside src/) sets MSM_VIDC_SYNC_FLAG_QUEUED on the synx
\* buffer of the queued buffer.  InOrder: the client queues in the order it
\* created fences.
Queue(k) ==
  /\ open
  /\ ~synx.submit[k].queued
  /\ InOrder => \A j \in 1..(k - 1) : synx.submit[j].queued
  /\ synx' = [synx EXCEPT !.submit[k].queued = TRUE]
  /\ UNCHANGED <<timeline, fence, open, calls, origin, exported, doneOk,
                 lastRetire>>

\* msm_vidc_sync_release_synx_buffer for buffer index i with data_size
\* size.  The early returns (index not found, not queued) change nothing.
ReleaseSynxBuffer(i, size) ==
  LET k   == FromIndex(synx.submit, i)
      b   == [synx.submit[k] EXCEPT !.queued = FALSE]
      s0  == [timeline |-> timeline,
              fence |-> IF size = 0 /\ b.sf # NoFence
                          THEN [fence EXCEPT ![b.sf].err = TRUE] ELSE fence]
      sub == RemoveAt(synx.submit, k)
      rel == Append(synx.release, b)
      j   == IF b.wf = NoFence THEN 0 ELSE FromSignalSeqno(rel, b.wf[2])
      s1  == IF j = 0 THEN s0 ELSE DestroySynxBuffer(s0, rel[j])
  IN  /\ open
      /\ k # 0
      /\ synx.submit[k].queued
      /\ InOrder => k = 1
      /\ timeline' = s1.timeline
      /\ fence' = s1.fence
      /\ synx' = [submit |-> sub,
                  release |-> IF j = 0 THEN rel ELSE RemoveAt(rel, j)]
      /\ doneOk' = IF size > 0 /\ b.sf # NoFence THEN doneOk \cup {b.sf}
                                                 ELSE doneOk
      /\ lastRetire' =
           IF b.wf = NoFence THEN lastRetire
           ELSE [wait |-> origin[b.wf],
                 retired |-> IF j = 0 THEN 0 ELSE origin[rel[j].sf]]
      /\ UNCHANGED <<open, calls, origin, exported>>

\* msm_vidc_sync_cleanup_synx_buffers: destroy every synx buffer (ERROR on
\* its signal fence), then every fence left on the timelines' submit lists
\* (ERROR on signal fences only); release-list fences are only printed.
CleanupSynxBuffers ==
  LET Flush(s, b) ==
        DestroySynxBuffer(IF b.sf # NoFence
                            THEN [s EXCEPT !.fence[b.sf].err = TRUE] ELSE s, b)
      DestroyWait(s, f) == DestroySyncFence(s, f)
      DestroySignal(s, f) ==
        DestroySyncFence([s EXCEPT !.fence[f].err = TRUE], f)
      s0 == [timeline |-> timeline, fence |-> fence]
      s1 == FoldLeft(Flush, FoldLeft(Flush, s0, synx.submit), synx.release)
      s2 == FoldLeft(DestroyWait,
                     [s1 EXCEPT !.timeline["wait"].submit = <<>>],
                     s1.timeline["wait"].submit)
      s3 == FoldLeft(DestroySignal,
                     [s2 EXCEPT !.timeline["signal"].submit = <<>>],
                     s2.timeline["signal"].submit)
  IN  /\ open
      /\ timeline' = s3.timeline
      /\ fence' = s3.fence
      /\ synx' = [submit |-> <<>>, release |-> <<>>]
      /\ UNCHANGED <<open, calls, origin, exported, doneOk, lastRetire>>

\* msm_vidc_sync_deinit_timeline: mark closed, drop the session's
\* reference.  The close path runs it right after the cleanup above.
DeinitTimeline ==
  /\ open
  /\ synx.submit = <<>> /\ synx.release = <<>>
  /\ \A t \in TL : timeline[t].submit = <<>>
  /\ timeline' = [t \in TL |-> TimelinePut([timeline[t] EXCEPT !.closed = TRUE])]
  /\ open' = FALSE
  /\ UNCHANGED <<fence, synx, calls, origin, exported, doneOk, lastRetire>>

\* A consumer takes a dma_fence reference through the exported fd or synx
\* handle (dma_fence_get outside this driver).
ExtGet(f) ==
  /\ fence[f].holders \cap {"file", "synx"} # {}
  /\ "ext" \notin fence[f].holders
  /\ fence' = [fence EXCEPT ![f].holders = @ \cup {"ext"}]
  /\ UNCHANGED <<timeline, synx, open, calls, origin, exported, doneOk,
                 lastRetire>>

\* The consumer drops its reference (dma_fence_put); the last one runs
\* msm_vidc_sync_fence_release from the consumer's context.
ExtPut(f) ==
  LET s == Put([timeline |-> timeline, fence |-> fence], f, "ext")
  IN  /\ "ext" \in fence[f].holders
      /\ timeline' = s.timeline
      /\ fence' = s.fence
      /\ UNCHANGED <<synx, open, calls, origin, exported, doneOk, lastRetire>>

Next ==
  \/ \E i \in Idx, w \in BOOLEAN, wo, so \in Outcomes,
       bo \in Outcomes \cap {"ok", "nomem"} :
        CreateQueueFences(i, w, wo, so, bo)
  \/ \E k \in 1..Len(synx.submit) : Queue(k)
  \/ \E i \in Idx, size \in {0, 1} : ReleaseSynxBuffer(i, size)
  \/ CleanupSynxBuffers
  \/ DeinitTimeline
  \/ \E f \in Fence : ExtGet(f) \/ ExtPut(f)

\* Consumers eventually drop the references they took.
Fairness == \A f \in Fence : WF_vars(ExtPut(f))

Spec == Init /\ [][Next]_vars /\ Fairness

-----------------------------------------------------------------------------
TypeOK ==
  /\ timeline \in [TL -> [next: 0..MaxCalls, submit: Seq(Fence),
                          release: Seq(Fence), ref: Nat, closed: BOOLEAN]]
  /\ fence \in [Fence -> [holders: SUBSET Holder, err: BOOLEAN,
                          errSignaled: BOOLEAN]]
  /\ synx \in [submit: Seq(SBuf), release: Seq(SBuf)]
  /\ open \in BOOLEAN
  /\ calls \in 0..MaxCalls
  /\ origin \in [Fence -> 0..MaxCalls]
  /\ exported \subseteq Fence /\ doneOk \subseteq Fence
  /\ lastRetire \in [wait: 0..MaxCalls, retired: 0..MaxCalls]

\* Every reference the driver keeps to a fence: timeline lists and synx
\* buffers, one entry per link.
Refs ==
  LET SBufRefs(l) == [n \in 1..(2 * Len(l)) |->
                        IF n % 2 = 1 THEN l[(n + 1) \div 2].wf
                                     ELSE l[n \div 2].sf]
      all == timeline["wait"].submit \o timeline["wait"].release
             \o timeline["signal"].submit \o timeline["signal"].release
             \o SBufRefs(synx.submit) \o SBufRefs(synx.release)
  IN  SelectSeq(all, LAMBDA f : f # NoFence)

(***************************************************************************)
(* Memory safety of the fence lists: every fence the driver links on a     *)
(* timeline list or points to from a synx buffer is still allocated (no    *)
(* use after msm_vidc_sync_fence_release freed it), and is linked in at    *)
(* most one place (list_add_tail is never applied to a linked node).       *)
(***************************************************************************)
FenceOwnership ==
  /\ \A n \in DOMAIN Refs : Live(Refs[n])
  /\ \A m, n \in DOMAIN Refs : m # n => Refs[m] # Refs[n]

(***************************************************************************)
(* FIFO pairing: when release_synx_buffer retires a synx buffer because    *)
(* the completed buffer's wait fence came due, the retired signal fence    *)
(* was created by the same create_queue_fences call as that wait fence,    *)
(* i.e. the seqno match across the two timelines pairs the right fences.   *)
(***************************************************************************)
FifoPairing ==
  lastRetire.retired # 0 => lastRetire.retired = lastRetire.wait

(***************************************************************************)
(* release_synx_buffer never fails with "get synx buffer failed for        *)
(* seqno": a completed buffer with a wait fence always finds the synx      *)
(* buffer to retire on the release list, in whatever order the client     *)
(* completes buffers (spec.md section 8, the fence FIFO property; section *)
(* 7 calls the missing match OrphanedFence).                               *)
(***************************************************************************)
NoOrphanedFence ==
  lastRetire.wait # 0 => lastRetire.retired # 0

(***************************************************************************)
(* No waiter hangs: once the driver has dropped its reference to an        *)
(* exported signal fence, either the buffer completed with data or the     *)
(* driver signalled the fence with an error (flushed buffer, teardown).    *)
(***************************************************************************)
NoHangingWaiter ==
  \A f \in exported :
    (f[1] = "signal" /\ "drv" \notin fence[f].holders)
      => (f \in doneOk \/ fence[f].errSignaled)

(***************************************************************************)
(* Every fence create_queue_fences hands to the client (its fd returned,   *)
(* bound to a synx buffer) is imported into synx for as long as the        *)
(* driver holds it: allocate_sync_fence either completes both exports or   *)
(* unwinds the fence (spec.md: "both steps must succeed or the fence and   *)
(* its timeline reference are unwound").                                   *)
(***************************************************************************)
ExportedImported ==
  \A f \in exported :
    "drv" \in fence[f].holders => "synx" \in fence[f].holders

(***************************************************************************)
(* After the session's timelines are deinitialised, every fence is         *)
(* eventually freed and both timelines reach refcount 0 (are freed).       *)
(***************************************************************************)
AllReleased ==
  ~open ~> (/\ \A f \in Fence : ~Live(f)
            /\ \A t \in TL : Freed(timeline[t]))

-----------------------------------------------------------------------------
\* The refinement mapping onto FenceAbstract: a fence whose seqno the
\* timeline has passed and that no holder keeps is freed; a timeline is
\* closed once deinit_timeline marked it and freed at refcount 0.
FenceLifecycle ==
  [f \in Fence |-> CASE Live(f) -> "live"
                     [] f[2] <= timeline[f[1]].next -> "freed"
                     [] OTHER -> "none"]

Abs == INSTANCE FenceAbstract
         WITH MaxSeq <- MaxCalls, fstate <- FenceLifecycle,
              closed <- [t \in TL |-> timeline[t].closed],
              tfreed <- [t \in TL |-> Freed(timeline[t])]

(***************************************************************************)
(* The reference counting of get_sync_fence, the fence release callback    *)
(* and deinit_timeline implements the lifetime rules of spec.md: seqnos    *)
(* are taken once and in order, a released fence never comes back, no      *)
(* fence is created on a closed timeline, and a timeline is freed only     *)
(* after the session and every fence of it dropped their reference.        *)
(***************************************************************************)
ImplementsFenceAbstract == Abs!Spec
=============================================================================
