---------------------------- MODULE FenceAbstract ----------------------------
(***************************************************************************)
(* What the fence/timeline manager promises about object lifetimes         *)
(* (spec.md section 3, "Fence" and the timeline rules of section 4):       *)
(*                                                                         *)
(*  - each timeline stamps its fences with a monotonic sequence number:   *)
(*    a seqno is taken once, in order, and never handed out again;         *)
(*  - a fence, once released, is never live again;                        *)
(*  - fences are only created on a timeline the session has not closed;   *)
(*  - a timeline is destroyed only after the session dropped its          *)
(*    reference and no fence of the timeline is still outstanding, and it  *)
(*    is never used again.                                                 *)
(*                                                                         *)
(* One step of the system may move several objects at once (a call that   *)
(* allocates two fences, a retirement that releases two), so a step is    *)
(* any set of lifecycle moves, each of them legal on its own.             *)
(***************************************************************************)
EXTENDS Naturals

CONSTANTS
  TL,       \* the timelines of one session
  MaxSeq    \* seqnos 1..MaxSeq per timeline

VARIABLES
  fstate,   \* fstate[<<t, n>>]: "none" (seqno not taken), "live", "freed"
  closed,   \* closed[t]: the session dropped its reference to timeline t
  tfreed    \* tfreed[t]: timeline t is destroyed

vars == <<fstate, closed, tfreed>>

Fence == TL \X (1..MaxSeq)

TypeOK ==
  /\ fstate \in [Fence -> {"none", "live", "freed"}]
  /\ closed \in [TL -> BOOLEAN]
  /\ tfreed \in [TL -> BOOLEAN]

Init ==
  /\ fstate = [f \in Fence |-> "none"]
  /\ closed = [t \in TL |-> FALSE]
  /\ tfreed = [t \in TL |-> FALSE]

\* Seqno f[2] is taken on an open timeline after every lower one; the new
\* fence may already be gone again by the end of the step (an unwound
\* allocation).
Allocate(f) ==
  /\ fstate[f] = "none"
  /\ fstate'[f] \in {"live", "freed"}
  /\ ~closed[f[1]] /\ ~tfreed[f[1]]
  /\ \A m \in 1..(f[2] - 1) : fstate'[<<f[1], m>>] # "none"

Release(f) == fstate[f] = "live" /\ fstate'[f] = "freed"

FenceMove(f) == fstate'[f] = fstate[f] \/ Allocate(f) \/ Release(f)

Close(t) == ~closed[t] /\ closed'[t]

\* The last reference is gone: the session's and every fence's.  Closing
\* may be the step that drops it.
Destroy(t) ==
  /\ ~tfreed[t] /\ tfreed'[t]
  /\ closed'[t]
  /\ \A n \in 1..MaxSeq : fstate'[<<t, n>>] # "live"

TimelineMove(t) ==
  /\ closed'[t] = closed[t] \/ Close(t)
  /\ tfreed'[t] = tfreed[t] \/ Destroy(t)

Next ==
  /\ \A f \in Fence : FenceMove(f)
  /\ \A t \in TL : TimelineMove(t)

Spec == Init /\ [][Next]_vars
=============================================================================
