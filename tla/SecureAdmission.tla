-------------------------- MODULE SecureAdmission --------------------------
(***************************************************************************)
(* Admission of secure sessions on the static path of msm_v4l2_op_s_ctrl   *)
(* (src/driver/vidc/src/msm_vidc_control.c).                               *)
(*                                                                         *)
(* A client sets SECURE_MODE on its session before streaming.              *)
(* msm_vidc_update_static_property writes the value to the session's       *)
(* capability database under the session's own inst lock, and only then   *)
(* msm_vidc_allow_secure_session takes the core lock and counts the        *)
(* sessions of core->instances whose SECURE_MODE is set.  Sessions of      *)
(* different clients run s_ctrl concurrently, so the write of one session  *)
(* and the count of another interleave.                                    *)
(***************************************************************************)
EXTENDS Naturals, FiniteSets

CONSTANTS
  Session,    \* the sessions (struct msm_vidc_inst) clients may open
  MaxSecure   \* core->capabilities[MAX_SECURE_SESSION_COUNT].value

ASSUME MaxSecure \in Nat

VARIABLES
  inst,       \* core->instances: the open sessions
  secure,     \* secure[s]: cap[SECURE_MODE].value in s's database
  pc,         \* "idle", or "allow": the value is written, the count not yet taken
  rc          \* return value of s's last SECURE_MODE s_ctrl ("none" while it runs)

vars == <<inst, secure, pc, rc>>

-----------------------------------------------------------------------------
(* The client side of a session, outside src/: open adds the session to    *)
(* core->instances with the default SECURE_MODE of 0; close removes it.    *)
Open(s) ==
  /\ s \notin inst
  /\ inst' = inst \cup {s}
  /\ secure' = [secure EXCEPT ![s] = 0]
  /\ rc' = [rc EXCEPT ![s] = "none"]
  /\ UNCHANGED pc

Close(s) ==
  /\ s \in inst
  /\ pc[s] = "idle"
  /\ inst' = inst \ {s}
  /\ UNCHANGED <<secure, pc, rc>>

\* msm_v4l2_op_s_ctrl on a session that is not streaming, static case:
\* msm_vidc_update_static_property writes SECURE_MODE = v to the database.
\* A value of 0 needs no admission, and no other branch of the function
\* applies to SECURE_MODE, so the call returns 0.
SetSecure(s, v) ==
  /\ s \in inst
  /\ pc[s] = "idle"
  /\ secure' = [secure EXCEPT ![s] = v]
  /\ IF v = 1 THEN /\ pc' = [pc EXCEPT ![s] = "allow"]
                   /\ rc' = [rc EXCEPT ![s] = "none"]
              ELSE /\ rc' = [rc EXCEPT ![s] = "ok"]
                   /\ UNCHANGED pc
  /\ UNCHANGED inst

\* The sessions list_for_each_entry counts under the core lock.
SecureCount == Cardinality({i \in inst : secure[i] = 1})

\* msm_vidc_allow_secure_session and the return of s_ctrl: -EINVAL when
\* more than MaxSecure sessions have SECURE_MODE set.  The database value
\* written before the call is left as it is either way.
AllowSecureSession(s) ==
  /\ pc[s] = "allow"
  /\ rc' = [rc EXCEPT ![s] = IF SecureCount > MaxSecure THEN "einval"
                                                       ELSE "ok"]
  /\ pc' = [pc EXCEPT ![s] = "idle"]
  /\ UNCHANGED <<inst, secure>>

Init ==
  /\ inst = {}
  /\ secure = [s \in Session |-> 0]
  /\ pc = [s \in Session |-> "idle"]
  /\ rc = [s \in Session |-> "none"]

Next ==
  \E s \in Session :
    \/ Open(s) \/ Close(s)
    \/ \E v \in {0, 1} : SetSecure(s, v)
    \/ AllowSecureSession(s)

Spec == Init /\ [][Next]_vars

-----------------------------------------------------------------------------
TypeOK ==
  /\ inst \subseteq Session
  /\ secure \in [Session -> {0, 1}]
  /\ pc \in [Session -> {"idle", "allow"}]
  /\ rc \in [Session -> {"none", "ok", "einval"}]

\* The open sessions a secure request was granted to, still in secure mode.
Admitted == {i \in inst : secure[i] = 1 /\ rc[i] = "ok"}

(***************************************************************************)
(* msm_vidc_allow_secure_session rejects a request only when admitting it  *)
(* would exceed the limit ("total secure sessions exceeded max limit"):    *)
(* MaxSecure other sessions already hold secure mode.                      *)
(***************************************************************************)
NoSpuriousRejection ==
  [][\A s \in Session :
       (pc[s] = "allow" /\ rc'[s] = "einval")
         => Cardinality(Admitted \ {s}) >= MaxSecure]_vars
=============================================================================
