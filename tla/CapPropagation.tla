--------------------------- MODULE CapPropagation ---------------------------
(***************************************************************************)
(* Setting a capability from a V4L2 control (msm_v4l2_op_s_ctrl in         *)
(* src/driver/vidc/src/msm_vidc_control.c) and pushing capability values   *)
(* to firmware.                                                            *)
(*                                                                         *)
(* Before streaming, a control only updates the value in the capability   *)
(* database; stream-on adjusts every capability in dependency order and   *)
(* sets each to firmware (msm_vidc_adjust_set_v4l2_properties).  While     *)
(* streaming, the controlled capability is adjusted, then every child of  *)
(* a capability whose value changed is re-adjusted, walking                *)
(* inst->children_list with list_for_each_entry_safe while appending to   *)
(* it; the capabilities that changed are collected in inst->firmware_list  *)
(* and set to firmware in that order.                                      *)
(*                                                                         *)
(* The adjust function of a capability is deterministic: a function of    *)
(* its parents' values (or the control's value for the controlled          *)
(* capability), chosen in Init among all such functions.  Adjust and set   *)
(* calls of the Fallible capabilities may fail.  A driver call runs under the        *)
(* client and instance locks and is one step.                              *)
(***************************************************************************)
EXTENDS Naturals, Sequences, SequencesExt, TLC

CONSTANTS
  Caps,           \* capability ids
  Children,       \* Children[c]: cap->children[], in table order
  HasAdjust,      \* capabilities with an adjust function
  HasSet,         \* capabilities with a set function
  DynamicAllowed, \* capabilities with CAP_FLAG_DYNAMIC_ALLOWED
  GopSize,        \* the GOP_SIZE capability (or a value not in Caps)
  CapsList,       \* inst->caps_list as prepare_dependency_list built it
  Values,         \* capability values
  Defaults,       \* cap[c].value from the platform table
  Fallible,       \* capabilities whose adjust and set functions may fail
  MaxCtrls,       \* bound on the number of s_ctrl and stream-on calls
  NoCtrl          \* model value: the NULL ctrl passed to children's adjust

ASSUME /\ Children \in [Caps -> Seq(Caps)]
       /\ HasAdjust \cup HasSet \cup DynamicAllowed \subseteq Caps
       /\ ToSet(CapsList) = Caps /\ Fallible \subseteq Caps
       /\ Defaults \in [Caps -> Values]

Parents(c) == {p \in Caps : c \in ToSet(Children[p])}

\* Capabilities that depend on others
Dependent == {c \in Caps : Parents(c) # {}}

\* cap->adjust of a dependent capability: its value as a function of its
\* parents' values.  The adjust function of a root keeps the value the
\* client set when it is called without a control.
AdjustFns(c) == [[Parents(c) -> Values] -> Values]

\* Every choice of adjust functions, one per dependent capability
AdjustTables ==
  {f \in [Dependent -> UNION {AdjustFns(c) : c \in Dependent}] :
     \A c \in Dependent : f[c] \in AdjustFns(c)}

VARIABLES
  value,      \* inst->capabilities->cap[c].value
  clientSet,  \* capabilities with CAP_FLAG_CLIENT_SET
  fw,         \* the value firmware last received for each capability
  streaming,  \* the port's vb2 queue is streaming
  adjustFn,   \* adjustFn[c]: what cap->adjust computes (fixed)
  ctrls,      \* calls so far
  firmware_list, \* inst->firmware_list
  children_list, \* inst->children_list
  \* history variables, read only by the properties
  lastRc,     \* result of the last call
  lastCommit, \* capabilities set to firmware by the last call, in order
  failed      \* some call returned an error

vars == <<value, clientSet, fw, streaming, adjustFn, ctrls, firmware_list,
          children_list, lastRc, lastCommit, failed>>

Rc == {"OK", "EINVAL", "EBUSY", "EADJUST", "ESET"}

-----------------------------------------------------------------------------
(***************************************************************************)
(* Operators on the state of one call:                                     *)
(* s = [value, fwList, childList, fw, commit, rc].                         *)
(***************************************************************************)

\* msm_vidc_add_capid_to_fw_list: skipped when already present
AddCapidToFwList(s, c) ==
  IF c \in ToSet(s.fwList) THEN s ELSE [s EXCEPT !.fwList = Append(@, c)]

\* Mutant: the loop returns after adding the first child.
AddChildrenFirstOnly(s, c) ==
  [s EXCEPT !.childList = @ \o SubSeq(Children[c], 1, IF Children[c] = <<>> THEN 0 ELSE 1)]

\* msm_vidc_add_children: every child, duplicates allowed
AddChildren(s, c) == [s EXCEPT !.childList = @ \o Children[c]]

\* msm_vidc_adjust_cap with ctrl (a value, or NoCtrl); fails: the adjust
\* functions that return an error in this call.
AdjustCap(s, c, ctrl, fails) ==
  CASE c \notin HasAdjust /\ ctrl = NoCtrl -> s
    [] c \notin HasAdjust -> [s EXCEPT !.value[c] = ctrl]
    [] c \in fails -> [s EXCEPT !.rc = "EADJUST"]
    [] ctrl # NoCtrl -> [s EXCEPT !.value[c] = ctrl]
    [] c \notin Dependent -> s
    [] OTHER -> [s EXCEPT !.value[c] =
                   adjustFn[c][[p \in Parents(c) |-> s.value[p]]]]

\* Mutant: cap->set is called without checking that it exists.
SetCapNoSetFn(s, c, fails) ==
  CASE s.rc # "OK" -> s
    [] c \in fails -> [s EXCEPT !.rc = "ESET"]
    [] OTHER -> [s EXCEPT !.fw[c] = s.value[c], !.commit = Append(@, c)]

\* msm_vidc_set_cap: write the value to firmware if there is a set function
SetCap(s, c, fails) ==
  CASE s.rc # "OK" \/ c \notin HasSet -> s
    [] c \in fails -> [s EXCEPT !.rc = "ESET"]
    [] OTHER -> [s EXCEPT !.fw[c] = s.value[c], !.commit = Append(@, c)]

\* Mutant: a changed child gets its children queued but is not added to
\* the firmware list.
ChildBodyNoFwList(s, e, fails) ==
  LET s1 == AdjustCap(s, e, NoCtrl, fails)
      s2 == IF s1.value[e] # s.value[e] THEN AddChildren(s1, e) ELSE s1
  IN  CASE e \notin HasAdjust -> [s EXCEPT !.rc = "EINVAL"]
        [] s1.rc # "OK" -> s1
        [] OTHER -> [s2 EXCEPT !.childList = Tail(@)]

\* One iteration of the children_list walk on its first entry e.  The
\* entry is freed at the end of the body.
ChildBody(s, e, fails) ==
  LET s1 == AdjustCap(s, e, NoCtrl, fails)
      s2 == IF s1.value[e] # s.value[e]
              THEN AddChildren(AddCapidToFwList(s1, e), e) ELSE s1
  IN  CASE e \notin HasAdjust -> [s EXCEPT !.rc = "EINVAL"]
        [] s1.rc # "OK" -> s1
        [] OTHER -> [s2 EXCEPT !.childList = Tail(@)]

\* list_for_each_entry_safe(entry, temp, &inst->children_list, list): temp
\* is read before the body, so the walk stops after an entry that was the
\* last one when its body started, whatever the body appended.
RECURSIVE WalkChildren(_, _)
WalkChildren(s, fails) ==
  IF s.childList = <<>> THEN s
  ELSE LET last == Len(s.childList) = 1
           s1   == ChildBody(s, Head(s.childList), fails)
       IN  IF s1.rc # "OK" \/ last THEN s1 ELSE WalkChildren(s1, fails)

\* Mutant: the error label frees children_list only.
DropListsKeepFw(s) == [s EXCEPT !.childList = <<>>]

\* The error label: children_list and firmware_list are freed; the values
\* already adjusted stay.
DropLists(s) == [s EXCEPT !.childList = <<>>, !.fwList = <<>>]

\* msm_vidc_adjust_dynamic_property(inst, c, ctrl with value v)
AdjustDynamicProperty(s, c, v, fails) ==
  LET prev == s.value[c]
      s1   == AdjustCap(s, c, v, fails)
      s2   == AddCapidToFwList(s1, c)
      s3   == WalkChildren(AddChildren(s2, c), fails)
  IN  CASE c \notin DynamicAllowed -> [s EXCEPT !.rc = "EBUSY"]
        [] s1.rc # "OK" -> s1
        [] s1.value[c] = prev /\ c = GopSize -> s1
        [] s1.value[c] = prev -> s2
        [] s3.rc # "OK" -> DropLists(s3)
        [] s3.childList # <<>> -> DropLists([s3 EXCEPT !.rc = "EINVAL"])
        [] OTHER -> s3

\* msm_vidc_set_dynamic_property: set each firmware_list entry in order;
\* the first error stops the sets and the rest of the list is freed.
SetDynamicProperty(s, fails) ==
  LET Step(acc, c) == SetCap(acc, c, fails)
  IN  [FoldLeft(Step, s, s.fwList) EXCEPT !.fwList = <<>>]
-----------------------------------------------------------------------------
CallState == [value |-> value, fwList |-> firmware_list,
              childList |-> children_list, fw |-> fw, commit |-> <<>>,
              rc |-> "OK"]

\* The functions of S that fail in one call: none, or one fallible one.
Failures(S) == {{}} \cup {{x} : x \in S \cap Fallible}

\* Capability values from the platform defaults; firmware knows nothing yet.
Init ==
  /\ value = Defaults
  /\ clientSet = {}
  /\ fw = [c \in Caps |-> NoCtrl]
  /\ streaming = FALSE
  /\ adjustFn \in AdjustTables
  /\ ctrls = 0
  /\ firmware_list = <<>> /\ children_list = <<>>
  /\ lastRc = "OK" /\ lastCommit = <<>> /\ failed = FALSE

\* Record the outcome of a call in the history variables.
Finish(s) ==
  /\ value' = s.value /\ fw' = s.fw
  /\ firmware_list' = s.fwList /\ children_list' = s.childList
  /\ lastRc' = s.rc /\ lastCommit' = s.commit
  /\ failed' = (failed \/ s.rc # "OK")
  /\ ctrls' = ctrls + 1

\* msm_v4l2_op_s_ctrl for capability c with value v: mark CLIENT_SET;
\* not streaming: msm_vidc_update_static_property stores the value;
\* streaming: adjust_dynamic_property, then set_dynamic_property if it
\* succeeded.
SCtrl(c, v, afails, sfails) ==
  LET s0 == CallState
      sd == AdjustDynamicProperty(s0, c, v, afails)
      s  == IF ~streaming THEN [s0 EXCEPT !.value[c] = v]
            ELSE IF sd.rc # "OK" THEN sd
            ELSE SetDynamicProperty(sd, sfails)
  IN  /\ ctrls < MaxCtrls
      /\ clientSet' = clientSet \cup {c}
      /\ Finish(s)
      /\ UNCHANGED <<streaming, adjustFn>>

\* Stream-on: msm_vidc_adjust_set_v4l2_properties adjusts every capability
\* in caps_list order, then sets every one; the first error returns.  The
\* queue is streaming when it succeeded.
StreamOn(afails, sfails) ==
  LET Adj(acc, c) == IF acc.rc # "OK" THEN acc
                     ELSE AdjustCap(acc, c, NoCtrl, afails)
      Set(acc, c) == SetCap(acc, c, sfails)
      sa == FoldLeft(Adj, CallState, CapsList)
      s  == IF sa.rc # "OK" THEN sa ELSE FoldLeft(Set, sa, CapsList)
  IN  /\ ctrls < MaxCtrls
      /\ ~streaming
      /\ streaming' = (s.rc = "OK")
      /\ Finish(s)
      /\ UNCHANGED <<clientSet, adjustFn>>

Next ==
  \/ \E c \in Caps, v \in Values, af \in Failures(HasAdjust),
        sf \in Failures(HasSet) : SCtrl(c, v, af, sf)
  \/ \E af \in Failures(HasAdjust), sf \in Failures(HasSet) : StreamOn(af, sf)

Spec == Init /\ [][Next]_vars

-----------------------------------------------------------------------------
TypeOK ==
  /\ value \in [Caps -> Values]
  /\ clientSet \subseteq Caps
  /\ fw \in [Caps -> Values \cup {NoCtrl}]
  /\ streaming \in BOOLEAN
  /\ adjustFn \in AdjustTables
  /\ ctrls \in 0..MaxCtrls
  /\ firmware_list \in Seq(Caps) /\ children_list \in Seq(Caps)
  /\ lastRc \in Rc
  /\ lastCommit \in Seq(HasSet) /\ failed \in BOOLEAN

\* d is a descendant of c in the dependency graph
RECURSIVE Descendants(_)
Descendants(c) ==
  UNION {{ch} \cup Descendants(ch) : ch \in ToSet(Children[c])}

(***************************************************************************)
(* Firmware stays in step with the capability database: while streaming   *)
(* and as long as no call has failed, every capability with a set          *)
(* function holds in firmware the value the database holds, i.e. a        *)
(* dynamic control commits every capability its propagation changed.     *)
(***************************************************************************)
FirmwareInSync ==
  (streaming /\ ~failed) => \A c \in HasSet : fw[c] = value[c]

(***************************************************************************)
(* A dynamic control sends its batch to firmware parent before child: no  *)
(* capability is set before a capability it depends on that is set in    *)
(* the same call.                                                          *)
(***************************************************************************)
CommitOrder ==
  \A i, j \in DOMAIN lastCommit :
    lastCommit[j] \in Descendants(lastCommit[i]) => i < j

(***************************************************************************)
(* A dynamic control propagates completely: while streaming and as long   *)
(* as no call has failed, every dependent capability the client has not   *)
(* set holds the value its adjust function gives for its parents' current *)
(* values, i.e. every child of a changed capability was re-adjusted after *)
(* its parents' last change.                                              *)
(***************************************************************************)
DependentsAdjusted ==
  (streaming /\ ~failed)
    => \A c \in (Dependent \cap HasAdjust) \ clientSet :
         value[c] = adjustFn[c][[p \in Parents(c) |-> value[p]]]

(***************************************************************************)
(* inst->firmware_list and inst->children_list are empty whenever no call *)
(* runs: every return path of adjust_dynamic_property and                  *)
(* set_dynamic_property drains them, so no entry of a failed or finished   *)
(* propagation leaks into the next control.                                *)
(***************************************************************************)
ListsDrained == firmware_list = <<>> /\ children_list = <<>>

(***************************************************************************)
(* spec.md, section 8: with every adjust and set function present and     *)
(* succeeding, a dynamic control on a capability that allows it succeeds  *)
(* (setting A of a chain A -> B -> C commits [A, B, C]).                   *)
(***************************************************************************)
NoSpuriousEinval == lastRc # "EINVAL"

====
