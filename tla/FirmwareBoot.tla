---------------------------- MODULE FirmwareBoot ----------------------------
(***************************************************************************)
(* __boot_firmware_iris33_au (src/driver/variant/iris33_au/src/            *)
(* msm_vidc_iris33_au.c): program the UC region and queue table, write     *)
(* CTRL_INIT, then poll HFI_CTRL_STATUS at most max_tries times until it   *)
(* is non-zero or reports the UC-region error, then enable host-to-        *)
(* firmware interrupts and release the RPMh handshake register.            *)
(*                                                                         *)
(* One step per register access of the poll loop; the firmware writes     *)
(* the status register at any time after CTRL_INIT.  The status register  *)
(* is abstracted to what the loop tells apart: zero, ready (non-zero with *)
(* a zero error field), the UC-region error (error field 0x4) and any     *)
(* other error field.                                                      *)
(***************************************************************************)
EXTENDS Naturals

CONSTANTS
  MaxTries,    \* max_tries
  RegMayFail,  \* __read_register/__write_register may return an error
  MaxPcCalls   \* how many times the caller tries __prepare_pc_iris33_au

ASSUME MaxTries \in Nat \ {0} /\ RegMayFail \in BOOLEAN /\ MaxPcCalls \in Nat

Status == {"zero", "ready", "ucerr", "err"}

\* Outcomes of one register access
RegOk == IF RegMayFail THEN BOOLEAN ELSE {TRUE}

VARIABLES
  pc,          \* where __boot_firmware_iris33_au is
  count,       \* count
  ctrl_status, \* ctrl_status: the last value read
  hw_status,   \* HFI_CTRL_STATUS as the firmware wrote it
  init_done,   \* CTRL_INIT has been written
  intr_en,     \* CPU_CS_H2XSOFTINTEN has been written
  rc,          \* the return value, once pc = "done"
  fw_idle,     \* HFI_CTRL_STATUS bit 30: the firmware is idle
  fw_wfi,      \* WRAPPER_TZ_CPU_STATUS bit 0: the firmware CPU is in WFI
  fw_pcr,      \* HFI_CTRL_PC_READY in HFI_CTRL_STATUS
  prep_sent,   \* a prepare command is pending in the firmware
  pp,          \* where __prepare_pc_iris33_au is ("none": not running)
  idle_status, \* its local idle_status, read with ctrl_status
  pp_sent,     \* this call of __prepare_pc_iris33_au issued __prepare_pc
  pp_rc,       \* its return value ("none" while it runs)
  pp_calls     \* calls of __prepare_pc_iris33_au so far

boot_vars == <<pc, count, ctrl_status, hw_status, init_done, intr_en, rc>>
pc_vars == <<fw_idle, fw_wfi, fw_pcr, prep_sent, pp, idle_status, pp_sent,
             pp_rc, pp_calls>>
vars == <<boot_vars, pc_vars>>

Rc == {"none", "OK", "EREG", "ETIME"}

Init ==
  /\ pc = "setup" /\ count = 0 /\ ctrl_status = "zero"
  /\ hw_status = "zero" /\ init_done = FALSE /\ intr_en = FALSE
  /\ rc = "none"
  /\ fw_idle = FALSE /\ fw_wfi = FALSE /\ fw_pcr = FALSE /\ prep_sent = FALSE
  /\ pp = "none" /\ idle_status = FALSE /\ pp_sent = FALSE /\ pp_rc = "none"
  /\ pp_calls = 0

\* The function returns r; its locals count and ctrl_status go out of scope.
Done(r) == pc' = "done" /\ rc' = r /\ count' = 0 /\ ctrl_status' = "zero"

\* The locals carry on to the next statement.
Locals == UNCHANGED <<rc, count, ctrl_status>>

\* __setup_ucregion_memory_map_iris33_au: six or seven register writes,
\* the first failing one returns.
SetupUcRegion ==
  /\ pc = "setup"
  /\ \E ok \in RegOk : IF ok THEN pc' = "init" /\ Locals ELSE Done("EREG")
  /\ UNCHANGED <<hw_status, init_done, intr_en, pc_vars>>

\* write BIT(0) to HFI_CTRL_INIT
WriteCtrlInit ==
  /\ pc = "init"
  /\ \E ok \in RegOk :
       IF ok THEN pc' = "poll" /\ init_done' = TRUE /\ Locals
             ELSE Done("EREG") /\ UNCHANGED init_done
  /\ UNCHANGED <<hw_status, intr_en, pc_vars>>

\* Mutant: the loop condition compares with <=.
PollStatusPastBound ==
  /\ pc = "poll" /\ ctrl_status = "zero" /\ count <= MaxTries
  /\ ctrl_status' = hw_status
  /\ IF hw_status = "ucerr" THEN pc' = "check" /\ UNCHANGED count
                            ELSE count' = count + 1 /\ UNCHANGED pc
  /\ UNCHANGED <<rc, hw_status, init_done, intr_en, pc_vars>>

\* Mutant: the loop never increments count.
PollStatusNoCount ==
  /\ pc = "poll" /\ ctrl_status = "zero" /\ count < MaxTries
  /\ ctrl_status' = hw_status
  /\ IF hw_status = "ucerr" THEN pc' = "check" ELSE UNCHANGED pc
  /\ UNCHANGED <<count, rc, hw_status, init_done, intr_en, pc_vars>>

\* One iteration of the while loop: read the status, break on the
\* UC-region error, otherwise sleep and count.
PollStatus ==
  /\ pc = "poll" /\ ctrl_status = "zero" /\ count < MaxTries
  /\ \E ok \in RegOk :
       IF ok THEN /\ ctrl_status' = hw_status
                  /\ IF hw_status = "ucerr"
                       THEN pc' = "check" /\ UNCHANGED count
                       ELSE count' = count + 1 /\ UNCHANGED pc
                  /\ UNCHANGED rc
             ELSE Done("EREG")
  /\ UNCHANGED <<hw_status, init_done, intr_en, pc_vars>>

\* The loop condition is false: fall out of the loop.
LoopExit ==
  /\ pc = "poll" /\ ~(ctrl_status = "zero" /\ count < MaxTries)
  /\ pc' = "check"
  /\ UNCHANGED <<count, ctrl_status, hw_status, init_done, intr_en, rc,
                 pc_vars>>

\* Mutant: the timeout is logged and rc set, but the function goes on.
CheckCountNoReturn ==
  /\ pc = "check" /\ pc' = "intr"
  /\ rc' = IF count >= MaxTries THEN "ETIME" ELSE rc
  /\ UNCHANGED <<count, ctrl_status, hw_status, init_done, intr_en,
                 pc_vars>>

\* if (count >= max_tries) return -ETIME
CheckCount ==
  /\ pc = "check"
  /\ IF count >= MaxTries THEN Done("ETIME") ELSE pc' = "intr" /\ Locals
  /\ UNCHANGED <<hw_status, init_done, intr_en, pc_vars>>

\* write CPU_CS_H2XSOFTINTEN = 1
EnableIntr ==
  /\ pc = "intr"
  /\ \E ok \in RegOk :
       IF ok THEN intr_en' = TRUE /\ pc' = "rpmh" /\ Locals
             ELSE Done("EREG") /\ UNCHANGED intr_en
  /\ UNCHANGED <<hw_status, init_done, pc_vars>>

\* write CPU_CS_X2RPMh = 0 and return rc
ReleaseRpmh ==
  /\ pc = "rpmh"
  /\ \E ok \in RegOk : Done(IF ok THEN "OK" ELSE "EREG")
  /\ UNCHANGED <<hw_status, init_done, intr_en, pc_vars>>

\* The firmware, once started by CTRL_INIT, writes its status once.
FirmwareWrites ==
  /\ init_done /\ hw_status = "zero"
  /\ hw_status' \in Status \ {"zero"}
  /\ UNCHANGED <<pc, count, ctrl_status, init_done, intr_en, rc, pc_vars>>

Boot == SetupUcRegion \/ WriteCtrlInit \/ PollStatus \/ LoopExit
        \/ CheckCount \/ EnableIntr \/ ReleaseRpmh

(***************************************************************************)
(* After a successful boot: __raise_interrupt_iris33_au, the firmware's    *)
(* side of power collapse, and __prepare_pc_iris33_au, one step per        *)
(* register access so that the firmware moves between its reads.          *)
(***************************************************************************)

\* The firmware runs once the boot returned 0 on a ready status.
FwRunning == rc = "OK" /\ hw_status = "ready"

\* With no command pending, the firmware finishes its work and sets the
\* idle bit.
FirmwareIdle ==
  /\ FwRunning /\ ~fw_idle /\ ~prep_sent
  /\ fw_idle' = TRUE
  /\ UNCHANGED <<boot_vars, fw_wfi, fw_pcr, prep_sent, pp, idle_status,
                 pp_sent, pp_rc, pp_calls>>

\* An idle firmware CPU with nothing pending waits for an interrupt.
FirmwareWfi ==
  /\ FwRunning /\ fw_idle /\ ~fw_wfi /\ ~prep_sent
  /\ fw_wfi' = TRUE
  /\ UNCHANGED <<boot_vars, fw_idle, fw_pcr, prep_sent, pp, idle_status,
                 pp_sent, pp_rc, pp_calls>>

\* The firmware handles the prepare command: it sets PC_READY and stays
\* idle; it reaches WFI only by a later FirmwareWfi step.
FirmwarePcPrep ==
  /\ FwRunning /\ prep_sent
  /\ fw_pcr' = TRUE /\ fw_idle' = TRUE /\ prep_sent' = FALSE
  /\ UNCHANGED <<boot_vars, fw_wfi, pp, idle_status, pp_sent, pp_rc, pp_calls>>

\* __raise_interrupt_iris33_au: the caller has queued a command and writes
\* CPU_IC_SOFTINT.  The firmware wakes and is busy again; whether it drops
\* PC_READY is the firmware's choice.  After a successful __prepare_pc_iris33_au
\* the caller powers the core off instead.
RaiseInterrupt ==
  /\ pc = "done" /\ rc = "OK" /\ pp = "none" /\ pp_rc # "OK"
  /\ \E ok \in RegOk :
       IF ok /\ FwRunning
         THEN fw_wfi' = FALSE /\ fw_idle' = FALSE /\ fw_pcr' \in {FALSE, fw_pcr}
         ELSE UNCHANGED <<fw_wfi, fw_idle, fw_pcr>>
  /\ UNCHANGED <<boot_vars, prep_sent, pp, idle_status, pp_sent, pp_rc,
                 pp_calls>>

\* The caller enters __prepare_pc_iris33_au.
PreparePcCall ==
  /\ pc = "done" /\ rc = "OK" /\ pp = "none" /\ pp_rc # "OK"
  /\ pp_calls < MaxPcCalls
  /\ pp' = "ctrl" /\ pp_calls' = pp_calls + 1
  /\ pp_sent' = FALSE /\ pp_rc' = "none"
  /\ UNCHANGED <<boot_vars, fw_idle, fw_wfi, fw_pcr, prep_sent, idle_status>>

\* __prepare_pc_iris33_au returns r.
PcReturn(r) == pp' = "none" /\ pp_rc' = r

\* The frame of a step of __prepare_pc_iris33_au
PcFrame == UNCHANGED <<boot_vars, fw_idle, fw_pcr, pp_calls>>

\* read HFI_CTRL_STATUS: return 0 if PC_READY is already set, keep bit 30
ReadCtrlStatus ==
  /\ pp = "ctrl"
  /\ \E ok \in RegOk :
       CASE ~ok   -> PcReturn("EREG") /\ UNCHANGED idle_status
         [] fw_pcr -> PcReturn("OK") /\ UNCHANGED idle_status
         [] OTHER  -> pp' = "wfi" /\ idle_status' = fw_idle /\ UNCHANGED pp_rc
  /\ PcFrame /\ UNCHANGED <<fw_wfi, prep_sent, pp_sent>>

\* read WRAPPER_TZ_CPU_STATUS: skip power collapse unless the CPU is in WFI
\* and the idle bit read before was set
ReadWfiStatus ==
  /\ pp = "wfi"
  /\ \E ok \in RegOk :
       IF ok THEN /\ pp' = IF fw_wfi /\ idle_status THEN "prep" ELSE "skip_ctrl"
                  /\ UNCHANGED pp_rc
             ELSE PcReturn("EREG")
  /\ PcFrame /\ UNCHANGED <<fw_wfi, prep_sent, pp_sent, idle_status>>

\* __prepare_pc (outside src/): queue the prepare command and raise the
\* interrupt, which wakes the firmware CPU; its failure skips collapse.
PrepareCmd ==
  /\ pp = "prep"
  /\ \E ok \in BOOLEAN :
       IF ok THEN /\ prep_sent' = TRUE /\ fw_wfi' = FALSE /\ pp_sent' = TRUE
                  /\ pp' = "poll_pcr"
             ELSE pp' = "skip_ctrl" /\ UNCHANGED <<prep_sent, fw_wfi, pp_sent>>
  /\ PcFrame /\ UNCHANGED <<idle_status, pp_rc>>

\* Mutant: the poll waits for PC_READY with no timeout.
PollPcReadyNoTimeout ==
  /\ pp = "poll_pcr" /\ fw_pcr
  /\ pp' = "poll_wfi"
  /\ PcFrame /\ UNCHANGED <<fw_wfi, prep_sent, pp_sent, idle_status, pp_rc>>

\* poll HFI_CTRL_STATUS for PC_READY; a timeout or a failed read skips.
\* The wait itself is the firmware's steps before this one.
PollPcReady ==
  /\ pp = "poll_pcr"
  /\ \E ok \in RegOk : pp' = IF ok /\ fw_pcr THEN "poll_wfi" ELSE "skip_ctrl"
  /\ PcFrame /\ UNCHANGED <<fw_wfi, prep_sent, pp_sent, idle_status, pp_rc>>

\* Mutant: the WFI poll is left out and the call returns 0.
PollWfiSkipped ==
  /\ pp = "poll_wfi"
  /\ PcReturn("OK")
  /\ PcFrame /\ UNCHANGED <<fw_wfi, prep_sent, pp_sent, idle_status>>

\* poll WRAPPER_TZ_CPU_STATUS for WFI and return 0
PollWfi ==
  /\ pp = "poll_wfi"
  /\ \E ok \in RegOk :
       IF ok /\ fw_wfi THEN PcReturn("OK") ELSE pp' = "skip_ctrl" /\ UNCHANGED pp_rc
  /\ PcFrame /\ UNCHANGED <<fw_wfi, prep_sent, pp_sent, idle_status>>

\* skip_power_off: read HFI_CTRL_STATUS again for the log
SkipReadCtrl ==
  /\ pp = "skip_ctrl"
  /\ \E ok \in RegOk :
       IF ok THEN pp' = "skip_wfi" /\ UNCHANGED pp_rc ELSE PcReturn("EREG")
  /\ PcFrame /\ UNCHANGED <<fw_wfi, prep_sent, pp_sent, idle_status>>

\* read WRAPPER_TZ_CPU_STATUS for the log and return -EAGAIN
SkipReadWfi ==
  /\ pp = "skip_wfi"
  /\ \E ok \in RegOk : PcReturn(IF ok THEN "EAGAIN" ELSE "EREG")
  /\ PcFrame /\ UNCHANGED <<fw_wfi, prep_sent, pp_sent, idle_status>>

PreparePc == ReadCtrlStatus \/ ReadWfiStatus \/ PrepareCmd \/ PollPcReady
             \/ PollWfi \/ SkipReadCtrl \/ SkipReadWfi

Firmware == FirmwareWrites \/ FirmwareIdle \/ FirmwareWfi \/ FirmwarePcPrep

Next == Boot \/ PreparePc \/ PreparePcCall \/ RaiseInterrupt \/ Firmware

\* A call of the driver, once entered, runs on a CPU that is never starved;
\* the firmware is not assumed to answer, and the caller decides whether to
\* call at all.
Spec == Init /\ [][Next]_vars /\ WF_vars(Boot) /\ WF_vars(PreparePc)
-----------------------------------------------------------------------------
TypeOK ==
  /\ pc \in {"setup", "init", "poll", "check", "intr", "rpmh", "done"}
  /\ count \in 0..MaxTries
  /\ ctrl_status \in Status /\ hw_status \in Status
  /\ init_done \in BOOLEAN /\ intr_en \in BOOLEAN
  /\ rc \in Rc
  /\ {fw_idle, fw_wfi, fw_pcr, prep_sent, idle_status, pp_sent} \subseteq BOOLEAN
  /\ pp \in {"none", "ctrl", "wfi", "prep", "poll_pcr", "poll_wfi",
            "skip_ctrl", "skip_wfi"}
  /\ pp_rc \in {"none", "OK", "EREG", "EAGAIN"}
  /\ pp_calls \in 0..MaxPcCalls

(***************************************************************************)
(* The host-to-firmware interrupt is enabled only after the firmware has  *)
(* written HFI_CTRL_STATUS: every path out of the poll loop that reaches  *)
(* the CPU_CS_H2XSOFTINTEN write went through a non-zero read, and a      *)
(* silent firmware ends in the count >= max_tries return (spec.md 4.2:    *)
(* "exceeding the bound fails with BootTimeout"; section 8).              *)
(***************************************************************************)
InterruptsOnlyAfterAnswer == intr_en => hw_status # "zero"

(***************************************************************************)
(* Whatever the firmware does, and even if it never answers, the boot     *)
(* returns.                                                                *)
(***************************************************************************)
Terminates == <>(pc = "done")

(***************************************************************************)
(* Power collapse may follow: a __prepare_pc_iris33_au call that sent the *)
(* prepare command returns 0 only when the firmware has set PC_READY and  *)
(* its CPU sits in WFI.  The firmware moves between the driver's reads,   *)
(* so this rests on the order of the two polls and on nothing waking the  *)
(* firmware after the WFI poll.                                           *)
(***************************************************************************)
PcOkMeansCollapsible == pp_rc = "OK" /\ pp_sent => fw_pcr /\ fw_wfi

(***************************************************************************)
(* Every call of __prepare_pc_iris33_au returns, whether or not the       *)
(* firmware ever answers the prepare command: its polls are bounded.      *)
(***************************************************************************)
PreparePcReturns == [](pp # "none" => <>(pp = "none"))

====
