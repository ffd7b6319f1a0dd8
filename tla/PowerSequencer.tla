--------------------------- MODULE PowerSequencer ---------------------------
(***************************************************************************)
(* __power_on_iris33_au and __power_off_iris33_au with their controller    *)
(* and hardware halves (src/driver/variant/iris33_au/src/                  *)
(* msm_vidc_iris33_au.c).                                                  *)
(*                                                                         *)
(* The resources the driver votes for are the bus bandwidth vote, the     *)
(* iris-ctl and vcodec power domains (gdsc), and the gcc_video_axi0,       *)
(* core_clk and vcodec_clk clocks.  A power domain or clock is            *)
(* reference counted by the kernel (regulator_enable, clk_prepare_enable): *)
(* en[r] is the number of enables the driver holds.  The bus vote is a    *)
(* value, set to the maximum or to zero.                                   *)
(*                                                                         *)
(* Each resource operation may fail when it enables (EnableMayFail); the   *)
(* register accesses of the power-off halves may fail (RegMayFail).  A    *)
(* call runs under the core lock and is one step.                          *)
(***************************************************************************)
EXTENDS Integers

CONSTANTS
  EnableMayFail, \* set_bw, gdsc_on, reset_bridge, clk_enable may fail
  RegMayFail,    \* __read_register/__write_register may fail
  MaxCycles      \* bound on the number of power-on calls

ASSUME EnableMayFail \in BOOLEAN /\ RegMayFail \in BOOLEAN
       /\ MaxCycles \in Nat

Gated == {"ctl_gdsc", "axi_clk", "core_clk", "vcodec_gdsc", "vcodec_clk"}

\* The steps of __power_on_iris33_au that can fail, in order, and "none".
OnSteps == {"set_bw", "ctl_gdsc", "bridge", "axi_clk", "core_clk",
            "vcodec_gdsc", "vcodec_clk", "substate", "none"}

FailPoints == IF EnableMayFail THEN OnSteps ELSE {"none"}
RegOk == IF RegMayFail THEN BOOLEAN ELSE {TRUE}

\* Bits of WRAPPER_INTR_STATUS: A2H (host interrupt), A2HWD (watchdog),
\* the vcodec idle bit, and any other bit.
IntrBits == {"a2h", "wd", "idle", "other"}
IntrMask == {"a2h", "wd", "idle"}

\* __watchdog_iris33_au: the watchdog bit of a status snapshot
Watchdog(status) == "wd" \in status

VARIABLES
  en,           \* en[r]: enables the driver holds on r \in Gated
  bus,          \* the bus bandwidth vote is the maximum
  power_enable, \* CORE_SUBSTATE_POWER_ENABLE
  fw_pwr_ctrl,  \* CORE_SUBSTATE_FW_PWR_CTRL
  hw_collapsed, \* WRAPPER_CORE_POWER_STATUS bit 1 is clear
  cycles,       \* power-on calls so far
  intr_status,  \* core->intr_status: interrupt bits latched by the driver
  hw_intr,      \* WRAPPER_INTR_STATUS as the firmware raised it
  irq_on        \* enable_irq minus disable_irq_nosync calls of this file

vars == <<en, bus, power_enable, fw_pwr_ctrl, hw_collapsed, cycles,
          intr_status, hw_intr, irq_on>>

Enable(e, r) == [e EXCEPT ![r] = @ + 1]
Disable(e, r) == [e EXCEPT ![r] = @ - 1]

-----------------------------------------------------------------------------
(* The halves, as functions of en.  f is the first step that fails.       *)

\* Mutant: fail_clk_axi is placed after the gdsc_off of fail_reset_ahb2axi.
PowerOnControllerNoGdscOff(e, f) ==
  LET e1 == Enable(e, "ctl_gdsc")
      e2 == Enable(e1, "axi_clk")
  IN  CASE f = "ctl_gdsc" -> e
        [] f = "bridge" -> Disable(e1, "ctl_gdsc")
        [] f = "axi_clk" -> e1
        [] f = "core_clk" -> Disable(e2, "axi_clk")
        [] OTHER -> Enable(e2, "core_clk")

\* __power_on_iris33_au_controller with its goto ladder
PowerOnController(e, f) ==
  LET e1 == Enable(e, "ctl_gdsc")
      e2 == Enable(e1, "axi_clk")
  IN  CASE f = "ctl_gdsc" -> e
        [] f \in {"bridge", "axi_clk"} -> Disable(e1, "ctl_gdsc")
        [] f = "core_clk" -> Disable(Disable(e2, "axi_clk"), "ctl_gdsc")
        [] OTHER -> Enable(e2, "core_clk")

\* Mutant: a vcodec_clk failure returns without releasing the vcodec gdsc.
PowerOnHardwareNoGdscOff(e, f) ==
  CASE f = "vcodec_gdsc" -> e
    [] f = "vcodec_clk" -> Enable(e, "vcodec_gdsc")
    [] OTHER -> Enable(Enable(e, "vcodec_gdsc"), "vcodec_clk")

\* __power_on_iris33_au_hardware
PowerOnHardware(e, f) ==
  LET e1 == Enable(e, "vcodec_gdsc")
  IN  CASE f = "vcodec_gdsc" -> e
        [] f = "vcodec_clk" -> Disable(e1, "vcodec_gdsc")
        [] OTHER -> Enable(e1, "vcodec_clk")

\* __power_off_iris33_au_hardware: with FW_PWR_CTRL and the hardware
\* already collapsed, straight to disable_power; otherwise the clock
\* config, NOC handshake and bridge-reset register accesses come first and
\* the first one that fails returns.  The poll timeouts are only logged,
\* and the gdsc_off and clk_disable errors are swallowed.
PowerOffHardware(e, collapsed, regOk) ==
  IF ~collapsed /\ ~regOk THEN e
  ELSE Disable(Disable(e, "vcodec_gdsc"), "vcodec_clk")

\* Mutant: the core_clk disable names gcc_video_axi0 instead.
PowerOffControllerAxiTwice(e, regOk) ==
  IF ~regOk THEN e
  ELSE Disable(Disable(Disable(e, "axi_clk"), "axi_clk"), "ctl_gdsc")

\* __power_off_iris33_au_controller: the register writes come first; the
\* clocks and the power domain are released only if they all succeed.
PowerOffController(e, regOk) ==
  IF ~regOk THEN e
  ELSE Disable(Disable(Disable(e, "core_clk"), "axi_clk"), "ctl_gdsc")

\* is_iris33_au_hw_power_collapsed, read only with FW_PWR_CTRL; a failed
\* read answers FALSE.
Collapsed(readOk) == fw_pwr_ctrl /\ hw_collapsed /\ readOk

-----------------------------------------------------------------------------
Init ==
  /\ en = [r \in Gated |-> 0]
  /\ bus = FALSE
  /\ power_enable = FALSE
  /\ fw_pwr_ctrl = FALSE
  /\ hw_collapsed = FALSE
  /\ cycles = 0
  /\ intr_status = {} /\ hw_intr = {} /\ irq_on = 0

(***************************************************************************)
(* __power_on_iris33_au.  Already powered: return 0; core not in a valid  *)
(* state: return -EINVAL; both leave everything as it is and are not      *)
(* separate steps.  Otherwise vote the buses, power the controller, then  *)
(* the hardware, then set POWER_ENABLE; a failure unwinds through          *)
(* fail_power_on_substate, fail_power_on_hardware, fail_power_on_controller *)
(* and fail_vote_buses; the rollback's hardware power-off reads the      *)
(* hardware as powered, as it was just enabled.  Clock scaling, __set_registers and                *)
(* __interrupt_init_iris33_au failures are not fatal; the re-powered      *)
(* wrapper starts with no interrupt raised.                               *)
(***************************************************************************)
PowerOn(f, hwRegOk, ctlRegOk) ==
  LET ctl == PowerOnController(en, f)
      hw  == PowerOnHardware(ctl, f)
  IN  /\ ~power_enable /\ cycles < MaxCycles
      /\ cycles' = cycles + 1
      /\ IF f = "none"
           THEN intr_status' = {} /\ irq_on' = irq_on + 1 /\ hw_intr' = {}
           ELSE UNCHANGED <<intr_status, irq_on, hw_intr>>
      /\ CASE f = "set_bw" ->
                UNCHANGED <<en, bus, power_enable>>
           [] f \in {"ctl_gdsc", "bridge", "axi_clk", "core_clk"} ->
                en' = ctl /\ bus' = FALSE /\ UNCHANGED power_enable
           [] f \in {"vcodec_gdsc", "vcodec_clk"} ->
                /\ en' = PowerOffController(hw, ctlRegOk)
                /\ bus' = FALSE /\ UNCHANGED power_enable
           [] f = "substate" ->
                /\ en' = PowerOffController(
                           PowerOffHardware(hw, FALSE, hwRegOk),
                           ctlRegOk)
                /\ bus' = FALSE /\ UNCHANGED power_enable
           [] OTHER ->
                en' = hw /\ bus' = TRUE /\ power_enable' = TRUE
      /\ hw_collapsed' = FALSE
      /\ UNCHANGED fw_pwr_ctrl

(***************************************************************************)
(* __power_off_iris33_au: nothing when POWER_ENABLE is clear; otherwise   *)
(* reset the clock rate, power off the hardware, then the controller      *)
(* (their errors are logged), unvote the buses, disable the interrupt    *)
(* line unless intr_status holds a watchdog, and clear POWER_ENABLE.      *)
(***************************************************************************)
PowerOff(hwRegOk, ctlRegOk, readOk) ==
  /\ power_enable
  /\ en' = PowerOffController(
             PowerOffHardware(en, Collapsed(readOk), hwRegOk), ctlRegOk)
  /\ bus' = FALSE
  /\ power_enable' = FALSE
  /\ irq_on' = IF Watchdog(intr_status) THEN irq_on ELSE irq_on - 1
  /\ UNCHANGED <<fw_pwr_ctrl, hw_collapsed, cycles, intr_status, hw_intr>>

\* The firmware takes over hardware power control (FW_PWR_CTRL, set
\* outside src/) and collapses or restores the vcodec domain on its own.
FirmwarePowerControl ==
  /\ power_enable
  /\ \E ctrl, collapsed \in BOOLEAN :
       /\ fw_pwr_ctrl' = ctrl
       /\ hw_collapsed' = (ctrl /\ collapsed)
  /\ UNCHANGED <<en, bus, power_enable, cycles, intr_status, hw_intr, irq_on>>

\* The firmware raises interrupt bits while the core is powered.
FirmwareInterrupt ==
  /\ power_enable
  /\ \E b \in IntrBits \ hw_intr : hw_intr' = hw_intr \cup {b}
  /\ UNCHANGED <<en, bus, power_enable, fw_pwr_ctrl, hw_collapsed, cycles,
                 intr_status, irq_on>>

(***************************************************************************)
(* __clear_interrupt_iris33_au (not virtualised), run by the interrupt    *)
(* handler while the core is powered: read WRAPPER_INTR_STATUS; if a bit  *)
(* of the mask is set, latch the whole status into intr_status; then       *)
(* write CPU_CS_A2HSOFTINTCLR, which acknowledges the host interrupt.  A  *)
(* failed access returns at once.                                          *)
(***************************************************************************)
ClearInterrupt(readOk, writeOk) ==
  /\ power_enable
  /\ intr_status' = IF readOk /\ hw_intr \cap IntrMask # {}
                      THEN intr_status \cup hw_intr ELSE intr_status
  /\ hw_intr' = IF readOk /\ writeOk THEN hw_intr \ {"a2h"} ELSE hw_intr
  /\ UNCHANGED <<en, bus, power_enable, fw_pwr_ctrl, hw_collapsed, cycles,
                 irq_on>>

Next ==
  \/ \E f \in FailPoints, h, c \in RegOk : PowerOn(f, h, c)
  \/ \E h, c, r \in RegOk : PowerOff(h, c, r)
  \/ FirmwarePowerControl
  \/ FirmwareInterrupt
  \/ \E r, w \in RegOk : ClearInterrupt(r, w)

Spec == Init /\ [][Next]_vars

-----------------------------------------------------------------------------
TypeOK ==
  /\ en \in [Gated -> Nat]
  /\ bus \in BOOLEAN /\ power_enable \in BOOLEAN
  /\ fw_pwr_ctrl \in BOOLEAN /\ hw_collapsed \in BOOLEAN
  /\ cycles \in 0..MaxCycles
  /\ intr_status \subseteq IntrBits /\ hw_intr \subseteq IntrBits
  /\ irq_on \in Int

(***************************************************************************)
(* The rails follow POWER_ENABLE: when it is set the driver holds exactly *)
(* one enable of every power domain and clock and the bus vote; when it   *)
(* is clear it holds none, whatever failed and was unwound on the way.    *)
(***************************************************************************)
RailsFollowPower ==
  IF power_enable THEN bus /\ \A r \in Gated : en[r] = 1
                  ELSE ~bus /\ \A r \in Gated : en[r] = 0
====
