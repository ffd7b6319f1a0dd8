--------------------------- MODULE MCFirmwareBoot ---------------------------
(* __boot_firmware_iris33_au with the driver's own bound.                  *)
EXTENDS FirmwareBoot

\* max_tries in __boot_firmware_iris33_au
MCMaxTries == 1000

\* Two calls of __prepare_pc_iris33_au: a skipped collapse and a retry.
MCMaxPcCalls == 2
=============================================================================
