-------------------------- MODULE MCPowerSequencer --------------------------
(* The iris33_au power sequencer over a few power cycles.                  *)
EXTENDS PowerSequencer

MCMaxCycles == 4
=============================================================================
