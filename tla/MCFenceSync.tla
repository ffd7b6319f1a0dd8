---------------------------- MODULE MCFenceSync ----------------------------
(* Model-checking instance of FenceSync: two buffer indices, up to three  *)
(* create_queue_fences calls, which is enough for a pipeline depth of one  *)
(* (first call without a wait fence, later calls with one) and for a     *)
(* failed call between two successful ones.                                *)
EXTENDS FenceSync

MCIdx == {0, 1}
MCMaxCalls == 3
=============================================================================
