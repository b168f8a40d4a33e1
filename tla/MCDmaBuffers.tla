---------------------------- MODULE MCDmaBuffers ----------------------------
(* TLC instance of DmaBuffers on its own. *)
EXTENDS DmaBuffers
=============================================================================
