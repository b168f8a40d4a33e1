---------------------------- MODULE MCVirtQueue -----------------------------
(* TLC instances of VirtQueue. *)
EXTENDS VirtQueue
=============================================================================
