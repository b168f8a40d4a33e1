--------------------------- MODULE MCEngineFences ---------------------------
(* TLC instances of EngineFences. *)
EXTENDS EngineFences, TLC

CONSTANTS handler, caller1, caller2

MCThreads == {handler, caller1, caller2}
MCCallers == {caller1, caller2}
MCSymmetry == Permutations(MCCallers)
=============================================================================
