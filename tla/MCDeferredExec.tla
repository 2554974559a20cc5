--------------------------- MODULE MCDeferredExec ---------------------------
(* Instances of DeferredExec for TLC.                                      *)
EXTENDS DeferredExec, TLC

Symmetry == Permutations(Client)
=============================================================================
