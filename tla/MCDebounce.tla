----------------------------- MODULE MCDebounce -----------------------------
(* Instances of Debounce for TLC.                                          *)
EXTENDS Debounce
=============================================================================
