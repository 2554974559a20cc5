------------------------------ MODULE MCBattery ------------------------------
(* Instances of the battery monitoring for TLC.                              *)
EXTENDS Battery
=============================================================================
