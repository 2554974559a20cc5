--------------------------- MODULE MCWirelessLink ---------------------------
(* Instances of the wireless state machine for TLC.                        *)
EXTENDS WirelessLink
=============================================================================
