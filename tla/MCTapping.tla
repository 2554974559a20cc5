------------------------------ MODULE MCTapping ------------------------------
(* Instances of Tapping for TLC.                                            *)
EXTENDS Tapping

CONSTANTS t1, t2

Build(permissive, hold_on_other, same_scan, stall) ==
  [PermissiveHold |-> permissive, HoldOnOtherKeyPress |-> hold_on_other,
   SameScan |-> same_scan, Stall |-> stall]

\* The default mode with a quiet scan every millisecond, and both other modes with
\* several changes in one scan and stalls.
AllBuilds == {Build({}, {}, FALSE, 1), Build({t1, t2}, {t2}, TRUE, 2)}
=============================================================================
