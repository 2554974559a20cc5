--------------------------- MODULE MCPacketScanner ---------------------------
(* Instances of the packet scanner for TLC.                                  *)
EXTENDS PacketScanner
=============================================================================
