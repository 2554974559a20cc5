--------------------------- MODULE MCWearLeveling ---------------------------
(* Instances of WearLeveling for TLC.                                       *)
EXTENDS WearLeveling

Store(size, words, address, opt64, word01) ==
  [WriteSize |-> size, LogWords |-> words, AddrBase |-> address,
   Opt64Limit |-> opt64, Word01Limit |-> word01]

\* Words of 4 and of 2 bytes; with 2, an address byte and the limits of the short
\* entries are so small that every kind of entry is used.
BothWidths == {Store(4, 3, 256, 64, 16384), Store(2, 5, 2, 1, 4)}
=============================================================================
