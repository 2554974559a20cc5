--------------------------- MODULE MCQMKataStream ---------------------------
(* Instances of the QMKata streams for TLC.                                  *)
EXTENDS QMKataStream
=============================================================================
