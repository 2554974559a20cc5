--------------------------- MODULE MCReportBuffer ---------------------------
(* Instances of ReportBuffer for TLC.                                      *)
EXTENDS ReportBuffer

=============================================================================
