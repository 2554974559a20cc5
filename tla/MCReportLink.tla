---------------------------- MODULE MCReportLink ----------------------------
(* Instances of ReportLink for TLC.                                        *)
EXTENDS ReportLink
=============================================================================
