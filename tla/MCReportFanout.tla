--------------------------- MODULE MCReportFanout ---------------------------
(* ReportFanout on small instances. *)
EXTENDS ReportFanout, TLC

Symmetry == Permutations(Clients)
=============================================================================
