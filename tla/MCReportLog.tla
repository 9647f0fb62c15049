----------------------------- MODULE MCReportLog -----------------------------
(* Instances of ReportLog small enough for TLC. *)
EXTENDS ReportLog, TLC

MCSymmetry == Permutations(Runs)
=============================================================================
