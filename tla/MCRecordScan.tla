----------------------------- MODULE MCRecordScan -----------------------------
(* RecordScan with two records. *)
EXTENDS RecordScan

CONSTANTS r1, r2

MCRecords == {r1, r2}
=============================================================================
