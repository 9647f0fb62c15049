---------------------------- MODULE MCReportDiff ----------------------------
(* ReportDiff with two packages that may share a path. *)
EXTENDS ReportDiff, TLC

CONSTANTS aaa, bbb, p1, p2

MCPackages    == {aaa, bbb}
MCPaths       == {p1, p2}
MCContents    == (aaa :> {<<p1, p1>>, <<p2>>} @@ bbb :> {<< >>, <<p1>>})
MCConditions  == {"broken", "missing"}
MCRequests    == {{}, {"orphans", "libs"}}
MCOrphansOnly == {{"orphans"}}
=============================================================================
