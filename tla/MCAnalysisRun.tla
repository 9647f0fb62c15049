---------------------------- MODULE MCAnalysisRun ----------------------------
(* AnalysisRun with two packages that may share a path. *)
EXTENDS AnalysisRun, TLC

CONSTANTS aaa, bbb, p1, p2

MCPackages   == {aaa, bbb}
MCPaths      == {p1, p2}
MCContents   == (aaa :> {<<p1, p1>>, <<p2>>} @@ bbb :> {<< >>, <<p1>>})
MCConditions == {"broken", "undefined", "new_pending", "error"}
MCRequests   == {{}, {"orphans"}, {"orphans", "libs"}}
=============================================================================
