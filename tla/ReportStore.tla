------------------------------ MODULE ReportStore ------------------------------
(***************************************************************************)
(* What users of the log directory rely on: a store of whole reports.  A   *)
(* run adds its report in one step, under the name of its start time or    *)
(* under one of its own, or never; nothing is ever taken out, and only a   *)
(* report under the very same start time may be written over.  A diff      *)
(* reads one stored report and then another.                               *)
(***************************************************************************)
CONSTANTS
  Runs,        (* The runs that may save a report.                          *)
  Names,       (* The names a report may be saved under.                    *)
  Own,         (* Own[r][n]: the name of run r's own, should n be taken.    *)
  Nobody       (* Who has saved a report under a free name.                 *)

VARIABLES
  asked,       (* asked[r]: the name of the start time of r.                *)
  store,       (* store[n]: the run whose report is under n, or Nobody.     *)
  saved,       (* The runs that have saved their report.                    *)
  read         (* The runs whose reports the diff has read, or Nobody.      *)

vars == <<asked, store, saved, read>>

Init ==
  /\ asked \in [Runs -> Names]
  /\ store = [n \in Names |-> Nobody]
  /\ saved = {}
  /\ read = [side \in {"from", "to"} |-> Nobody]

Save(r) ==
  /\ r \notin saved /\ saved' = saved \cup {r}
  /\ \E n \in {asked[r], Own[r][asked[r]]} :
       /\ n # asked[r] => store[n] = Nobody
       /\ store' = [store EXCEPT ![n] = r]
  /\ UNCHANGED <<asked, read>>

Read(side) ==
  /\ read[side] = Nobody
  /\ side = "to" => read["from"] # Nobody
  /\ \E n \in Names :
       /\ store[n] # Nobody
       /\ read' = [read EXCEPT ![side] = store[n]]
  /\ UNCHANGED <<asked, store, saved>>

Next ==
  \/ \E r \in Runs : Save(r)
  \/ \E side \in {"from", "to"} : Read(side)

Spec == Init /\ [][Next]_vars
=============================================================================
