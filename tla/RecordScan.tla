------------------------------ MODULE RecordScan ------------------------------
(***************************************************************************)
(* How scan_package_files gets the lines of the package records, while     *)
(* packages are installed and removed: a ripgrep process over the whole    *)
(* directory, or _python_scan, which reads one record after the other.     *)
(* What the lines mean is module FileListScan.                             *)
(*                                                                         *)
(* A record is a file of Lines lines, all in its FILE LIST, which the      *)
(* package tools write in order and remove at once.                        *)
(***************************************************************************)
EXTENDS Integers

CONSTANTS
  Records,     (* The names of package records there may be.                *)
  Lines,       (* The lines of a complete record.                           *)
  MaxChanges   (* Bound: changes to the directory during the scan.          *)

ASSUME RecordScanAssumption == Lines \in Nat \ {0} /\ MaxChanges \in Nat

VARIABLES
  reader,      (* "ripgrep", or "python" when there is no rg_bin.           *)
  pc,          (* Where the scan is.                                        *)
  todo,        (* Listed records not read yet.                              *)
  by_package,  (* Pairs <<record, line>>; a line is <<record it is from, n, *)
               (* "whole">>, or "cut" when only its beginning was written.  *)
  returncode,  (* Of the ripgrep process: "running", "erring" once it could *)
               (* not read a record; then "0", "1", "2" or "signal", which  *)
               (* subprocess gives as a negative number.                    *)
  size,        (* Lines written of each record; Absent when there is none.  *)
  access,      (* "ok", "closed" (open fails) or "unreachable" (stat too).  *)
  whole,       (* History: the records complete since the scan began.       *)
  open,        (* History: those of access "ok" since then.                 *)
  held,        (* History: the lines each record has held since then.       *)
  changes      (* Changes made, at most MaxChanges.                         *)

scan == <<reader, pc, todo, by_package, returncode>>
env  == <<size, access, whole, open, held, changes>>
vars == <<scan, env>>

Absent == -1
Sizes  == {Absent} \cup 0..Lines
There(r) == size[r] # Absent

(* Seeded bug: the marker's line is taken for an entry.                    *)
BadLinesOf(r) == {<<r, n, "whole">> : n \in 0..size[r]}
LinesOf(r)    == {<<r, n, "whole">> : n \in 1..size[r]}

(* The first lines of a record, up to the nth, whole or cut.               *)
Beginning(r, n, form) == {<<r, k, "whole">> : k \in 1..n - 1} \cup {<<r, n, form>>}

Outcomes == {"result", "error", "traceback"}

Init ==
  /\ reader \in {"ripgrep", "python"}
  /\ pc = "start" /\ todo = {} /\ by_package = {} /\ returncode = "running"
  /\ size \in [Records -> Sizes]
  /\ access \in [Records -> {"ok", "closed", "unreachable"}]
  /\ whole = {r \in Records : size[r] = Lines}
  /\ open = {r \in Records : access[r] = "ok"}
  /\ held = [r \in Records |-> LinesOf(r)]
  /\ changes = 0

-----------------------------------------------------------------------------
(* Both readers: the directory is listed, or cannot be (for ripgrep: the   *)
(* process cannot be started), which is reported as a RuntimeError.        *)

List ==
  /\ pc = "start"
  /\ pc' = "read"
  /\ todo' = {r \in Records : There(r)}
  /\ UNCHANGED <<reader, by_package, returncode, env>>

ListFails ==
  /\ pc = "start"
  /\ pc' = "error"
  /\ UNCHANGED <<reader, todo, by_package, returncode, env>>

Reading(r) == pc = "read" /\ r \in todo /\ todo' = todo \ {r}

-----------------------------------------------------------------------------
(* _python_scan.                                                           *)

(* Seeded bug: `rels` is not emptied for each record.                      *)
BadPythonReads(r) ==
  /\ reader = "python" /\ Reading(r)
  /\ There(r) /\ access[r] = "ok"
  /\ by_package' = by_package \cup ({r} \X (LinesOf(r) \cup {pair[2] : pair \in by_package}))
  /\ UNCHANGED <<reader, pc, returncode, env>>

PythonReads(r) ==
  /\ reader = "python" /\ Reading(r)
  /\ There(r) /\ access[r] = "ok"
  /\ by_package' = by_package \cup ({r} \X LinesOf(r))
  /\ UNCHANGED <<reader, pc, returncode, env>>

(* A record that is gone, or that cannot be read, is passed over; one that *)
(* cannot be looked at, too, as of Python 3.14.                            *)
PythonSkips(r) ==
  /\ reader = "python" /\ Reading(r)
  /\ ~There(r) \/ access[r] # "ok"
  /\ UNCHANGED <<reader, pc, by_package, returncode, env>>

(* Before that, is_file lets the error of stat through, and nobody catches *)
(* an OSError.                                                             *)
IsFileFails(r) ==
  /\ reader = "python" /\ Reading(r)
  /\ access[r] = "unreachable"
  /\ pc' = "traceback"
  /\ UNCHANGED <<reader, by_package, returncode, env>>

PythonEnds ==
  /\ reader = "python" /\ pc = "read" /\ todo = {}
  /\ pc' = "result"
  /\ UNCHANGED <<reader, todo, by_package, returncode, env>>

-----------------------------------------------------------------------------
(* The ripgrep process, as its documentation has it, and the timeout.      *)

Alive == reader = "ripgrep" /\ pc = "read"

RipgrepReads(r) ==
  /\ Alive /\ Reading(r)
  /\ There(r) /\ access[r] = "ok"
  /\ by_package' = by_package \cup ({r} \X LinesOf(r))
  /\ UNCHANGED <<reader, pc, returncode, env>>

(* A record it cannot open, because it is gone for one, is an error that   *)
(* --no-messages hides but the exit status keeps.                          *)
RipgrepCannotRead(r) ==
  /\ Alive /\ Reading(r)
  /\ ~There(r) \/ access[r] # "ok"
  /\ returncode' = "erring"
  /\ UNCHANGED <<reader, pc, by_package, env>>

RipgrepExits ==
  /\ Alive /\ todo = {}
  /\ returncode' = IF returncode = "erring" THEN "2" ELSE IF by_package = {} THEN "1" ELSE "0"
  /\ pc' = "exited"
  /\ UNCHANGED <<reader, todo, by_package, env>>

(* Killed from outside, by the kernel short of memory for one: between two *)
(* records, or while it writes the lines of one, whose output then ends    *)
(* with a whole line or in the middle of one.  (Cut before the colon, a    *)
(* line has an empty name, which the loop of FileListScan skips.)          *)
RipgrepKilled ==
  /\ Alive
  /\ \/ UNCHANGED by_package
     \/ \E r \in todo :
          /\ There(r) /\ access[r] = "ok"
          /\ \E n \in 1..size[r], form \in {"whole", "cut"} :
               by_package' = by_package \cup ({r} \X Beginning(r, n, form))
  /\ returncode' = "signal"
  /\ pc' = "exited"
  /\ UNCHANGED <<reader, todo, env>>

(* Seeded bug: the process is waited for without a timeout.                *)
BadTimeout == FALSE

(* subprocess.run kills the process and waits for its end, which is taken  *)
(* to come.                                                                *)
Timeout ==
  /\ Alive
  /\ pc' = "error"
  /\ UNCHANGED <<reader, todo, by_package, returncode, env>>

(* Seeded bug: matches were found, so an exit status of 2 is put up with.  *)
BadRipgrepEnds ==
  /\ reader = "ripgrep" /\ pc = "exited"
  /\ pc' = IF returncode = "2" /\ by_package = {} THEN "error" ELSE "result"
  /\ UNCHANGED <<reader, todo, by_package, returncode, env>>

(* `returncode >= 2` is an error; a negative one is not.                   *)
RipgrepEnds ==
  /\ reader = "ripgrep" /\ pc = "exited"
  /\ pc' = IF returncode = "2" THEN "error" ELSE "result"
  /\ UNCHANGED <<reader, todo, by_package, returncode, env>>

-----------------------------------------------------------------------------
(* installpkg, removepkg, chmod.                                           *)

Change(newSize, newAccess) ==
  /\ pc \notin Outcomes
  /\ changes < MaxChanges
  /\ changes' = changes + 1
  /\ size' = newSize
  /\ access' = newAccess
  /\ whole' = {r \in whole : newSize[r] = Lines}
  /\ open' = {r \in open : newAccess[r] = "ok"}
  /\ held' = [r \in Records |->
               held[r] \cup {<<r, n, "whole">> : n \in 1..newSize[r]}]
  /\ UNCHANGED scan

Install(r) == ~There(r) /\ Change([size EXCEPT ![r] = 0], access)
Append(r)  == There(r) /\ size[r] < Lines /\ Change([size EXCEPT ![r] = @ + 1], access)
Remove(r)  == There(r) /\ Change([size EXCEPT ![r] = Absent], access)
Chmod(r)   == \E a \in {"ok", "closed", "unreachable"} :
                a # access[r] /\ Change(size, [access EXCEPT ![r] = a])

Environment == \E r \in Records : Install(r) \/ Append(r) \/ Remove(r) \/ Chmod(r)

Terminated == pc \in Outcomes /\ UNCHANGED vars

Python  == PythonEnds \/ \E r \in Records : PythonReads(r) \/ PythonSkips(r) \/ IsFileFails(r)
Ripgrep ==
  \/ RipgrepExits \/ RipgrepKilled
  \/ \E r \in Records : RipgrepReads(r) \/ RipgrepCannotRead(r)

Next ==
  \/ List \/ ListFails \/ Python \/ Ripgrep \/ Timeout \/ RipgrepEnds
  \/ Environment \/ Terminated

(* The interpreter runs, and its timeout elapses; the ripgrep process may  *)
(* do nothing for ever.                                                    *)
Spec ==
  /\ Init /\ [][Next]_vars
  /\ WF_vars(List \/ ListFails) /\ WF_vars(Python) /\ WF_vars(Timeout) /\ WF_vars(RipgrepEnds)

-----------------------------------------------------------------------------
(* Properties.                                                             *)

(* Type invariant of the scan and of the records.                          *)
TypeOK ==
  /\ reader \in {"ripgrep", "python"}
  /\ pc \in {"start", "read", "exited"} \cup Outcomes
  /\ todo \subseteq Records
  /\ by_package \subseteq Records \X (Records \X (1..Lines) \X {"whole", "cut"})
  /\ returncode \in {"running", "erring", "0", "1", "2", "signal"}
  /\ size \in [Records -> Sizes]
  /\ access \in [Records -> {"ok", "closed", "unreachable"}]
  /\ whole \subseteq Records /\ open \subseteq Records
  /\ held \in [Records -> SUBSET (Records \X (1..Lines) \X {"whole"})]
  /\ changes \in 0..MaxChanges

InFull(r) == \A n \in 1..Lines : <<r, <<r, n, "whole">>>> \in by_package

(* A scan with a result has missed no record that was complete all along,  *)
(* whatever was installed or removed around it: the files of a package     *)
(* passed over would all be orphans.  Only the Python reader passes over a *)
(* record it may not read; ripgrep fails, unless a signal ended it.        *)
NoSilentLoss ==
  pc = "result" /\ returncode # "signal" =>
    \A r \in whole : InFull(r) \/ (reader = "python" /\ r \notin open)

Cut == {pair \in by_package : pair[2][3] = "cut"}

(* A line is given to a package only if that package's own record held it  *)
(* at some instant of the scan; but for one line at most, which is only    *)
(* the beginning of a line that was held there, and only when a signal     *)
(* ended ripgrep: that one names a file nobody recorded.                   *)
OnlyWhatWasRecorded ==
  /\ \A pair \in by_package : <<pair[2][1], pair[2][2], "whole">> \in held[pair[1]]
  /\ returncode # "signal" => Cut = {}
  /\ \A one, other \in Cut : one = other

(* The scan ends, even when the ripgrep process does not.                  *)
ScanEnds == <>(pc \in Outcomes)

(* scan_package_files: "Returns the files registered in ``FILE LIST:``     *)
(* grouped by package."                                                    *)
RegisteredAreReturned == pc = "result" => \A r \in whole \cap open : InFull(r)
=============================================================================
