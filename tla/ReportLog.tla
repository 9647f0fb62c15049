------------------------------ MODULE ReportLog ------------------------------
(***************************************************************************)
(* The log directory, /var/log/pkgcheck.  Root runs end by saving their    *)
(* report in it (_write_auto_log, unique_report_path, write_report) while  *)
(* a `pkgcheck --diff` resolves its latest-N aliases against it            *)
(* (list_logs, _resolve_log_path) and loads two of its reports.  No lock   *)
(* is taken: the atomic steps are those of the file system.                *)
(*                                                                         *)
(* A step that can raise OSError either does its work or fails, and a      *)
(* process can be killed or interrupted before any step.                   *)
(***************************************************************************)
EXTENDS Naturals, FiniteSets

CONSTANTS
  Runs,        (* The pkgcheck processes that run as root.                  *)
  Stamps,      (* The local times, to the microsecond, runs may start at.   *)
  Plain        (* The name suffix of a run that saw no collision.           *)

ASSUME ReportLogAssumption == IsFiniteSet(Runs) /\ Plain \notin Runs

VARIABLES
  pc,          (* Where each run is in _write_auto_log, or how it ended.    *)
  name,        (* The path of each run's log: report_path(when) until       *)
               (* unique_report_path settles the suffix.                    *)
  seen,        (* History: the logs that existed when the run picked.       *)
  temp,        (* The .pkgcheck-* file of each run.                         *)
  logs,        (* logs[n]: the report under the name n.                     *)
  clock,       (* Ticked by each completed write: it orders the mtimes.     *)
  at,          (* Where the --diff process is.                              *)
  alias,       (* Its arguments: alias.from = 2 for `--from latest-2`.      *)
  path,        (* The names they resolved to.                               *)
  loaded       (* The reports it loaded.                                    *)

writers == <<pc, name, seen, temp, clock>>
reader  == <<at, alias, path, loaded>>
vars    == <<writers, logs, reader>>

Formats == {"log", "json"}
Sides   == {"from", "to"}

(* pkgcheck-<stamp>.<fmt>, or pkgcheck-<stamp>-<uuid>.<fmt> with a uuid    *)
(* that is the run's own.                                                  *)
Names       == [stamp : Stamps, suffix : {Plain} \cup Runs, fmt : Formats]
report_path == [stamp : Stamps, suffix : {Plain}, fmt : Formats]

NoFile     == [text |-> "none", mtime |-> 0, by |-> Plain]
Exists(n)  == logs[n].text # "none"
Existing   == {n \in Names : Exists(n)}

Init ==
  /\ pc = [r \in Runs |-> "pick"]
  /\ name \in [Runs -> report_path]
  /\ seen = [r \in Runs |-> {}]
  /\ temp = [r \in Runs |-> NoFile]
  /\ logs = [n \in Names |-> NoFile]
  /\ clock = 0
  /\ at = "resolve from"
  /\ alias \in [Sides -> 1..Cardinality(Runs)]
  /\ path \in [Sides -> {<< >>}]
  /\ loaded = [side \in Sides |-> NoFile]

-----------------------------------------------------------------------------
(* A run that saves its report.                                            *)

Goto(r, from, to) == pc[r] = from /\ pc' = [pc EXCEPT ![r] = to]

(* Seeded bug: the existence check is forgotten.                           *)
BadPickBlindly(r) ==
  /\ Goto(r, "pick", "mkstemp")
  /\ seen' = [seen EXCEPT ![r] = Existing]
  /\ UNCHANGED <<name, temp, logs, clock, reader>>

(* Seeded bug: a collision is numbered instead.                            *)
BadPickNumbered(r) ==
  /\ Goto(r, "pick", "mkstemp")
  /\ name' = [name EXCEPT ![r].suffix = IF Exists(name[r]) THEN 1 ELSE Plain]
  /\ seen' = [seen EXCEPT ![r] = Existing]
  /\ UNCHANGED <<temp, logs, clock, reader>>

(* unique_report_path: the plain name, or one with a uuid if it is taken.  *)
Pick(r) ==
  /\ Goto(r, "pick", "mkstemp")
  /\ name' = [name EXCEPT ![r].suffix = IF Exists(name[r]) THEN r ELSE Plain]
  /\ seen' = [seen EXCEPT ![r] = Existing]
  /\ UNCHANGED <<temp, logs, clock, reader>>

(* The existence check raises OSError: the plain name is kept unseen.      *)
PickFails(r) ==
  /\ Goto(r, "pick", "mkstemp")
  /\ UNCHANGED <<name, seen, temp, logs, clock, reader>>

(* Seeded bug: the report is written in place.                             *)
BadMakeTempInPlace(r) ==
  /\ Goto(r, "mkstemp", "write")
  /\ temp' = [temp EXCEPT ![r].text = "partial"]
  /\ logs' = [logs EXCEPT ![name[r]] = [text |-> "partial", mtime |-> clock, by |-> r]]
  /\ UNCHANGED <<name, seen, clock, reader>>

(* mkdir and mkstemp; the owner and mode calls around them cannot fail.    *)
MakeTemp(r) ==
  /\ Goto(r, "mkstemp", "write")
  /\ temp' = [temp EXCEPT ![r].text = "partial"]
  /\ UNCHANGED <<name, seen, logs, clock, reader>>

MakeTempFails(r) ==
  /\ Goto(r, "mkstemp", "warned")
  /\ UNCHANGED <<name, seen, temp, logs, clock, reader>>

(* The file is written and closed.                                         *)
Write(r) ==
  /\ Goto(r, "write", "replace")
  /\ temp' = [temp EXCEPT ![r] = [text |-> "whole", mtime |-> clock + 1, by |-> r]]
  /\ clock' = clock + 1
  /\ UNCHANGED <<name, seen, logs, reader>>

(* The report holds an orphan whose name is not UTF-8: UnicodeEncodeError, *)
(* which is no OSError, leaves the temporary file.                         *)
WriteUnencodable(r) ==
  /\ Goto(r, "write", "traceback")
  /\ UNCHANGED <<name, seen, temp, logs, clock, reader>>

Replace(r) ==
  /\ Goto(r, "replace", "saved")
  /\ logs' = [logs EXCEPT ![name[r]] = temp[r]]
  /\ temp' = [temp EXCEPT ![r] = NoFile]
  /\ UNCHANGED <<name, seen, clock, reader>>

(* Seeded bug: no clean-up when a step of the write fails.                 *)
BadWriteFailsLeavingTemp(r) ==
  /\ Goto(r, "write", "warned") \/ Goto(r, "replace", "warned")
  /\ UNCHANGED <<name, seen, temp, logs, clock, reader>>

(* Seeded bug: the clean-up unlinks the log, not the temporary file.       *)
BadWriteFailsUnlinkingLog(r) ==
  /\ Goto(r, "write", "warned") \/ Goto(r, "replace", "warned")
  /\ temp' = [temp EXCEPT ![r] = NoFile]
  /\ logs' = [logs EXCEPT ![name[r]] = NoFile]
  /\ UNCHANGED <<name, seen, clock, reader>>

(* An OSError in the write or in os.replace: unlink, then the warning.     *)
WriteFails(r) ==
  /\ Goto(r, "write", "warned") \/ Goto(r, "replace", "warned")
  /\ temp' = [temp EXCEPT ![r] = NoFile]
  /\ UNCHANGED <<name, seen, logs, clock, reader>>

(* The same, and the unlink fails too.                                     *)
UnlinkFails(r) ==
  /\ Goto(r, "write", "littered") \/ Goto(r, "replace", "littered")
  /\ UNCHANGED <<name, seen, temp, logs, clock, reader>>

(* Ctrl-C (no handler removes the file) or a signal.                       *)
Killed(r) ==
  /\ \E from \in {"pick", "mkstemp", "write", "replace"} : Goto(r, from, "killed")
  /\ UNCHANGED <<name, seen, temp, logs, clock, reader>>

Writer(r) ==
  \/ Pick(r) \/ PickFails(r)
  \/ MakeTemp(r) \/ MakeTempFails(r)
  \/ Write(r) \/ WriteUnencodable(r)
  \/ Replace(r) \/ WriteFails(r) \/ UnlinkFails(r)
  \/ Killed(r)

-----------------------------------------------------------------------------
(* pkgcheck --diff --from latest-i --to latest-j.                          *)

Newer(m, n) == logs[m].mtime > logs[n].mtime

(* Seeded bug: list_logs sorts the oldest first.                           *)
BadRankOldestFirst(n) == 1 + Cardinality({m \in Existing : Newer(n, m)})

(* The place of a log in the list, newest first.                           *)
Rank(n) == 1 + Cardinality({m \in Existing : Newer(m, n)})

(* --from is resolved first; each alias lists the directory again.         *)
Resolve(side, here, next) ==
  /\ at = here
  /\ \/ \E n \in Existing :
          /\ Rank(n) = alias[side]
          /\ path' = [path EXCEPT ![side] = n]
          /\ at' = next
     \/ /\ alias[side] > Cardinality(Existing)
        /\ at' = "no such log"
        /\ UNCHANGED path
  /\ UNCHANGED <<writers, logs, alias, loaded>>

(* Both paths must be .json; each is then read and parsed.                 *)
Load(side, here, next) ==
  /\ at = here
  /\ IF \A s \in Sides : path[s].fmt = "json" /\ logs[path[side]].text = "whole"
     THEN /\ loaded' = [loaded EXCEPT ![side] = logs[path[side]]]
          /\ at' = next
     ELSE at' = "error" /\ UNCHANGED loaded
  /\ UNCHANGED <<writers, logs, alias, path>>

Reader ==
  \/ Resolve("from", "resolve from", "resolve to")
  \/ Resolve("to", "resolve to", "load from")
  \/ Load("from", "load from", "load to")
  \/ Load("to", "load to", "diffed")

Ended == {"saved", "warned", "littered", "traceback", "killed"}

Terminated ==
  /\ \A r \in Runs : pc[r] \in Ended
  /\ at \in {"diffed", "error", "no such log"}
  /\ UNCHANGED vars

Next ==
  \/ \E r \in Runs : Writer(r)
  \/ Reader
  \/ Terminated

Spec == Init /\ [][Next]_vars

-----------------------------------------------------------------------------
(* Properties.                                                             *)

Reports == [text : {"none", "partial", "whole"}, mtime : 0..clock, by : {Plain} \cup Runs]

(* Type invariant of the directory and of the processes.                   *)
TypeOK ==
  /\ pc \in [Runs -> Ended \cup {"pick", "mkstemp", "write", "replace"}]
  /\ name \in [Runs -> Names]
  /\ seen \in [Runs -> SUBSET Names]
  /\ temp \in [Runs -> Reports]
  /\ logs \in [Names -> Reports]
  /\ clock \in 0..Cardinality(Runs)
  /\ at \in {"resolve from", "resolve to", "load from", "load to",
             "diffed", "error", "no such log"}
  /\ alias \in [Sides -> Nat \ {0}]
  /\ path \in [Sides -> Names \cup {<< >>}]
  /\ loaded \in [Sides -> Reports]

(* "Atomic write via temp file in same directory to avoid partial logs on  *)
(* crash": wherever a run is killed, a name in the directory holds a whole *)
(* report, written by a run that had picked this very name.                *)
PublishedWhole ==
  \A n \in Existing :
    /\ logs[n].text = "whole"
    /\ \E r \in Runs : r = logs[n].by /\ pc[r] = "saved" /\ name[r] = n

(* A saved report stays in its file unless another run, whose own check of *)
(* that name came before the report was there, saved under it too.         *)
SavedStays ==
  \A r \in Runs : pc[r] = "saved" =>
    \/ logs[name[r]].by = r
    \/ \E q \in Runs \ {r} : name[q] = name[r] /\ pc[q] = "saved" /\ name[q] \notin seen[q]

(* A run that ends by itself, report saved or warning shown, leaves no     *)
(* temporary file; where the unlink itself was refused it may.             *)
NoLitter == \A r \in Runs : pc[r] \in {"saved", "warned"} => temp[r].text = "none"

Overwritten == {r \in Runs : pc[r] = "saved" /\ logs[name[r]].by # r}

(* A diff from latest-i to latest-j with i > j goes from an older report   *)
(* to a newer one, and with i = j never backwards, however many runs save  *)
(* their reports between the two listings and the two reads.  That is so   *)
(* as long as no report was written over (Overwritten) and each save has a *)
(* later modification time than the one before: a clock that is set back,  *)
(* or two saves within its grain, are outside.                             *)
DiffDirection ==
  at = "diffed" /\ Overwritten = {} =>
    /\ alias["from"] > alias["to"] => loaded["from"].mtime < loaded["to"].mtime
    /\ alias["from"] = alias["to"] => loaded["from"].mtime <= loaded["to"].mtime

-----------------------------------------------------------------------------
(* The abstract store: partial files would show in it.                     *)

By(file) ==
  CASE file.text = "none"  -> Plain
    [] file.text = "whole" -> file.by
    [] OTHER               -> "partial"

Store == INSTANCE ReportStore WITH
  Own    <- [r \in Runs |-> [n \in Names |-> [n EXCEPT !.suffix = r]]],
  Nobody <- Plain,
  asked  <- [r \in Runs |-> [name[r] EXCEPT !.suffix = Plain]],
  store  <- [n \in Names |-> By(logs[n])],
  saved  <- {r \in Runs : pc[r] = "saved"},
  read   <- [side \in Sides |-> By(loaded[side])]

(* The log directory, with its temporary files, failures and kills,        *)
(* implements the store.                                                   *)
ImplementsReportStore == Store!Spec
=============================================================================
