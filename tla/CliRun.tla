-------------------------------- MODULE CliRun --------------------------------
(***************************************************************************)
(* One invocation of pkgcheck that analyses the system: main, _ensure_root *)
(* with the re-execution under sudo, and _run, which chains the phases and *)
(* prints.  The model keeps what decides where the output goes and how the *)
(* run ends; a message is named for what it says.                          *)
(*                                                                         *)
(* The phases themselves are modules of their own: FileListScan (scan),    *)
(* WorkerPool and PathCheck (verify), OrphanScan, LibDeps, ReportLog.      *)
(***************************************************************************)
EXTENDS Naturals, Sequences, SequencesExt

Privileges == {"ask", "elevate", "no_elevate"}
Phases     == {"scan", "verify", "orphans", "ldd", "nm"}

VARIABLES
  args,        (* The options, the same after a re-execution.               *)
  isatty,      (* Whether stdin is a terminal.                              *)
  euid,        (* "root" or "user".                                         *)
  pc,          (* What comes next, or "exited".                             *)
  stdout,      (* The messages printed so far, over re-executions.          *)
  stderr,
  code,        (* "none", then "ok" (exit code 0), "error" (1), "usage" (2),*)
               (* "interrupted" (130), "sudo" (its own) or "traceback".     *)
  log,         (* The log of this run: "none", "saved" or "failed".         *)
  undecodable, (* Whether an orphan was found whose name is not UTF-8.      *)
  ran,         (* History: <<phase, euid>> of the phases that completed.    *)
  execs        (* History: how many times sudo was executed.                *)

cvars   == <<args, isatty, euid, pc, stdout, stderr, code, log, undecodable, ran, execs>>
process == <<args, isatty, euid, execs>>
outcome == <<log, undecodable, ran>>

(* What a run may print, the documents and messages by what they say.      *)
Messages ==
  {"usage", "encoding warning", "sudo question", "sudo refused", "privileges warning",
   "rg warning", "scan", "orphans", "no files", "error", "breakdown", "summary", "sudo hint",
   "document", "log saved", "log warning", "interrupted", "traceback"}

Options ==
  [json : BOOLEAN, quiet : BOOLEAN, privileges : Privileges,
   orphans : BOOLEAN, libs : {"no", "deps", "symbols"}]

CliInit ==
  /\ args \in Options
  /\ isatty \in BOOLEAN
  /\ euid \in {"root", "user"}
  /\ pc = "start"
  /\ stdout = << >> /\ stderr = << >>
  /\ code = "none" /\ log = "none"
  /\ undecodable = FALSE
  /\ ran = {} /\ execs = 0

-----------------------------------------------------------------------------
(* Printing and ending.                                                    *)

Silent == UNCHANGED <<stdout, stderr>>
OnConsole(messages) == stdout' = stdout \o messages /\ UNCHANGED stderr
OnStatus(messages) ==
  IF args.json THEN stderr' = stderr \o messages /\ UNCHANGED stdout
               ELSE OnConsole(messages)
OnStatusIf(needed, messages) == IF needed THEN OnStatus(messages) ELSE Silent

Goto(from, to) == pc = from /\ pc' = to /\ UNCHANGED code

Exit(from, c) == pc = from /\ pc' = "exited" /\ code' = c /\ UNCHANGED <<process, outcome>>

(* parser.error.                                                           *)
UsageError(from) ==
  /\ Exit(from, "usage")
  /\ stderr' = Append(stderr, "usage")
  /\ UNCHANGED stdout

Traceback(from) ==
  /\ Exit(from, "traceback")
  /\ stderr' = Append(stderr, "traceback")
  /\ UNCHANGED stdout

-----------------------------------------------------------------------------
(* main.                                                                   *)

(* The arguments are checked, the encoding warning is shown if needed.     *)
CheckArguments ==
  \/ UsageError("start")
  \/ /\ Goto("start", "root")
     /\ \E utf8 \in BOOLEAN : OnStatusIf(~utf8, <<"encoding warning">>)
     /\ UNCHANGED <<process, outcome>>

(* _exec_with_sudo: the program starts again as root, sudo refuses, or     *)
(* there is no sudo to execute.                                            *)
ExecWithSudo ==
  \/ /\ Goto("sudo", "start")
     /\ euid' = "root"
     /\ execs' = execs + 1
     /\ Silent
     /\ UNCHANGED <<args, isatty, outcome>>
  \/ /\ Exit("sudo", "sudo")
     /\ stderr' = Append(stderr, "sudo refused")
     /\ UNCHANGED stdout
  \/ Traceback("sudo")

(* Seeded bug: an explicit --no-elevate is forgotten on a terminal.        *)
BadMayAsk == args.privileges # "elevate" /\ ~args.quiet /\ isatty
MayAsk    == args.privileges = "ask" /\ ~args.quiet /\ isatty

(* _ensure_root: --elevate re-executes, a terminal is asked, anything else *)
(* goes on with a warning.                                                 *)
EnsureRoot ==
  /\ \/ euid = "root" /\ Goto("root", "tools") /\ Silent
     \/ euid = "user" /\ args.privileges = "elevate" /\ Goto("root", "sudo") /\ Silent
     \/ /\ euid = "user" /\ MayAsk
        /\ Goto("root", "sudo") \/ Goto("root", "tools")
        /\ OnStatus(<<"sudo question">>)
     \/ /\ euid = "user" /\ args.privileges # "elevate" /\ ~MayAsk
        /\ Goto("root", "tools")
        /\ OnStatusIf(~args.quiet, <<"privileges warning">>)
  /\ UNCHANGED <<process, outcome>>

Announced(next) ==
  IF ~args.quiet /\ next \in {"scan", "orphans"} THEN <<next>> ELSE << >>

(* Seeded bug: the warning goes to the console.                            *)
BadFindTools ==
  /\ Goto("tools", "scan")
  /\ \E rg \in BOOLEAN : IF rg THEN Silent ELSE OnConsole(<<"rg warning">>)
  /\ UNCHANGED <<process, outcome>>

(* rg is optional, ldd and nm are not; --exclude and --orphans-root are    *)
(* checked here.  _run then announces the scan.                            *)
FindTools ==
  \/ UsageError("tools")
  \/ /\ Goto("tools", "scan")
     /\ \E warning \in {<< >>, <<"rg warning">>} : OnStatus(warning \o Announced("scan"))
     /\ UNCHANGED <<process, outcome>>

-----------------------------------------------------------------------------
(* _run.                                                                   *)

Requested ==
  {"scan", "verify"} \cup (IF args.orphans THEN {"orphans"} ELSE {})
    \cup (IF args.libs # "no" THEN {"ldd"} ELSE {})
    \cup (IF args.libs = "symbols" THEN {"nm"} ELSE {})

PhaseOrder == <<"scan", "verify", "orphans", "ldd", "nm", "report">>

(* The next phase that was asked for, and "report" after the last one.     *)
Follows(from, to) ==
  \E k \in DOMAIN PhaseOrder, l \in DOMAIN PhaseOrder :
    /\ PhaseOrder[k] = from /\ k < l /\ PhaseOrder[l] = to
    /\ to \in Requested \cup {"report"}
    /\ \A j \in k + 1..l - 1 : PhaseOrder[j] \notin Requested

(* Seeded bug: the library checks are forgotten when orphans are listed.   *)
BadPhase(from, to) ==
  /\ IF from = "orphans" THEN to = "report" ELSE Follows(from, to)
  /\ Goto(from, to)
  /\ ran' = ran \cup {<<from, euid>>}
  /\ OnStatus(Announced(to))
  /\ UNCHANGED <<process, log, undecodable>>

(* A phase that completes; the next one may be announced.  The progress    *)
(* bars, shown in text mode only, are left out.                            *)
Phase(from, to) ==
  /\ Follows(from, to)
  /\ Goto(from, to)
  /\ ran' = ran \cup {<<from, euid>>}
  /\ undecodable' \in (IF from = "orphans" THEN BOOLEAN ELSE {undecodable})
  /\ OnStatus(Announced(to))
  /\ UNCHANGED <<process, log>>

(* No package record lists a file.                                         *)
NothingRegistered ==
  /\ Exit("scan", "ok")
  /\ OnStatus(<<"no files">>)

(* RuntimeError: the scan failed, or a thread was refused.  The OSError of *)
(* a record that cannot be looked at is caught nowhere (RecordScan).       *)
PhaseFails ==
  \/ /\ \E here \in Phases \ {"orphans"} : Exit(here, "error")
     /\ OnConsole(<<"error">>)
  \/ Traceback("scan")

(* The breakdown, the summary, and the hint about files without access.    *)
PrintReport ==
  /\ Goto("report", "output")
  /\ \E hint \in BOOLEAN :
       IF args.json THEN OnStatusIf(~args.quiet, <<"summary">>)
       ELSE OnConsole((IF args.quiet THEN << >> ELSE <<"breakdown">>)
                      \o <<"summary">> \o (IF hint THEN <<"sudo hint">> ELSE << >>))
  /\ UNCHANGED <<process, outcome>>

(* A stream that takes UTF-8 only refuses a name that is not (one set up   *)
(* for the C locale, or by the UTF-8 fallback, takes it).                  *)
PrintReportFails ==
  undecodable /\ ~args.json /\ ~args.quiet /\ Traceback("report")

PrintDocument ==
  /\ Goto("output", "log")
  /\ IF args.json THEN OnConsole(<<"document">>) ELSE Silent
  /\ UNCHANGED <<process, outcome>>

PrintDocumentFails == args.json /\ undecodable /\ Traceback("output")

(* _write_auto_log: nothing without root.                                  *)
SkipLog ==
  /\ euid = "user"
  /\ Exit("log", "ok")
  /\ Silent

(* With root: saved, or a warning.                                         *)
WriteLog ==
  /\ euid = "root"
  /\ pc = "log" /\ pc' = "exited" /\ code' = "ok"
  /\ \/ ~undecodable /\ log' = "saved" /\ OnStatus(<<"log saved">>)
     \/ log' = "failed" /\ OnStatus(<<"log warning">>)
  /\ UNCHANGED <<process, undecodable, ran>>

WriteLogFails == euid = "root" /\ undecodable /\ Traceback("log")

InRun == Phases \cup {"report", "output", "log"}

(* Ctrl-C: caught in _run only.                                            *)
Interrupt ==
  \/ \E here \in InRun : Exit(here, "interrupted") /\ OnConsole(<<"interrupted">>)
  \/ \E here \in {"start", "root", "sudo", "tools"} : Traceback(here)

Step ==
  \/ CheckArguments \/ EnsureRoot \/ ExecWithSudo \/ FindTools
  \/ \E from \in Phases, to \in Phases \cup {"report"} : Phase(from, to)
  \/ NothingRegistered \/ PhaseFails
  \/ PrintReport \/ PrintReportFails \/ PrintDocument \/ PrintDocumentFails
  \/ SkipLog \/ WriteLog \/ WriteLogFails

Terminated == pc = "exited" /\ UNCHANGED cvars

CliNext == Step \/ Interrupt \/ Terminated

CliSpec == CliInit /\ [][CliNext]_cvars

-----------------------------------------------------------------------------
(* Properties.                                                             *)

(* Type invariant of a run.                                                *)
CliTypeOK ==
  /\ args \in Options /\ isatty \in BOOLEAN /\ undecodable \in BOOLEAN
  /\ euid \in {"root", "user"}
  /\ pc \in InRun \cup {"start", "root", "sudo", "tools", "exited"}
  /\ stdout \in Seq(Messages) /\ stderr \in Seq(Messages)
  /\ code \in {"none", "ok", "error", "usage", "sudo", "interrupted", "traceback"}
  /\ log \in {"none", "saved", "failed"}
  /\ ran \subseteq Phases \X {"root", "user"}
  /\ execs \in Nat

(* With --json, a run that ends well leaves one document on stdout and     *)
(* nothing else, re-execution, warnings and questions included; without a  *)
(* document there was nothing to report.  The README says so of the runs   *)
(* without root; of those with root that stdout is reserved for "the       *)
(* confirmation of the saved log", which the code prints on stderr.        *)
DocumentAlone ==
  args.json /\ code = "ok" =>
    \/ stdout = <<"document">>
    \/ stdout = << >> /\ Last(stderr) = "no files"

(* A run that ends well has completed every phase it was asked for, all of *)
(* them with the same privileges, unless there was nothing to check; a     *)
(* log comes from a root run only.                                         *)
PhasesComplete ==
  code = "ok" =>
    \/ ran = Requested \X {euid} /\ (log # "none" <=> euid = "root")
    \/ ran = {} /\ log = "none"

(* Privileges are asked for, or obtained, at most once, and never against  *)
(* --no-elevate or, on its own initiative, without a terminal to ask on.   *)
(* What is counted is executions of sudo that start the program again: one *)
(* that refuses, or is not there, ends the invocation.                     *)
ElevatedOnceOnDemand ==
  /\ execs <= 1
  /\ execs = 1 => \/ args.privileges = "elevate"
                  \/ args.privileges = "ask" /\ isatty /\ ~args.quiet
=============================================================================
