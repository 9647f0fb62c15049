# Verification of pkgcheck

TLA+ models of pkgcheck (the program under `src/src/pkgcheck/`), their TLC runs,
and theorems checked by TLAPS. pkgcheck reads the package records of a Slackware
system (`/var/log/packages`), checks that every file they list is still on disk,
and optionally looks for files no package owns and for broken library
dependencies. It is a single Python program, but a concurrent one: it verifies
with a pool of threads, on a live file system that package tools and the
administrator change meanwhile, runs subprocesses that fail, hang or are killed,
and writes its reports to a directory other runs read and write.

    cd tla
    tlc -workers 2 -config MCWorkerPool.cfg MCWorkerPool
    tlapm WorkerPool_proofs.tla

`PROJECT.json` lists the runs, the seeded bugs that show each property can fail,
and for each definition the source lines it stands for.

## 1. Inventory

| Component | Source | State | Operations | What makes it correct | Module |
|---|---|---|---|---|---|
| Worker pool | `verifier.py` `_run_workers`, `verify_paths*`; the pools of `libdeps.py` | results list, `in_flight`, counters, the executor's queue and threads | submit within a window, wait, collect, refill, synchronous fallback, join | a result lands at its own path's position; the window holds; progress is true; the call ends | `WorkerPool` |
| Path check | `verifier.py` `check_path`, `_lexists` | none of its own; reads the directory once per candidate name | lstat of the name, its `.new` variant, the backups | a file that was only renamed is not reported lost; the docstring's priorities | `PathCheck` |
| ELF probe | `verifier.py` `_is_elf`, `check_path_and_elf` | a file descriptor | open, fstat, read 4 bytes, close | a descriptor is never closed twice, and it is known where it is left open; what is flagged was an ELF file | `PathProbe` |
| Record extraction | `scanner.py` `build_rg_command`, `_python_scan`, first half of `scan_package_files` | a ripgrep subprocess or open files | list, read, wait, judge the exit status | no record that is there is missing from a result; a failed `rg` is an error and not an empty system; what is an entry was a line | `RecordScan` |
| FILE LIST loop | `scanner.py` `scan_package_files`, `_is_section_header` | in-list flag, entries, two counters | one per line of a record | every line is registered or counted once; a section title and a file that looks like one are told apart | `FileListScan` |
| Library passes | `libdeps.py`, `cli._run` | missing libraries and undefined symbols per file, the set of defined symbols | ldd, owner filter, nm to collect, nm to check | what is reported is real although files change and tools fail; what is dropped is dropped for a reason | `LibDeps` |
| Orphans | `orphans.py` | the walk's directories, the list of orphans | list, prune, compare | nothing untracked is overlooked, nothing owned or excluded is reported | `OrphanScan` |
| Analysis run | `cli._run`, `reporter.json_report` | entries, statuses, indexes of the report, summary, streams | phases in order, then report, document, log | each claim was true at some instant, or is one of the known exceptions; what is steady is reported; the log stands for a complete run | `AnalysisRun`, `CliRun` |
| Log directory | `reporter.py` `unique_report_path`, `write_report`; `cli._write_auto_log`; `diff.list_logs`; `cli._resolve_log_path` | the files of `/var/log/pkgcheck` | pick a name, write a temporary file, rename, list, resolve, load | no partial report under a name, no lost report, aliases that keep their order | `ReportLog` |
| Report comparison | `diff.diff_reports`, `cli.main` | none | compare two documents, render | differences tell what changed, in the right direction, and nothing else | `ReportDiff` |
| main and elevation | `cli.main`, `_ensure_root`, `_exec_with_sudo` | options, privileges | check, ask, re-execute, dispatch | elevated once and only on demand; `--json` keeps stdout clean | `CliRun` |
| Rendering | `reporter.py` | none | lay out the report | | |
| Parser, completion | `cli._build_parser`, completion scripts | none | | | |
| Validation | `validate.py` | none | predicates on strings | | |
| Translations | `i18n.py` | a catalogue chosen once | | | |

How they interact: `main` checks the options and privileges and calls `_run`,
which calls the scanner, hands the recorded paths to `verify_paths` or
`verify_paths_with_elf` (the pool applied to the path check, or to the path check
and the ELF probe), passes the recorded names to `find_orphans` and the ELF files
that exist to the library passes (again pools), then prints and saves the report.
`--diff` loads two saved reports and compares them. The only callbacks are the
progress functions. Processes share nothing but the file system: two runs meet in
the log directory, and everything meets the administrator in the file tree. The
threads of a pool share the table of file descriptors.

What is hard here: futures that finish in any order; a thread refused, a worker
that raises or Ctrl-C with futures in flight; renames between two lstat calls of
one check; a name that leads elsewhere between its lstat and its open; errors in
nested handlers that all close; records installed and removed while they are
read; a tree that changes during a walk; phases that each look at the disk
minutes after the one whose results they use; subprocesses that give no
answer or half an answer; a run killed while it writes its report; two listings
that do not see the same directory. The hazards, each at its line, are in
`PROJECT.json`.

## 2. The modules

| Module | Models | Lines of the model stand for |
|---|---|---|
| `OrderedMap` | what callers of the pool rely on: an ordered map that may raise | the contract of `verify_paths` |
| `WorkerPool` | `_run_workers` and the executor; implements `OrderedMap` | `verifier.py` 209-304 |
| `PathCheck` | one call of `check_path` on a directory that changes | `verifier.py` 28-125 |
| `PathProbe` | the whole task of a worker: the check, then the ELF probe; extends `PathCheck` | `verifier.py` 128-206 |
| `RecordScan` | the two readers of the package records | `scanner.py` 128-149, 192-287 |
| `FileListScan` | the loop over the lines of a record | `scanner.py` 31-116, 174-189, 283-324 |
| `OrphanScan` | `find_orphans` on a tree that changes | `orphans.py` 10-90 |
| `LibDeps` | the three library passes | `libdeps.py` 48-417, `cli.py` 822-906 |
| `ReportStore` | what users of the log directory rely on: a store of whole reports | the contract of `write_report` and of `--diff` |
| `ReportLog` | several runs saving reports, and one `--diff`; implements `ReportStore` | `reporter.py` 46-69, 226-296, `diff.py` 21-62, `cli.py` 355-432, 675-724 |
| `AnalysisRun` | the phases of `_run` on a system that changes, and the report | `cli.py` 755-923, `scanner.py` 192-319 and `verifier.py` 69-206 by their results, `reporter.py` 299-340 |
| `ReportDiff` | two runs and the difference of their reports; extends `AnalysisRun` | `diff.py` 54-141, `cli.py` 418-451 |
| `CliRun` | main, elevation, phases, output, exit codes | `cli.py` 290-297, 378-636, 693-694, 758-1065 |
| `*_proofs` (eight) | theorems about all of these: `PathProbe_proofs` about the path check and the probe, `Runs_proofs` about `AnalysisRun`, `ReportDiff` and `CliRun`, the others about the module they are named for | |
| `MC*` (eight) | values for the constants | |

The modules meet in four ways. `WorkerPool` implements `OrderedMap`, and that
contract is what `AnalysisRun` and `LibDeps` use of the pool: each item gets its own
result, in any order, and a phase is over before the next one starts. `PathProbe`
and `ReportDiff` extend the module whose steps they continue. `ReportLog` implements `ReportStore`, which is how `ReportDiff` has its
two reports: each whole, and saved by the run it names. `AnalysisRun` and
`CliRun` are two views of `_run`: the data it hands from phase to phase, and its
control (messages, failures, interrupts, exit codes).

### WorkerPool

The caller is a program counter: `create` (the constructor), `fill` (the inner
`while`), `wait`, `collect` (the loop over `completed`), `join` (leaving `with
executor`), `sync` (the fallback loop), `abort` (leaving `with executor` by a
raise), then `returned` or `raised`. `index`, `done`, `results`, `inFlight` and
`completed` are the source's locals; `progress` is the last number the callback
was given. The executor is external code, modelled from its documentation and
its use: a FIFO queue, threads that `submit` starts on demand, `shutdown(wait=True)`
on exit. `submit` puts the task in the queue before it starts a thread, so a refused
thread leaves a task that `in_flight` does not know of; the model keeps that task.
Whether `submit` starts a thread depends on an idle one being seen: both are
allowed. The pools of `libdeps.py` are the instance with `Window = N`,
`Fallback = FALSE` and `Default` an ordinary answer. They have no run of their
own; the theorems, which hold for every value of these constants, cover their safety.

### PathCheck and PathProbe

Each lstat is a step, so the directory may change between two of them. A name is
a stem (the recorded name or its variant) and a suffix. `Probes` is the order of
the calls, with the status each returns at. `_lexists` turns every error but
`PermissionError` into absence, which `NotFound` does for every probe but the first.
Histories: `fate` (was the file, under either name, absent at some instant?),
`appeared`, and `unread` (did a probe fail and pass for an absence?). A file system
that breaks does not remove a file: `fate` stays what it was. `Promised` is the
docstring's priorities, written independently of the order of the probes, its last
item included (a backup of `foo.conf.new` is pending), where the code departs from it.

`PathProbe` goes on where `check_path` returned EXISTS: open, fstat, read, close,
each of which may fail. The open follows links, so what matters is what the name
leads to (`target`: an executable or library in ELF format, another ELF file, a
script, something that is no regular file, nothing), and that may change until
the open; an opened file is what it was when opened. `descriptor` says whose the
number is: once given back, another worker may have it (`OtherOpens`), and a
second close would close that worker's file (`"stolen"`). `InspectFails`, `ReadFails` and
`FdopenFails` are the failures of fstat, read and `os.fdopen`. When the last one
raises, no handle owns the descriptor, the inner handler (`verifier.py:182`) returns False, and the
outer one, which would close it, is never reached: it stays open.

### RecordScan

A record is so many lines, which the package tools write in order (`Append`) and
remove at once. `List` is the listing both readers begin with. ripgrep is an external process: it
reads records in any order; one it cannot open makes its exit status 2 although
`--no-messages` hides why; it may be killed at any moment, also while it writes the
lines of a record, the last of which is then whole or cut, with what it had
written so far captured; and it may hang, in which case only the timeout ends the
scan (`subprocess.run` then kills it and waits, which is taken to end). `subprocess.run` gives a signal as a negative number. The Python reader passes over a
record it cannot open; a record in a directory that may not be searched makes
`is_file` raise before Python 3.14 (`IsFileFails`) and answer no since then
(`PythonSkips`): both are allowed. Histories: `whole`, `open`, `held`.

### FileListScan

What the loop can tell of a line is its kind: marker, header-like, directory,
under `install/`, pseudo, unsafe, unsafe only once its escapes are decoded, or a
name; with or without a slash. Kinds that look alike to the code (a section
title and a file called `README:`) are distinct in the model, which lets
`WellFormedIsExact` speak of the record's meaning. `WellFormed` says in which records the
lookahead of `_is_section_header` can be right.

### OrphanScan

One step lists a directory, prunes and compares: `os.walk` calls `scandir` and
then hands over the names, and no code of pkgcheck runs in between. The directories still to be listed are a
set, so every order is allowed, the depth-first one among them. A directory that
vanished or may not be read is skipped (`os.walk` without `onerror`). A link to
a directory is among `dirnames` and is neither entered nor reported. Names are
compared relative to the walk's root with names relative to `/`, as in the code; so
"tracked" in `NothingOverlooked` is of the name from the walk's root.

### LibDeps

`ldd` finds a library if some file on disk provides it; the owner filter then
drops the names the package records seem to provide (same name, or same library with the
same major version, hyphen forms converted), and glibc's stubs. `provided_by` is the guess
at a provider for what is left. `nm` collects
definitions, then compares imports. A symbol is kept as `nm` prints it, with its version and
the mark before it, and compared so: `puts@@GLIBC_2.2.5`, a default definition, is never
the same as `puts@GLIBC_2.2.5`, what a program imports. `Binds` is what the dynamic
linker would find instead. A tool that cannot run, times out, or exits
with an error gives an empty result (`NoAnswer`). Files `pkgcheck` itself needs
(`Vital`) are not removed.

### ReportLog

The atomic steps are those of the file system: the existence check, `mkstemp`,
the write, `os.replace`, `unlink`; each may fail, and a run may be killed before
any of them. A listing is one step, as is loading one report. Modification times
are a counter each completed write advances. The reader is `--diff --from latest-i --to
latest-j`: two listings, then two loads. In `ReportStore` a save is one step, a report
under a name is known by its run, and a partial file could not be expressed: the refinement maps one to a value
no store holds.

### AnalysisRun and ReportDiff

The state is what `_run` keeps: `entries` (the pairs of package and path, in the
order the records were read), the condition `found` for each position, the orphans, the
positions with missing libraries and with undefined symbols. Each phase looks at its
items in any order, while packages, records and files
change: the scan at one record after the other, verify and the library passes at positions,
the walk at paths. `done` is what the phase has looked at.

What `RecordScan` and `PathProbe` find can go wrong inside one such look is here as its result. A record
may be read in part (`ScanInPart`: the Python reader passed over it, or ripgrep was killed, perhaps in the middle of
a line, which reads as some other path); `partial` remembers for which. A check takes several calls, so `Verify` may say
what `Glimpses` allows of the conditions the path has been in since the phase began (`since`): one of these; that it is
lost, if it changed its name (the renames of `NoFalseAlarm`'s exemption, and the swallowed errors); that it is no ELF file, if
it went away under the probe. The walk and the library passes look at an item in one step; `OrphanScan` and
`LibDeps` have what happens inside theirs. The condition of a path is as much as pkgcheck can tell: an answer a tool fails to give, the
owner filter, a failing ELF probe, a directory that is excluded or cannot be listed are part of it, not separate choices.

The history `was` holds for each path the pairs of its condition and its owners at some instant.
A path can pass from one package to another between the readings of their records, be in neither
reading, and so be reported as an orphan although it was owned all along: `EveryClaimWasTrue`
says only that no package owned it throughout, and `MCContents` lets it happen.
`"libs"` stands for both library checks. `report` is `json_report`: the categories
list positions, so that a pair recorded twice is listed and counted twice, but
`undefined_symbols`, a dictionary, holds it once.

`ReportDiff` runs it twice, with other options perhaps, on a system that changes all
the while, and compares: added and removed per status and for orphans, the library
listings as a whole, up to order, and the summary. `Text` is what the text mode prints of it.
The two runs share `--orphans-root` and `--exclude`, and the tools answer alike in both.

### CliRun

The steps of an invocation with the messages it prints, named for what they say,
on the stream the code chooses. `Follows` is the order of the phases, without those
that were not asked for. A re-execution under sudo starts over with the same
options. Progress bars are left out: they are drawn in text mode only. `--list-logs` and
`--diff` end before the analysis; they are in `ReportLog` and `ReportDiff`.

Operators named `Bad...` are seeded bugs: no specification uses them. Each stands
before the definition it would replace, and with it TLC finds a property violated.

## 3. The runs

| Run | Configuration | Bounds | States |
|---|---|---|---|
| `verify_pool` | `MCWorkerPool.cfg` | 4 paths, window 2, 2 threads, 2 answers | 65,639 |
| `path_probe` | `MCPathProbe.cfg` | 2 backup suffixes, 3 changes | 979,541 |
| `record_scan` | `MCRecordScan.cfg` | 2 records of 2 lines, 3 changes | 165,300 |
| `file_list` | `MCFileListScan.cfg` | a marker and up to 4 lines | 183,068 |
| `orphan_walk` | `MCOrphanScan.cfg` | 6 places, 2 roots, 4 record sets, 2 changes | 190,584 |
| `library_passes` | `MCLibDeps.cfg` | a program, a library, libc, symbols with and without versions; 3 changes | 50,886 |
| `report_log` | `MCReportLog.cfg` | 3 runs, 2 timestamps, 1 diff (symmetry on the runs) | 1,457,368 |
| `analysis_run` | `MCAnalysisRun.cfg` | 2 packages, 2 paths, 4 conditions, 3 requests, 2 changes or cuts | 4,342,768 |
| `report_diff` | `MCReportDiff.cfg` | 2 packages, 2 paths, 2 conditions, 2 requests, 2 changes or cuts over 2 runs | 3,693,976 |
| `cli_run` | `MCCliRun.cfg` | every combination of options | 40,896 |

**verify_pool.** `WindowBound`: unfinished tasks never exceed the window, also
after a refused submit. `ReturnsEveryResult`: on return each path has its own
outcome, a raise reported as an error. `ProgressHonest`, `ProgressNeverRetreats`:
the bar shows at most what was evaluated, ends full, never goes back.
`CallEnds`: no wait for a future nobody runs. `ImplementsOrderedMap`: the
refinement. With a window of two
and four paths the window fills and is refilled, results arrive out of order, a
refusal occurs with futures in flight; one window more only adds more of the same,
and the safety half is proved for all sizes.

**path_probe.** `VerdictAtRest`: if nothing moves, the status follows the
docstring's priorities, in every case but one: of a recorded `foo.conf.new` of which only a backup is left it says BACKUP, and the property
demands that it does. `NoFalseAlarm`: MISSING or BACKUP is said only of a file that
was absent at some instant of the call, but for two cases: its recorded name appeared under the
check, or a later lstat failed. All three exceptions are disagreements with the documentation, listed below. `DescriptorReturned`: whichever calls fail, the descriptor is never closed twice, so that no worker closes the file of another,
and it is left open on exactly one path, when `os.fdopen` raises. `ElfExact`: what is
flagged existed and led to an ELF binary or library during the probe; a name that leads to
one file all along is flagged exactly if it is one, unless a call failed. Three changes are
enough for a rename, its reverse and another, or for two changes under the check and one
between the open and the read; the theorems cover any number. Two suffixes show the order of the backups.

**record_scan.** `NoSilentLoss`: a result misses no record that was complete during
the whole scan, but for one the Python reader may not read, or after a signal (below).
`OnlyWhatWasRecorded`: a line is given to a package only if that package's record held it, whole but for one at
most, after a signal.
`ScanEnds`: also when ripgrep hangs. Two records show one failing beside one
that does not and an installation beside a removal; two lines, a record half written.

**file_list.** `WellFormedIsExact`: on records where a title can be recognised,
the entries are the files and the counters the excluded lines, at every line.
`EveryLineCountedOnce`: on any record each line of an open list is registered or
counted, once. Four lines hold a header-like line, a directory to skip, and what
follows it.

**orphan_walk.** `NothingOverlooked`: an untracked file that stays in place is
reported unless excluded, or below a directory that could not be listed,
whatever else changes. `NothingInvented`: what is reported existed, below the walk's root,
under no excluded prefix, and in a walk from `/` no package owns it (from another root owned files may be, see below). The places hold a prefix of one
level and one of two, which tells pruning below a prefix from pruning above it.

**library_passes.** `NothingFalselyBroken`: a library is reported only if its
providers were off the disk at some instant. `NothingFalselyUndefined`: the same
for symbols and the definitions they would bind to, or `nm` failed on the file, or prints the definition with another mark than the import.
That last exception is wide: the default definition of a versioned symbol, which is what most programs
use of glibc, always has another mark. `README.md:82` admits false positives by symbol versioning, so it is no
disagreement; what the property protects is symbols without versions, and versions that are not the default.
`FlaggedUnlessRecorded`: the converse for libraries, up to the owner filter. Three
changes allow a removal in one pass and its repair in the next. The program needs
two major versions of a library, a glibc stub and libc, with hyphen and dot names.

**report_log.** `PublishedWhole`: a name holds a whole report, wherever a run was
killed. `SavedStays`: a saved report is replaced only by a run whose existence check came
before it. `NoLitter`: no temporary file where a run ends by
itself. `DiffDirection`: `latest-i` to `latest-j` with i > j goes from old to
new, whatever is saved between the listings, which holds because `--from` is resolved
first; it leaves out directories where a report was written over, and modification times that are equal or go back. Three runs are needed for i and j to shift independently. `ImplementsReportStore`: the
refinement; beyond `PublishedWhole` and `SavedStays` it says that no step of any run, failed ones
included, takes a report out, and that what a diff loads is a report in the store at that moment.
The three runs may end in any way at any step, so deadlock is not an issue and
`Terminated` stutters when all are over.

**analysis_run.** `EveryClaimWasTrue`: what a report lists was so at some instant of its
run and recorded by its package, no package owned an orphan throughout, and the summary counts the listings. There are three exceptions, each from a
module of its own: MISSING and BACKUP may be said of a path that only changed (`PathCheck`), a record read in part does not
protect its files from being orphans, and may end in half a line (`RecordScan`). `SteadyIsReported`: what did not change during
the run is in the report, in its category, under every package that records it, and in no other; here the exceptions have no
place, but for an orphan that a half line names. Four conditions, two of them ELF files with different problems and two off
the disk, make every result of a look possible; two changes are a removal and its repair, or a rename beside a cut.

**report_diff.** `DiffTellsTheChange`: what the difference says appeared or went was not the same for all of both
runs, and a path that was in one condition during the first run and in another during
the second goes and comes accordingly. `NoDifferenceWithoutChange`: two runs of a system
at rest, which may read the records in different orders, have no difference. Two packages that may share a path
and a record that names a path twice are what makes positions, pairs and paths
differ. Two changes can fall in the first run, in the second, or between the two.

**cli_run.** `DocumentAlone`: a successful `--json` run leaves the document alone on
stdout, over re-executions, warnings and questions, root runs included (where the README promises something else, see below). `PhasesComplete`: exit code 0
stands for every phase asked for, run with the same privileges, and a log for a
root run. `ElevatedOnceOnDemand`: the program is started again under sudo at most once, and only on
`--elevate` or after a question on a terminal. There is no bound: the state
space is finite.

Each module's type invariant is checked with them; that of `CliRun`, which has no constants, is a theorem only. Deadlock is checked everywhere.

### Disagreements between the code and its documentation

Two have a run that checks the sentence and finds it violated.

| Run | Configuration | Sentence | What the code does |
|---|---|---|---|
| `rg_killed` | `MCRecordScanKilled.cfg` | `scanner.py:234` "Returns the files registered in ``FILE LIST:`` grouped by package." | `scanner.py:273` takes only `returncode >= 2` for a failure; a ripgrep ended by a signal has a negative one, and what it had written so far, half a line included, is the result |
| `diff_text` | `MCReportDiffText.cfg` | `README.md:138` "In text mode it shows `+ added`/`- removed` per package" | `cli.py:445` calls `.items()` on the list of orphans: a traceback once an orphan came or went |

Others, without a run of their own. The first six are what the exceptions of checked properties say, or a theorem:

- `verifier.py:60-61` promises NEW_PENDING for a recorded `foo.conf.new` of which only `foo.conf.new.bak` is left; any
  backup found is BACKUP (`verifier.py:110`). `VerdictAtRest` demands BACKUP there (`PendingBackup`).
- `verifier.py:44` "Checks the existence of `path` with a single low-level call.": there are several, and with `mv
  foo.conf.new foo.conf` between two of them `foo.conf` is MISSING though one of its names was always there. The first
  exception of `NoFalseAlarm`.
- `README.md:117` "`foo.conf.new` present on disk → reported as **pending review**" (and `verifier.py:56-57`): `_lexists`
  takes an I/O error for absence (`verifier.py:123`), so it is MISSING where the first lstat would have given ERROR. The
  second exception of `NoFalseAlarm`.
- `README.md:133` "files present on disk but not owned by any package", of any `--orphans-root`: below another root than
  `/`, names relative to it are compared with names relative to `/` (`orphans.py:81`), and owned files are reported.
  `NothingInvented` speaks of walks from `/` only.
- `README.md:159-161`: with `--json` stdout is reserved for the document without root, and for "the confirmation of the
  saved log (root)" with it; the code writes the document to stdout (`cli.py:1030`) and the confirmation to stderr
  (1052) in both cases, which is what `DocumentAlone` shows.
- `README.md:63-68`: "any `not found` dependency is flagged", with a best-effort guess at the package that should provide
  it: the owner filter (`libdeps.py:166`) drops every library some record matches, even if its file is gone, which is
  the last exception of `FlaggedUnlessRecorded`; and the guess uses the same match, so it is None for all that remain,
  which `NoGuessIsMade` proves.

Seen while reading:

- `verifier.py:232` falls back to synchronous checks "if threads cannot be created": the
  constructor starts no thread, and a refusal comes from `submit` (244), outside that
  `try`, and aborts the run. `WorkerPool` models it so.
- `os.fdopen` raising leaves the descriptor open (`verifier.py:179-183`), although an outer handler stands ready to close it;
  no sentence speaks of it. `DescriptorReturned` says it is the only such path.
- An orphan name that is not UTF-8 raises `UnicodeEncodeError` in `write_report` (291),
  which no `except OSError` turns into the warning of `README.md:155`. A step of `ReportLog`.
- Two runs at the same microsecond can pick the same name, where `reporter.py:68` says
  "guaranteed uniqueness"; `SavedStays` states exactly what is left. `README.md:163` speaks
  of the same second and of numeric suffixes where the code has microseconds and a UUID.
- `main` prints its error and interruption messages on stdout with `--json` too
  (`README.md:158-161`); `DocumentAlone` is restricted to successful runs for that reason.
- A file named like a title and followed by a name of the root directory ends the list
  (`scanner.py:178` suggests it is kept); `WellFormed` excludes it.
- A `foo.conf` renamed at installation from a recorded `foo.conf.new` is an orphan although
  it counts as installed elsewhere (`README.md:116`), and although it EXISTS it is never probed for ELF,
  the probe opening the recorded name.
- The two readers differ: the Python one passes over an unreadable record in silence where ripgrep fails
  the whole scan; ripgrep enters subdirectories and does not follow linked records; a
  colon in the path of the packages directory breaks `partition(":")` on ripgrep's output.
- A difference in the summary alone prints nothing in text mode, not even "No
  differences"; two runs with different options differ in what only one was asked for;
  within an item of `broken_libs` the order of the libraries is compared as it is.
- A pair recorded twice counts twice in the summary's `undefined_symbols` and is listed once.

## 4. Fairness

Stated only where there is a liveness property. `WorkerPool`: weak fairness of the
caller, of a free thread that takes the next task, and of a running task's end, which holds
since a check is a few lstat calls and a read of four bytes, and `ldd` and `nm` run
under a timeout. `RecordScan`: weak fairness of the listing, of the Python reader (a
local read is assumed to end), of the timeout and of the judgement of the exit
status; none of the ripgrep process, which may hang for ever. No refusal, interrupt,
failure or change is ever forced. The other modules have safety properties only, and no fairness.

## 5. Theorems

For every value of the constants that satisfies the module's assumption:
`PoolAssumption` (a positive window and number of threads, outcomes distinct from
the states of a task, and a default that is reported as itself where it is an answer);
`PathCheckAssumption` (the suffixes are a sequence of strings); `RecordScanAssumption`
(a record has a line at least); `FileListScanAssumption` (a bound on the lines);
`OrphanScanAssumption` (places are paths, with the directories above each; roots are places);
`LibDepsAssumption` (library names have a name, a form and a version; the tables are functions
on the files; a symbol has a name, a mark and a version); `ReportLogAssumption` (finitely many runs, none of them the empty suffix); `AnalysisRunAssumption` (records are
sequences of paths, conditions are those named). `CliRun` has no constants.

**WorkerPool_proofs.** `TypeCorrect`, `WindowRespected`, `OrderPreserved`,
`ProgressIsHonest`, `ProgressMonotone`, `PoolImplementsOrderedMap`, and
`WindowInRange` (64 to 256 for any number of workers). None of the properties is
inductive: the loop only knows its locals. `IInv`, stated in `WorkerPool`, adds
`InFlightSubmitted` (in-flight futures were submitted, completed ones are
finished), `NothingBeyondIndex` (no task beyond `index`, but the one of a refused
submit, for which there was room in the window: this is what `WindowRespected`
needs), `PoppedIsStored` (what left `in_flight` is finished and stored at its
position), `Counted` (`done` plus the futures in flight is `index`; progress
follows) and `AtTheEnd`. One lemma per action shows each keeps `IInv`. The refinement
maps a future's outcome to the abstract value of its path: `Finish` and
`SyncStep` are evaluations, the end of the call a return or a raise, every
other step a stutter.

**PathProbe_proofs**, on `PathCheck`: `TypeCorrect`, `LostMeansLost` (`NoFalseAlarm`) and `PrioritiesHold`
(`VerdictAtRest`) for any list of suffixes and any number of changes. `FalseAlarmInv` says
what the checker has learnt: after the first probe the recorded name is back only if it
appeared; after the second, if neither was found and the file was never lost, then the one
that was there all along is the recorded name, and it appeared. `FirstProbes`
is the fact about the order of the probes it rests on. A probe that failed sets `unread`, which is the
other exemption. `AtRest` says the same of a
directory that does not move: all names probed so far are absent. With `LaterProbes` (from
the third on the probes are the backups, all of them) the last answer is BACKUP or MISSING as promised, or BACKUP for the backup of a `.new`.

**PathProbe_proofs**, on `PathProbe`: `ProbeTypeCorrect`, `ClosedOnce`, `ElfFlagExact`, and
`ProbeLostMeansLost`, which carries the theorem about the check over to the whole task.
`Held` follows the descriptor: this task's from the open to the close, and not touched
afterwards. `Flagged` follows the flag: what was opened is among what the name has led to, and
what is read is a candidate.

**RecordScan_proofs.** `TypeCorrect`, `NoLossIsSilent`, `OnlyRecorded`. `Accounted`: a record
complete so far is still to be read, or in the result in full, or the reader knows it could
not be read (ripgrep's status) or may not know it (the exception of `NoSilentLoss`). For `OnlyRecorded`, a
signal is the last thing that can happen to ripgrep, so only one record can have been cut, at one line.
`Status` ties the exit status to the steps, `Current` the histories to the directory.

**FileListScan_proofs.** `TypeCorrect`, `ScanIsExact`, `LinesCountedOnce`, for records of any
length. `Tallied`: after line k the list is open exactly if a marker was read and no title
since, the entries are the registered lines so far and the counters the numbers of the
two kinds of excluded ones. `Follows`: on a well-formed record the list is open
exactly inside the section, since every title there is followed by its text (`TitlesEnd`, `SectionNext`).

**OrphanScan_proofs.** `TypeCorrect`, `NoOrphanOverlooked`, `NoOrphanInvented`, for any
tree, records and prefixes. The invariant speaks of each file that has stayed: it is settled
(excluded, recorded, reported, or below a directory that could not be listed) or a directory above it is still to be listed.
Listing that directory puts the next one on the way, unless it is pruned, and
then the file is excluded as well (`ExcludedBelow`, `OneStepDown`). The lemmas on prefixes come first.

**LibDeps_proofs.** `TypeCorrect`, `BrokenIsReal`, `UndefinedIsReal`, `MissingIsFlagged`
(`FlaggedUnlessRecorded`) and `NoGuessIsMade`. `Absences`:
a file that is off the disk, or was not verified, is in `gone`. `Collected`: once `nm`
answered on a file its symbols are in `defined`, or it was gone, or `nm` failed;
that is the link from the second pass to the third. A symbol that binds to a definition and has its mark
is the same symbol (`SameMark`), which is what a comparison of printed names can tell. `Flagged`: once ldd answered, each
absent library is reported or was dropped for a reason (`DroppedForAReason`). `LeftUnmatched`: what
the filter leaves matches no record, so that the guess at a provider is always None, against `README.md:64-65`.

**ReportLog_proofs.** `TypeCorrect`, `WholeOrNothing`, `SavedStay`, `NoLitterLeft`,
`DiffGoesForward`, `LogImplementsStore`, for any number of runs and timestamps. `WritersInv`: what each run's
temporary file holds at each step, and that two runs share no name but one picked before
either had written (`Picked`). For the direction of a diff, an alias is a rank among the
modification times: the number of newer reports plus one. While nothing is overwritten
the logs only grow, so a rank never shrinks (`RankOrders`, `NothingOverwritten`), and the
report `--from` was resolved to still has at least its alias's rank when `--to` is resolved (`Directed`). In the refinement of `ReportStore`
the rename is a save and a load a read, everything else a stutter; that a name with a run's own
suffix is free when it is saved to comes from `Picked` and `PublishedWhole`, and `Loads` says what has been read so far.

**Runs_proofs**, on one run: `TypeCorrect`, `ClaimsWereTrue` (`EveryClaimWasTrue`) and
`SteadyReported` (`SteadyIsReported`), for any packages, paths, records and number of changes.
A report is true of the past, which no variable but the history keeps, so `RunInv` ties
each result to it: `Remembered` (the present is in the history), `Lately` (what has been so since verify began
is in it), `Recorded` (a
package with an entry for a path owned it at some instant; one that was read and has none did
not; both only of records read in full), `Verified` (what was found can be glimpsed of the conditions in the
history), `Walked`, `Linked`, `Resolved` (each phase found what was so, and has an
answer for all of `done`), and `NothingEarly`
(no results before their phase, and none for a phase that was not asked for). `PhaseFollows` says which phase
`NextPhase` can reach; the invariant then says of every item what it said of `done`. Changes only add to the history
(`HistoryGrows`), and more conditions only add to what can be glimpsed (`MoreGlimpses`), while of a single condition nothing
but itself can be (`OneGlimpse`), which is what `SteadyReported` rests on. The report is a listing of positions: `RankOneToOne` and `ListingPlaces` make
`Listing` a one-to-one numbering of them, which gives the counts of the summary (`OnceEach` for
the dictionary), and `ListedWasTrue` and `SteadyIsListed` read the categories off it.

**Runs_proofs**, on the difference: `DiffTells` (`DiffTellsTheChange`) and `UnchangedIsSame`
(`NoDifferenceWithoutChange`). `DiffInv` keeps of the first run what a finished run
satisfies, `GoodRun`: its files, orphans and library listings are right for its own history. `FinishedIsGood` is
where `RunInv` gives that. For two runs on a system at rest, `Determined` says that each finding follows
from the condition of the path alone; `EquallyMany` and `SameElements` then compare the listings of
entries that are the same up to order, and `SameReportNoDifference` the reports.

**Runs_proofs**, on an invocation: `CliTypeCorrect`, `JsonDocumentAlone` (`DocumentAlone`),
`OkMeansComplete` (`PhasesComplete`) and `ElevatedOnce` (`ElevatedOnceOnDemand`). TLC's run is exhaustive here;
the proof says why it holds. `Elevation` follows the privileges through the
re-execution: who comes to sudo is no root and has not been there, who comes from it is root.
`Progress`: what has completed is what was asked for and comes before the present phase (`FollowsPassed`), all
with the present privileges, since none runs before the re-execution. `Output`: stdout is empty until the document. `EndsBadly`
is the one lemma for the many ways to end otherwise.

Model-checked only: liveness (`CallEnds`, `ScanEnds`), which is out of the prover's reach.
The sentences of the two violated runs are not theorems.

## 6. Not modelled

- Rendering, parser, completion, validation, translations: no behaviour over time.
- The text of `ldd`, `nm` and ripgrep output, of records and of names: replaced by what it lists.
- A name that is not UTF-8 (read with replacement characters, walked with surrogates):
  only its effect on printing is modelled (`undecodable`, `WriteUnencodable`).
- In `AnalysisRun` and `ReportDiff`, the failures of single tools and the owner filter (they are in `LibDeps`), excluded and unlistable
  directories (`OrphanScan`), and two runs with different `--orphans-root` or `--exclude`.
- Links to directories: what lies behind one is not walked, and so is left out.
- A file that is rewritten in place while it is open.
- Other users of the log directory than pkgcheck (log rotation), and reports written by
  other programs or versions given to `--diff`.

## 7. Plan

Written, in this order: the pool with its abstract specification; the path
check; the log directory; the FILE LIST loop; the orphan walk; the library passes;
the control of a run; the ELF probe; record extraction; the data of a run; the comparison of two.
The theorems cover the safety properties of all of them.

Next: an abstract report, the system as it is at one instant, for a run on a system at rest.
