------------------------------ MODULE ReportDiff ------------------------------
(***************************************************************************)
(* Two analysis runs of a system that changes during each and between the  *)
(* two, and then `pkgcheck --diff` on their reports: what diff_reports     *)
(* says changed, and what the text mode of main prints of it.  Both runs   *)
(* have the same --orphans-root and --exclude, and ldd and nm give the     *)
(* same answer for the same file: the conditions of AnalysisRun are those  *)
(* of either run.                                                          *)
(***************************************************************************)
EXTENDS AnalysisRun

VARIABLES
  reports,     (* The first report, with what its run was asked, its        *)
               (* entries and its histories; << >> during the first run.    *)
  shown        (* What --diff printed: "none" before, then "document" with  *)
               (* --json, else "differences", "same" (No differences        *)
               (* found), "nothing" or "traceback".                         *)

dvars == <<vars, reports, shown>>

DiffInit == Init /\ reports = << >> /\ shown = "none"

(* A run without entries leaves no report.                                 *)
Analyse == (RunStep \/ Change) /\ shown = "none" /\ UNCHANGED <<reports, shown>>

(* Later, with other options perhaps, the program is run again.            *)
RunAgain ==
  /\ phase = "report" /\ reports = << >>
  /\ reports' = <<[report |-> report, asked |-> asked, entries |-> entries,
                   partial |-> partial, was |-> was]>>
  /\ asked' \in Requests
  /\ phase' = "scan" /\ done' = {}
  /\ entries' = << >> /\ found' = << >>
  /\ orphans' = {} /\ broken' = {} /\ undefined' = {}
  /\ since' = AsTheyAre /\ partial' = {}
  /\ was' = Now
  /\ UNCHANGED <<system, shown>>

-----------------------------------------------------------------------------
(* diff_reports.                                                           *)

saved == Head(reports)
Both  == phase = "report" /\ reports # << >>

Occurrences(seq, x) == Cardinality({k \in DOMAIN seq : seq[k] = x})

(* Seeded bug: the listings are compared in the order they are in.         *)
BadSameListing(from, to) == from = to
(* Normalised: sorted by package and binary.                               *)
SameListing(from, to) ==
  \A x \in ToSet(from) \cup ToSet(to) : Occurrences(from, x) = Occurrences(to, x)

(* Seeded bug: what is gone is called added.                               *)
BadGained(from, to) == ToSet(from) \ ToSet(to)
(* added, and with the arguments exchanged removed: per package, as sets.  *)
Gained(from, to) == ToSet(to) \ ToSet(from)

Diff(from, to) ==
  [added    |-> [s \in Status |-> Gained(from.files[s], to.files[s])],
   removed  |-> [s \in Status |-> Gained(to.files[s], from.files[s])],
   orphans  |-> [added |-> to.orphans \ from.orphans, removed |-> from.orphans \ to.orphans],
   replaced |-> (IF SameListing(from.broken_libs, to.broken_libs) THEN {} ELSE {"broken_libs"})
                \cup (IF from.undefined_symbols = to.undefined_symbols
                      THEN {} ELSE {"undefined_symbols"}),
   summary  |-> {key \in DOMAIN to.summary : from.summary[key] # to.summary[key]}]
diff == Diff(saved.report, report)

FilesOf(d)   == UNION {d.added[s] \cup d.removed[s] : s \in Status}
OrphansOf(d) == d.orphans.added \cup d.orphans.removed

-----------------------------------------------------------------------------
(* main: the difference as a document, or category by category as text.    *)

ShowDocument == Both /\ shown = "none" /\ shown' = "document" /\ UNCHANGED <<vars, reports>>

(* A change is printed package by package, which orphans do not have: the  *)
(* list has no items().  The summary is not printed.                       *)
Text(d) ==
  CASE OrphansOf(d) # {}                  -> "traceback"
    [] /\ OrphansOf(d) = {}
       /\ FilesOf(d) # {} \/ d.replaced # {} -> "differences"
    [] OTHER                              -> IF d.summary = {} THEN "same" ELSE "nothing"

ShowText == Both /\ shown = "none" /\ shown' = Text(diff) /\ UNCHANGED <<vars, reports>>

Over == (shown # "none" \/ phase = "nothing") /\ UNCHANGED dvars

DiffNext == Analyse \/ RunAgain \/ ShowDocument \/ ShowText \/ Over

DiffSpec == DiffInit /\ [][DiffNext]_dvars

-----------------------------------------------------------------------------
(* Properties of the difference.                                           *)

Before(p) == {x[1] : x \in saved.was[p]}

(* What --diff says appeared or went away did: nothing it lists was the    *)
(* same for all of both runs.  And it tells every change it can know of: a *)
(* path recorded all the while, of one condition during the first run and  *)
(* of another during the second, goes away and appears accordingly; so     *)
(* does an orphan, if both runs were asked for orphans.  What a report can *)
(* claim wrongly is EveryClaimWasTrue's to say.                            *)
DiffTellsTheChange ==
  Both =>
    LET d == diff IN
    /\ \A s \in Status :
         /\ \A x \in d.added[s] :
              /\ Tellable(s, Conditioned(x[2]))
              /\ x \in ToSet(saved.entries) => Before(x[2]) # {s}
         /\ \A x \in d.removed[s] :
              /\ Tellable(s, Before(x[2]))
              /\ x \in ToSet(entries) => Conditioned(x[2]) # {s}
    /\ \A x \in ToSet(entries) \cap ToSet(saved.entries), s, t \in Conditions :
         Before(x[2]) = {s} /\ Conditioned(x[2]) = {t} /\ s # t =>
           /\ s \in Status => x \in d.removed[s]
           /\ t \in Status => x \in d.added[t]
    /\ "orphans" \in asked \cap saved.asked =>
         \A p \in Paths :
           /\ StayedOrphan(saved.was, saved.partial, saved.entries, p) => p \notin d.orphans.added
           /\ StayedOrphan(was, partial, entries, p) =>
                /\ p \notin d.orphans.removed
                /\ Before(p) \cap OnDisk = {} => p \in d.orphans.added

(* The same entries, in any order, and the same system throughout leave no *)
(* difference between two runs with the same options.                      *)
Unchanged ==
  /\ asked = saved.asked
  /\ \A x \in Packages \X Paths : Occurrences(saved.entries, x) = Occurrences(entries, x)
  /\ \A p \in Paths : saved.was[p] = was[p] /\ \E x \in was[p] : was[p] = {x}
NoDifferenceWithoutChange == Both /\ Unchanged => Text(diff) = "same"

(* README: --diff "diffs two JSON reports (`missing`, `files_backup`, ..., *)
(* `orphans`, `broken_libs`). In text mode it shows `+ added`/`- removed`  *)
(* per package".                                                           *)
DifferencesAreShown == shown # "traceback"
=============================================================================
