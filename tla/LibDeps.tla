------------------------------- MODULE LibDeps -------------------------------
(***************************************************************************)
(* --check-libs-deps and --check-libs-symbols: three passes, each a pool   *)
(* of its own that ends before the next begins, over the recorded files    *)
(* the verification found on disk and recognised as ELF.  ldd says which   *)
(* libraries a file does not find; those the package records seem to       *)
(* provide are dropped.  nm collects the symbols the files define; nm      *)
(* again says which symbols a file imports, and those nobody defined are   *)
(* reported.  Files may be removed and put back meanwhile.                 *)
(*                                                                         *)
(* A pool gives each file its own result, in any order (WorkerPool).  A    *)
(* library name is [lib, form, version]: libfoo.so.1.2 has the form "dot", *)
(* libfoo-1.2.so the form "hyphen", both the version <<1, 2>>.  A symbol   *)
(* is kept as nm prints it, [name, mark, version]: of puts@@GLIBC_2.2.5,   *)
(* the default definition of puts, the mark is "@@"; of puts@GLIBC_2.2.5,  *)
(* what programs import and older definitions, it is "@"; of a symbol      *)
(* without a version, the empty string.                                    *)
(***************************************************************************)
EXTENDS Naturals, Sequences

CONSTANTS
  Files,       (* The recorded ELF files.                                   *)
  Vital,       (* Those pkgcheck itself cannot run without.                 *)
  LibNames,    (* Names of libraries.                                       *)
  Recorded,    (* Recorded[f]: {the name of f}, or {} if it is a program.   *)
  Provides,    (* Provides[f]: the names the loader finds thanks to f.      *)
  Needs,       (* Needs[f]: the names ldd lists for f.                      *)
  Stubs,       (* _GLIBC_MERGED_STUBS.                                      *)
  Symbols,     (* Symbols, as nm prints them.                               *)
  Exports,     (* Exports[f]: those nm --defined-only prints of f.          *)
  Imports,     (* Imports[f]: those nm --undefined-only prints of f.        *)
  MaxChanges   (* Bound: removals and restorations during the three passes. *)

ASSUME LibDepsAssumption ==
  /\ LibNames \subseteq [lib : STRING, form : {"dot", "hyphen"}, version : Seq(Nat)]
  /\ Recorded \in [Files -> SUBSET LibNames]
  /\ Provides \in [Files -> SUBSET LibNames]
  /\ Needs \in [Files -> SUBSET LibNames]
  /\ Vital \subseteq Files
  /\ Stubs \subseteq LibNames
  /\ Symbols \subseteq [name : STRING, mark : {"", "@", "@@"}, version : STRING]
  /\ \A s \in Symbols : s.mark = "" => s.version = ""
  /\ Exports \in [Files -> SUBSET Symbols]
  /\ Imports \in [Files -> SUBSET Symbols]
  /\ MaxChanges \in Nat

VARIABLES
  symbols,            (* --check-libs-symbols was given.                    *)
  elf_entries,        (* The files that were on disk when verified.         *)
  stage,              (* "ldd", "collect", "check" or "done".               *)
  left,               (* Files without a result in this stage.              *)
  missing_per_path,   (* missing_per_path[f]: libraries reported for f.     *)
  defined,            (* Symbols some file defines.                         *)
  undefined_by_path,  (* undefined_by_path[f]: symbols reported for f.      *)
  present,            (* The files on disk now.                             *)
  gone,               (* History: files off the disk at some instant.       *)
  seen,               (* History: files on the disk at some instant.        *)
  failed,             (* History: <<stage, file>> whose tool gave no answer.*)
  changes

report == <<missing_per_path, defined, undefined_by_path>>
flow   == <<symbols, elf_entries, stage, left>>
env    == <<present, gone, seen, changes>>
vars   == <<flow, report, failed, env>>

Init ==
  /\ symbols \in BOOLEAN
  /\ present \in {now \in SUBSET Files : Vital \subseteq now}
  /\ elf_entries = present
  /\ stage = IF elf_entries = {} THEN "done" ELSE "ldd"
  /\ left = elf_entries
  /\ missing_per_path = [f \in Files |-> {}]
  /\ defined = {}
  /\ undefined_by_path = [f \in Files |-> {}]
  /\ gone = Files \ present
  /\ seen = present
  /\ failed = {}
  /\ changes = 0

-----------------------------------------------------------------------------
(* The names in the package records, hyphen versions in dot form as well.  *)

Canonical(n) == [n EXCEPT !.form = "dot"]

owner_index == UNION {{n, Canonical(n)} : n \in UNION {Recorded[f] : f \in Files}}

HasLibc == \E n \in owner_index : n.lib = "libc"

(* Seeded bug: the version is not looked at.                               *)
BadSonameMatch(needed, available) == needed.lib = available.lib

(* The same name, or the same library where one has no version or both     *)
(* have the same major one.                                                *)
SonameMatch(needed, available) ==
  \/ needed = available
  \/ /\ needed.lib = available.lib
     /\ needed.form = "dot" /\ available.form = "dot"
     /\ \/ needed.version = << >> \/ available.version = << >>
        \/ Head(needed.version) = Head(available.version)

(* _filter_missing_with_owner.                                             *)
Filtered(missing) ==
  {n \in missing : ~(n \in Stubs /\ HasLibc) /\ ~\E a \in owner_index : SonameMatch(n, a)}

(* find_missing_owner, on what is left after the filter: the recorded      *)
(* names whose package would be the guess; none is None.                   *)
provided_by ==
  [f \in Files |-> [n \in missing_per_path[f] |-> {a \in owner_index : SonameMatch(n, a)}]]

-----------------------------------------------------------------------------
(* The passes.                                                             *)

(* Seeded bug: every line of ldd's output counts.                          *)
BadNotFound(f) == IF f \in present THEN Needs[f] ELSE {}

(* The `not found` lines of ldd; none for a file that is gone.             *)
NotFound(f) ==
  IF f \in present THEN {n \in Needs[f] : ~\E g \in present : n \in Provides[g]} ELSE {}

Answer(here, f) ==
  /\ stage = here
  /\ f \in left
  /\ left' = left \ {f}
  /\ UNCHANGED <<symbols, elf_entries, stage, env>>

Ldd(f) ==
  /\ Answer("ldd", f)
  /\ missing_per_path' = [missing_per_path EXCEPT ![f] = Filtered(NotFound(f))]
  /\ UNCHANGED <<defined, undefined_by_path, failed>>

CollectDefined(f) ==
  /\ Answer("collect", f)
  /\ f \in present
  /\ defined' = defined \cup Exports[f]
  /\ UNCHANGED <<missing_per_path, undefined_by_path, failed>>

(* The names are compared as printed, version and mark included.           *)
CheckUndefined(f) ==
  /\ Answer("check", f)
  /\ undefined_by_path' =
       [undefined_by_path EXCEPT ![f] = IF f \in present THEN Imports[f] \ defined ELSE {}]
  /\ UNCHANGED <<missing_per_path, defined, failed>>

(* The tool cannot run, times out, or fails on the file: the result stays  *)
(* empty.                                                                  *)
NoAnswer(f) ==
  /\ Answer(stage, f)
  /\ failed' = failed \cup {<<stage, f>>}
  /\ UNCHANGED report

Then(next) == stage' = next /\ left' = (IF next = "done" THEN {} ELSE elf_entries)

(* Seeded bugs: no barrier between the passes; a pass over all the files.  *)
BadNextPassEarly ==
  /\ stage # "done" /\ left # elf_entries
  /\ CASE stage = "ldd"     -> Then(IF symbols THEN "collect" ELSE "done")
       [] stage = "collect" -> Then("check")
       [] stage = "check"   -> Then("done")
  /\ UNCHANGED <<symbols, elf_entries, report, failed, env>>
BadNextPassAllFiles ==
  /\ stage = "ldd" /\ left = {}
  /\ stage' = "collect" /\ left' = Files
  /\ UNCHANGED <<symbols, elf_entries, report, failed, env>>

(* The pool of a pass has ended.                                           *)
NextPass ==
  /\ stage # "done" /\ left = {}
  /\ CASE stage = "ldd"     -> Then(IF symbols THEN "collect" ELSE "done")
       [] stage = "collect" -> Then("check")
       [] stage = "check"   -> Then("done")
  /\ UNCHANGED <<symbols, elf_entries, report, failed, env>>

Pass ==
  \/ \E f \in left : Ldd(f) \/ CollectDefined(f) \/ CheckUndefined(f) \/ NoAnswer(f)
  \/ NextPass

-----------------------------------------------------------------------------
(* removepkg, upgradepkg.                                                  *)

Change(now) ==
  /\ stage # "done" /\ changes < MaxChanges
  /\ present' = now
  /\ gone' = gone \cup (Files \ now)
  /\ seen' = seen \cup now
  /\ changes' = changes + 1
  /\ UNCHANGED <<flow, report, failed>>

Remove(f)  == f \in present \ Vital /\ Change(present \ {f})
Restore(f) == f \in Files \ present /\ Change(present \cup {f})

Terminated == stage = "done" /\ UNCHANGED vars

Next ==
  \/ Pass
  \/ \E f \in Files : Remove(f) \/ Restore(f)
  \/ Terminated

Spec == Init /\ [][Next]_vars

-----------------------------------------------------------------------------
(* Properties.                                                             *)

(* Type invariant of the three passes.                                     *)
TypeOK ==
  /\ symbols \in BOOLEAN
  /\ elf_entries \subseteq Files
  /\ stage \in {"ldd", "collect", "check", "done"}
  /\ left \subseteq elf_entries
  /\ missing_per_path \in [Files -> SUBSET LibNames]
  /\ defined \subseteq Symbols
  /\ undefined_by_path \in [Files -> SUBSET Symbols]
  /\ present \subseteq Files /\ gone \subseteq Files /\ seen \subseteq Files
  /\ failed \subseteq {"ldd", "collect", "check"} \X Files
  /\ changes \in 0..MaxChanges

(* A library is reported missing only if every file that provides it was   *)
(* off the disk at some instant of the run.                                *)
NothingFalselyBroken ==
  \A f \in Files : \A n \in missing_per_path[f] :
    n \in Needs[f] /\ \A g \in Files : n \in Provides[g] => g \in gone

(* The import s finds the definition d: a version is required of it only   *)
(* if both have one.                                                       *)
Binds(s, d) ==
  s.name = d.name /\ (s.mark = "" \/ d.mark = "" \/ s.version = d.version)

(* A symbol is reported undefined only if each definition it would bind to *)
(* is in a file that was off the disk at some instant, or on which nm gave *)
(* no answer, or is printed with another mark: a default definition of a   *)
(* symbol with versions never meets an import, the false positive by       *)
(* symbol versioning the README speaks of; plain symbols, and versions     *)
(* that are not the default, have none.                                    *)
NothingFalselyUndefined ==
  \A f \in Files : \A s \in undefined_by_path[f] :
    /\ s \in Imports[f]
    /\ \A g \in Files : \A d \in Exports[g] :
         Binds(s, d) /\ s.mark = d.mark => g \in gone \/ <<"collect", g>> \in failed

LddAnswered(f) == f \notin gone /\ f \notin left /\ <<"ldd", f>> \notin failed

NeverProvided(n) == \A g \in Files : n \in Provides[g] => g \notin seen

(* A library that stays absent is reported for each file that needs it and *)
(* on which ldd answered, unless a record names the library itself without *)
(* a version or with the same major one, or glibc has absorbed it.  (The   *)
(* README has "any `not found` dependency" flagged, with no exception.)    *)
FlaggedUnlessRecorded ==
  \A f \in Files : \A n \in Needs[f] :
    LddAnswered(f) /\ NeverProvided(n) =>
      \/ n \in missing_per_path[f]
      \/ n \in Stubs
      \/ \E g \in Files, a \in LibNames :
           /\ a \in Recorded[g] /\ a.lib = n.lib
           /\ \/ a.version = << >> \/ n.version = << >>
              \/ Head(a.version) = Head(n.version)
=============================================================================
