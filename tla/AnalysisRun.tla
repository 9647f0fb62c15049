----------------------------- MODULE AnalysisRun -----------------------------
(***************************************************************************)
(* What cli._run makes of its phases: the entries of the scan, a status    *)
(* for each, the orphans, the library problems of the ELF files, and the   *)
(* report that sorts all this by package and counts it.  The phases take   *)
(* minutes, one after the other, on a system that goes on changing: each   *)
(* has what an earlier one found, and looks at the disk as it is later.    *)
(*                                                                         *)
(* What can happen while one thing is looked at is in RecordScan,          *)
(* PathProbe, OrphanScan and LibDeps.  Two of their results go on here: a  *)
(* record may be read in part, and the check of a path that changes under  *)
(* it may say what was never so.                                           *)
(***************************************************************************)
EXTENDS Integers, FiniteSets, Sequences, SequencesExt

CONSTANTS
  Packages,    (* Packages there may be a record of.                        *)
  Paths,       (* Paths they may list.                                      *)
  Contents,    (* What the record of each package may list: sequences of    *)
               (* paths, << >> for no record.                               *)
  Conditions,  (* The conditions a path can be in, see below.               *)
  Requests,    (* What a run may be asked besides the statuses: sets of     *)
               (* "orphans" and "libs".                                     *)
  MaxChanges   (* Bound: changes to the system, and readings cut short.     *)

(* On disk as a plain file, a sound ELF file, one whose libraries are      *)
(* missing, one with undefined symbols; or under another name, unreadable, *)
(* or nowhere.  That is as far as pkgcheck can tell: a file whose ELF      *)
(* probe or ldd fails is plain or sound, one whose missing libraries the   *)
(* owner filter drops is sound, one excluded from the walk or below a      *)
(* directory that cannot be listed is not on disk for the walk.            *)
Elf    == {"sound", "broken", "undefined"}
OnDisk == {"plain"} \cup Elf
Status == {"missing", "backup", "new_pending", "no_access", "error"}

ASSUME AnalysisRunAssumption ==
  /\ Contents \in [Packages -> SUBSET Seq(Paths)]
  /\ Conditions \subseteq OnDisk \cup Status
  /\ MaxChanges \in Nat

VARIABLES
  record,      (* What each package lists.                                  *)
  condition,   (* The condition of each path.                               *)
  asked,       (* What this run was asked for, a member of Requests.        *)
  phase,       (* The phase of the run.                                     *)
  entries,     (* The pairs <<package, path>> of the scan.                  *)
  done,        (* What the phase has looked at: packages, positions, paths. *)
  since,       (* The conditions of each path since verify began, or now.   *)
  partial,     (* History: packages whose record was read in part only.     *)
  found,       (* The condition verify found at each position, or "none".   *)
  orphans,     (* Paths on disk that no entry lists.                        *)
  broken,      (* Positions with missing libraries.                         *)
  undefined,   (* Positions with undefined symbols.                         *)
  was,         (* History: the pairs <<condition, owners>> of each path     *)
               (* during the run.                                           *)
  changes      (* Changes and cuts made, at most MaxChanges.                *)

system  == <<record, condition, changes>>
results == <<entries, found, orphans, broken, undefined>>
vars    == <<system, asked, phase, done, since, partial, results, was>>

Records ==
  {r \in [Packages -> UNION {Contents[k] : k \in Packages}] :
     \A k \in Packages : r[k] \in Contents[k]}

Owners(p) == {k \in Packages : p \in ToSet(record[k])}
Now       == [p \in Paths |-> {<<condition[p], Owners(p)>>}]
AsTheyAre == [p \in Paths |-> {condition[p]}]

Init ==
  /\ record \in Records
  /\ condition \in [Paths -> Conditions]
  /\ changes = 0
  /\ asked \in Requests
  /\ phase = "scan" /\ done = {}
  /\ entries = << >> /\ found = << >>
  /\ orphans = {} /\ broken = {} /\ undefined = {}
  /\ since = AsTheyAre /\ partial = {}
  /\ was = Now

-----------------------------------------------------------------------------
(* The phases.                                                             *)

Positions == DOMAIN entries
PathAt(i) == entries[i][2]
ElfPositions == {i \in Positions : found[i] \in Elf}

(* The place of a position among those of a set, from 1.                   *)
Rank(S, i) == Cardinality({j \in S : j <= i})

(* What each phase looks at, each thing once and in any order.             *)
Items ==
  CASE phase = "scan"         -> Packages
    [] phase = "verify"       -> Positions
    [] phase = "orphans"      -> Paths
    [] phase \in {"ldd", "nm"} -> ElfPositions
    [] OTHER                  -> {}

LookAt(x) ==
  /\ x \in Items \ done
  /\ done' = done \cup {x}
  /\ UNCHANGED <<record, condition, asked, phase, since, was>>
Look(x) == LookAt(x) /\ UNCHANGED <<changes, partial>>

Register(k, lines) ==
  /\ entries' = entries \o [n \in DOMAIN lines |-> <<k, lines[n]>>]
  /\ found' = [i \in DOMAIN entries' |-> "none"]
  /\ UNCHANGED <<orphans, broken, undefined>>

(* One record after the other, each as it is when its turn comes; no       *)
(* record lists nothing.                                                   *)
Scan(k) == phase = "scan" /\ Look(k) /\ Register(k, record[k])

(* Only the first lines of a record, or none: the Python reader passes     *)
(* over it, or ripgrep is ended by a signal.  The last line may be half of *)
(* one, which reads as some other path.                                    *)
ScanInPart(k) ==
  /\ phase = "scan" /\ LookAt(k)
  /\ \E n \in 1..Len(record[k]) :
       \E half \in {<< >>} \cup {<<p>> : p \in Paths \ {record[k][n]}} :
         Register(k, SubSeq(record[k], 1, n - 1) \o half)
  /\ partial' = partial \cup {k}
  /\ changes < MaxChanges /\ changes' = changes + 1

(* What the check and the ELF probe may say of a path that has been in the *)
(* conditions C under them: one of these; that it is lost, if it was       *)
(* renamed between two lstat calls; a file that was on disk and is gone    *)
(* when the probe opens it is no ELF file.                                 *)
Unsettled(C) == (\E c, d \in C : c # d) /\ ~(C \subseteq OnDisk)
Glimpses(C) ==
  C \cup (IF Unsettled(C) THEN {"missing", "backup"} ELSE {})
    \cup (IF Unsettled(C) /\ C \cap OnDisk # {} THEN {"plain"} ELSE {})

(* The check may have begun at any time since the phase did.               *)
Verify(i) ==
  /\ phase = "verify" /\ Look(i)
  /\ \E c \in Glimpses(since[PathAt(i)]) : found' = [found EXCEPT ![i] = c]
  /\ UNCHANGED <<entries, orphans, broken, undefined>>

(* Seeded bug: only what verify found on disk is owned.                    *)
BadOwnedSet == {PathAt(i) : i \in {j \in Positions : found[j] \in OnDisk}}

(* owned_set: every path of the scan, whatever became of it.               *)
OwnedSet == {PathAt(i) : i \in Positions}

Walk(p) ==
  /\ phase = "orphans" /\ Look(p)
  /\ orphans' = IF condition[p] \in OnDisk /\ p \notin OwnedSet THEN orphans \cup {p} ELSE orphans
  /\ UNCHANGED <<entries, found, broken, undefined>>

(* Seeded bug: the results are matched with the entries from the first on, *)
(* not with the ELF files.                                                 *)
BadLdd(i) ==
  /\ phase = "ldd" /\ Look(i)
  /\ broken' = IF condition[PathAt(i)] = "broken"
               THEN broken \cup {Rank(ElfPositions, i)} ELSE broken
  /\ UNCHANGED <<entries, found, orphans, undefined>>

(* The ELF files of verify, wherever they are by now; a file that is gone  *)
(* has no answer and no problem.                                           *)
Ldd(i) ==
  /\ phase = "ldd" /\ Look(i)
  /\ broken' = IF condition[PathAt(i)] = "broken" THEN broken \cup {i} ELSE broken
  /\ UNCHANGED <<entries, found, orphans, undefined>>

Nm(i) ==
  /\ phase = "nm" /\ Look(i)
  /\ undefined' = IF condition[PathAt(i)] = "undefined" THEN undefined \cup {i} ELSE undefined
  /\ UNCHANGED <<entries, found, orphans, broken>>

Order   == <<"scan", "verify", "orphans", "ldd", "nm", "report">>
Applies ==
  {"verify", "report"} \cup (asked \cap {"orphans"})
    \cup (IF "libs" \in asked /\ ElfPositions # {} THEN {"ldd", "nm"} ELSE {})

(* With nothing in the records the run ends without a report.              *)
NextPhase ==
  /\ done = Items
  /\ \E k \in DOMAIN Order, l \in DOMAIN Order :
       /\ Order[k] = phase /\ k < l /\ Order[l] \in Applies
       /\ \A j \in k + 1..l - 1 : Order[j] \notin Applies
       /\ phase' = IF entries = << >> THEN "nothing" ELSE Order[l]
  /\ done' = {}
  /\ since' = AsTheyAre
  /\ UNCHANGED <<system, asked, partial, results, was>>

-----------------------------------------------------------------------------
(* The report.  A category lists pairs in the order of the entries, a pair *)
(* as often as it was recorded; undefined_symbols, a dictionary, only once.*)

Listing(S) ==
  [n \in 1..Cardinality(S) |-> entries[CHOOSE i \in S : Rank(S, i) = n]]

Found(status) == {i \in Positions : found[i] = status}

summary ==
  [key \in Status \cup {"packages", "files", "orphans", "broken_libs", "undefined_symbols"} |->
     CASE key \in Status             -> Cardinality(Found(key))
       [] key = "packages"           -> Cardinality({entries[i][1] : i \in Positions})
       [] key = "files"              -> Len(entries)
       [] key = "orphans"            -> Cardinality(orphans)
       [] key = "broken_libs"        -> Cardinality(broken)
       [] OTHER                      -> Cardinality(undefined)]

report ==
  [files             |-> [status \in Status |-> Listing(Found(status))],
   broken_libs       |-> Listing(broken),
   undefined_symbols |-> {entries[i] : i \in undefined},
   orphans           |-> orphans,
   summary           |-> summary]

-----------------------------------------------------------------------------
(* The system, during a run and between two: packages come and go, files   *)
(* are replaced, removed, renamed, made unreadable.                        *)

Change ==
  /\ changes < MaxChanges
  /\ changes' = changes + 1
  /\ \/ \E k \in Packages : \E c \in Contents[k] :
          c # record[k] /\ record' = [record EXCEPT ![k] = c] /\ UNCHANGED condition
     \/ \E p \in Paths, c \in Conditions :
          c # condition[p] /\ condition' = [condition EXCEPT ![p] = c] /\ UNCHANGED record
  /\ since' = IF phase = "verify" THEN [p \in Paths |-> since[p] \cup AsTheyAre'[p]]
                                 ELSE AsTheyAre'
  /\ was' = IF phase = "report" THEN was ELSE [p \in Paths |-> was[p] \cup Now'[p]]
  /\ UNCHANGED <<asked, phase, done, partial, results>>

RunStep ==
  \/ NextPhase
  \/ \E k \in Packages : Scan(k) \/ ScanInPart(k)
  \/ \E i \in Positions : Verify(i) \/ Ldd(i) \/ Nm(i)
  \/ \E p \in Paths : Walk(p)

Ended == phase \in {"report", "nothing"} /\ UNCHANGED vars

Next == RunStep \/ Change \/ Ended

Spec == Init /\ [][Next]_vars

-----------------------------------------------------------------------------
(* Properties of one run.                                                  *)

(* Type invariant of a run.                                                *)
TypeOK ==
  /\ record \in Records
  /\ condition \in [Paths -> Conditions]
  /\ asked \in Requests
  /\ phase \in {"nothing"} \cup ToSet(Order)
  /\ entries \in Seq(Packages \X Paths)
  /\ found \in [Positions -> OnDisk \cup Status \cup {"none"}]
  /\ orphans \subseteq Paths
  /\ broken \subseteq ElfPositions /\ undefined \subseteq ElfPositions
  /\ since \in [Paths -> SUBSET Conditions] /\ partial \subseteq Packages
  /\ changes \in 0..MaxChanges

Conditioned(p) == {x[1] : x \in was[p]}

(* A status may be told of a path that was in the conditions C: it was in  *)
(* this one, or is said to be lost and was renamed, lost or found.         *)
Tellable(status, C) == status \in C \/ (status \in {"missing", "backup"} /\ Unsettled(C))

(* A package that lists the path p at some instant, or may owe it to half  *)
(* a line.                                                                 *)
Lists(k, p) == k \in partial \/ \E x \in was[p] : k \in x[2]

(* What a finished report lists was so at some instant of the run: the     *)
(* path of each pair was in the condition of its category and recorded by  *)
(* its package, an orphan was on disk, and no package owned it throughout  *)
(* (one may have taken it over from another between the readings of their  *)
(* records).  There are three exceptions: MISSING and BACKUP may be said   *)
(* of a path that was neither but changed its name, a record read in part  *)
(* does not protect its files from being orphans, and may end in half a    *)
(* line.  The summary counts the listings as they are, but for a pair      *)
(* recorded twice, which is two binaries with undefined symbols and one    *)
(* entry of the dictionary.                                                *)
EveryClaimWasTrue ==
  phase = "report" =>
    LET r == report IN
    /\ \A s \in Status : \A x \in ToSet(r.files[s]) :
         Tellable(s, Conditioned(x[2])) /\ Lists(x[1], x[2])
    /\ \A x \in ToSet(r.broken_libs) : "broken" \in Conditioned(x[2])
    /\ \A x \in r.undefined_symbols : "undefined" \in Conditioned(x[2])
    /\ \A p \in r.orphans :
         /\ Conditioned(p) \cap OnDisk # {}
         /\ \A k \in Packages \ partial : \E x \in was[p] : k \notin x[2]
    /\ \A s \in Status : r.summary[s] = Len(r.files[s])
    /\ r.summary["broken_libs"] = Len(r.broken_libs)
    /\ IsInjective(entries) =>
         r.summary["undefined_symbols"] = Cardinality(r.undefined_symbols)

(* All through a run a path was on disk and nobody's, and no half line     *)
(* names it.                                                               *)
Orphan(x) == x[1] \in OnDisk /\ x[2] = {}
StayedOrphan(history, cut, read, p) ==
  (\A x \in history[p] : Orphan(x)) /\ \A k \in cut : <<k, p>> \notin ToSet(read)

(* What stays as it is for the whole run is in the report, in its category *)
(* and under every package that recorded it at the scan, and nowhere else: *)
(* a path of one condition, a file on disk that nobody owned.              *)
SteadyIsReported ==
  phase = "report" =>
    LET r == report IN
    /\ \A i \in Positions, c \in Conditions :
         Conditioned(PathAt(i)) = {c} =>
           /\ \A s \in Status : entries[i] \in ToSet(r.files[s]) <=> s = c
           /\ "libs" \in asked =>
                /\ entries[i] \in ToSet(r.broken_libs) <=> c = "broken"
                /\ entries[i] \in r.undefined_symbols <=> c = "undefined"
    /\ "orphans" \in asked =>
         \A p \in Paths : StayedOrphan(was, partial, entries, p) => p \in r.orphans
=============================================================================
