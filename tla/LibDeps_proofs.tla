---------------------------- MODULE LibDeps_proofs ----------------------------
(* Theorems about LibDeps, for any set of files and any libraries.          *)
EXTENDS LibDeps, TLAPS

(* What the three passes maintain: a file that was not verified, or is not  *)
(* on disk, has been gone; and a file whose symbols are not among those     *)
(* defined has been gone, gave no answer, or is still to be collected.      *)
Absences == Files \ present \subseteq gone /\ Files \ elf_entries \subseteq gone

Accounted(g) == Exports[g] \subseteq defined \/ g \in gone \/ <<"collect", g>> \in failed

Collected ==
  /\ stage = "collect" => \A g \in elf_entries \ left : Accounted(g)
  /\ stage = "check" => \A g \in Files : Accounted(g)
  /\ stage = "done" => left = {}

IInv ==
  /\ TypeOK
  /\ Absences
  /\ Collected
  /\ NothingFalselyBroken
  /\ NothingFalselyUndefined

-----------------------------------------------------------------------------

(* What the proofs use of the assumption on the tables, piece by piece.     *)
LEMMA BoundIsNumber == MaxChanges \in Nat
  BY LibDepsAssumption, Zenon

LEMMA SymbolTables == \A f \in Files : Exports[f] \subseteq Symbols /\ Imports[f] \subseteq Symbols
<1>1. Exports \in [Files -> SUBSET Symbols] /\ Imports \in [Files -> SUBSET Symbols]
  BY LibDepsAssumption, Zenon
<1> QED
  BY <1>1

LEMMA LibraryTables ==
  /\ LibNames \subseteq [lib : STRING, form : {"dot", "hyphen"}, version : Seq(Nat)]
  /\ \A f \in Files : Recorded[f] \subseteq LibNames /\ Needs[f] \subseteq LibNames
<1>1. /\ LibNames \subseteq [lib : STRING, form : {"dot", "hyphen"}, version : Seq(Nat)]
      /\ Recorded \in [Files -> SUBSET LibNames] /\ Needs \in [Files -> SUBSET LibNames]
  BY LibDepsAssumption, Zenon
<1> QED
  BY <1>1

(* The filter only drops libraries.                                         *)
LEMMA FilterDrops == ASSUME NEW missing PROVE Filtered(missing) \subseteq missing
  BY DEF Filtered

(* ldd's answer, at the instant it runs.                                    *)
LEMMA NotFoundHolds ==
  ASSUME TypeOK, Absences, NEW f \in Files, NEW n \in NotFound(f)
  PROVE  n \in LibNames /\ n \in Needs[f] /\ \A g \in Files : n \in Provides[g] => g \in gone
<1>1. n \in Needs[f] /\ ~\E g \in present : n \in Provides[g]
  BY DEF NotFound
<1> QED
  BY <1>1, LibraryTables DEF Absences

LEMMA InitHolds == Init => IInv
<1> SUFFICES ASSUME Init PROVE IInv
  OBVIOUS
<1> USE DEF Init
<1>1. TypeOK
  BY BoundIsNumber DEF TypeOK
<1>2. Absences /\ Collected /\ NothingFalselyBroken /\ NothingFalselyUndefined
  BY DEF Absences, Collected, NothingFalselyBroken, NothingFalselyUndefined
<1> QED
  BY <1>1, <1>2 DEF IInv

(* One file gets its list of missing libraries.                             *)
LEMMA LddKeeps == ASSUME IInv, NEW f \in left, Ldd(f) PROVE IInv'
<1> USE DEF IInv
<1>1. f \in Files
  BY DEF TypeOK
<1>2. missing_per_path' = [missing_per_path EXCEPT ![f] = Filtered(NotFound(f))]
      /\ left' = left \ {f}
      /\ UNCHANGED <<symbols, elf_entries, stage, env, defined, undefined_by_path, failed>>
  BY DEF Ldd, Answer
<1>3. \A n \in Filtered(NotFound(f)) :
         n \in LibNames /\ n \in Needs[f] /\ \A g \in Files : n \in Provides[g] => g \in gone
  BY <1>1, FilterDrops, NotFoundHolds
<1>4. TypeOK'
  BY <1>1, <1>2, <1>3 DEF TypeOK, env
<1>5. stage = "ldd"
  BY DEF Ldd, Answer
<1>6. (Absences /\ Collected)'
  BY <1>2, <1>5 DEF Absences, Collected, env
<1>7. NothingFalselyBroken'
  BY <1>1, <1>2, <1>3 DEF NothingFalselyBroken, TypeOK, env
<1>8. NothingFalselyUndefined'
  BY <1>2 DEF NothingFalselyUndefined, env
<1> QED
  BY <1>4, <1>6, <1>7, <1>8

(* The symbols of one file join those defined.                              *)
LEMMA CollectKeeps == ASSUME IInv, NEW f \in left, CollectDefined(f) PROVE IInv'
<1> USE DEF IInv
<1>1. f \in Files
  BY DEF TypeOK
<1>2. stage = "collect" /\ stage' = stage /\ left' = left \ {f}
      /\ defined' = defined \cup Exports[f]
      /\ UNCHANGED <<symbols, elf_entries, env, missing_per_path, undefined_by_path, failed>>
  BY DEF CollectDefined, Answer
<1>3. TypeOK'
  BY <1>1, <1>2, SymbolTables DEF TypeOK, env
<1>4. Absences' /\ NothingFalselyBroken' /\ NothingFalselyUndefined'
  BY <1>2 DEF Absences, NothingFalselyBroken, NothingFalselyUndefined, env
<1>5. Collected'
  BY <1>2 DEF Collected, Accounted, env
<1> QED
  BY <1>3, <1>4, <1>5

(* An import and a definition it would bind to, printed with the same      *)
(* mark, are the same string.                                               *)
LEMMA SameMark ==
  ASSUME NEW s \in Symbols, NEW d \in Symbols, Binds(s, d), s.mark = d.mark
  PROVE  s = d
<1>1. Symbols \subseteq [name : STRING, mark : {"", "@", "@@"}, version : STRING]
      /\ \A t \in Symbols : t.mark = "" => t.version = ""
  BY LibDepsAssumption, Zenon
<1>2. s.name = d.name /\ s.version = d.version
  BY <1>1, Zenon DEF Binds
<1>3. s \in [name : STRING, mark : {"", "@", "@@"}, version : STRING]
      /\ d \in [name : STRING, mark : {"", "@", "@@"}, version : STRING]
  BY <1>1, Zenon
<1>4. s = [name |-> s.name, mark |-> s.mark, version |-> s.version]
      /\ d = [name |-> d.name, mark |-> d.mark, version |-> d.version]
  BY <1>3, Zenon
<1> QED
  BY <1>2, <1>4, Zenon

(* One file gets its list of undefined symbols.                             *)
LEMMA CheckKeeps == ASSUME IInv, NEW f \in left, CheckUndefined(f) PROVE IInv'
<1> USE DEF IInv
<1> DEFINE new == IF f \in present THEN Imports[f] \ defined ELSE {}
<1>1. f \in Files
  BY DEF TypeOK
<1>2. stage = "check" /\ stage' = stage /\ left' = left \ {f}
      /\ undefined_by_path' = [undefined_by_path EXCEPT ![f] = new]
      /\ UNCHANGED <<symbols, elf_entries, env, missing_per_path, defined, failed>>
  BY DEF CheckUndefined, Answer
<1>3. new \subseteq Symbols /\ new \subseteq Imports[f]
  BY <1>1, SymbolTables
<1>4. TypeOK'
  BY <1>1, <1>2, <1>3 DEF TypeOK, env
<1>5. Absences' /\ Collected' /\ NothingFalselyBroken'
  BY <1>2 DEF Absences, Collected, Accounted, NothingFalselyBroken, env
<1>6. ASSUME NEW s \in new, NEW g \in Files, NEW d \in Exports[g],
             Binds(s, d), s.mark = d.mark
      PROVE  g \in gone \/ <<"collect", g>> \in failed
  <2>1. s \in Symbols /\ d \in Symbols
    BY <1>3, SymbolTables
  <2>2. s = d
    BY <1>6, <2>1, SameMark
  <2> QED
    BY <1>2, <2>2 DEF Collected, Accounted
<1>7. NothingFalselyUndefined'
  <2> HIDE DEF new
  <2>1. \A h \in Files :
          undefined_by_path'[h] = IF h = f THEN new ELSE undefined_by_path[h]
    BY <1>1, <1>2 DEF TypeOK
  <2> QED
    BY <1>2, <1>3, <1>6, <2>1 DEF NothingFalselyUndefined, env
<1> QED
  BY <1>4, <1>5, <1>7

LEMMA NoAnswerKeeps == ASSUME IInv, NEW f \in left, NoAnswer(f) PROVE IInv'
<1> USE DEF IInv
<1>1. f \in Files
  BY DEF TypeOK
<1>2. stage' = stage /\ left' = left \ {f} /\ failed' = failed \cup {<<stage, f>>}
      /\ UNCHANGED <<symbols, elf_entries, env, report>>
  BY DEF NoAnswer, Answer
<1>3. stage \in {"ldd", "collect", "check"}
  BY DEF TypeOK, Collected
<1>4. TypeOK'
  BY <1>1, <1>2, <1>3 DEF TypeOK, env, report
<1>5. Absences' /\ NothingFalselyBroken' /\ NothingFalselyUndefined'
  BY <1>2 DEF Absences, NothingFalselyBroken, NothingFalselyUndefined, env, report
<1>6. Collected'
  BY <1>2, <1>3 DEF Collected, Accounted, env, report
<1> QED
  BY <1>4, <1>5, <1>6

(* The next pass begins with every verified file.                           *)
LEMMA NextPassKeeps == ASSUME IInv, NextPass PROVE IInv'
<1> USE DEF IInv
<1>1. left = {} /\ UNCHANGED <<symbols, elf_entries, report, failed, env>>
  BY DEF NextPass
<1>2. \/ stage = "ldd" /\ stage' = "collect" /\ left' = elf_entries
      \/ stage = "collect" /\ stage' = "check" /\ left' = elf_entries
      \/ stage' = "done" /\ left' = {}
  <2>1. CASE stage = "ldd" /\ symbols
    BY <2>1 DEF NextPass, Then
  <2>2. CASE stage = "ldd" /\ ~symbols
    BY <2>2 DEF NextPass, Then
  <2>3. CASE stage = "collect"
    BY <2>3 DEF NextPass, Then
  <2>4. CASE stage = "check"
    BY <2>4 DEF NextPass, Then
  <2> QED
    BY <2>1, <2>2, <2>3, <2>4 DEF NextPass, TypeOK
<1>3. TypeOK'
  BY <1>1, <1>2 DEF TypeOK, report, env
<1>4. Absences' /\ NothingFalselyBroken' /\ NothingFalselyUndefined'
  BY <1>1 DEF Absences, NothingFalselyBroken, NothingFalselyUndefined, report, env
<1>5. Collected'
  BY <1>1, <1>2 DEF Collected, Accounted, Absences, report, env
<1> QED
  BY <1>3, <1>4, <1>5

(* Files only ever join those that have been gone.                          *)
LEMMA ChangeKeeps == ASSUME IInv, NEW now \in SUBSET Files, Change(now) PROVE IInv'
<1> USE DEF IInv
<1>1. present' = now /\ gone' = gone \cup (Files \ now) /\ seen' = seen \cup now
      /\ changes < MaxChanges /\ changes' = changes + 1
      /\ UNCHANGED <<flow, report, failed>>
  BY DEF Change
<1>2. TypeOK'
  BY <1>1, BoundIsNumber DEF TypeOK, flow, report
<1>3. Absences' /\ Collected'
  BY <1>1 DEF Absences, Collected, Accounted, flow, report
<1>4. NothingFalselyBroken' /\ NothingFalselyUndefined'
  BY <1>1 DEF NothingFalselyBroken, NothingFalselyUndefined, report
<1> QED
  BY <1>2, <1>3, <1>4

LEMMA NextHolds == IInv /\ [Next]_vars => IInv'
<1> SUFFICES ASSUME IInv, [Next]_vars PROVE IInv'
  OBVIOUS
<1>1. CASE \E f \in left : Ldd(f)
  BY <1>1, LddKeeps
<1>2. CASE \E f \in left : CollectDefined(f)
  BY <1>2, CollectKeeps
<1>3. CASE \E f \in left : CheckUndefined(f)
  BY <1>3, CheckKeeps
<1>4. CASE \E f \in left : NoAnswer(f)
  BY <1>4, NoAnswerKeeps
<1>5. CASE NextPass
  BY <1>5, NextPassKeeps
<1>6. CASE \E f \in Files : Remove(f) \/ Restore(f)
  <2>1. PICK f \in Files : Change(present \ {f}) \/ Change(present \cup {f})
    BY <1>6 DEF Remove, Restore
  <2>2. present \ {f} \in SUBSET Files /\ present \cup {f} \in SUBSET Files
    BY DEF IInv, TypeOK
  <2> QED
    BY <2>1, <2>2, ChangeKeeps
<1>7. CASE UNCHANGED vars
  BY <1>7 DEF vars, flow, report, env, IInv, TypeOK, Absences, Collected, Accounted,
              NothingFalselyBroken, NothingFalselyUndefined
<1> QED
  BY <1>1, <1>2, <1>3, <1>4, <1>5, <1>6, <1>7 DEF Next, Pass, Terminated

(* The invariant behind the theorems below: at each step of the passes,    *)
(* absences and missing answers are accounted for.                         *)
THEOREM Inductive == Spec => []IInv
  BY InitHolds, NextHolds, PTL DEF Spec

(* The types of the three passes hold, for any files.                      *)
THEOREM TypeCorrect == Spec => []TypeOK
<1>1. IInv => TypeOK
  BY DEF IInv
<1> QED
  BY <1>1, Inductive, PTL

(* No library is reported missing that was provided all along.             *)
THEOREM BrokenIsReal == Spec => []NothingFalselyBroken
<1>1. IInv => NothingFalselyBroken
  BY DEF IInv
<1> QED
  BY <1>1, Inductive, PTL

(* No symbol is reported undefined for which a file on disk all along has  *)
(* a definition it would bind to, printed with the same mark, if nm        *)
(* answered on that file.                                                  *)
THEOREM UndefinedIsReal == Spec => []NothingFalselyUndefined
<1>1. IInv => NothingFalselyUndefined
  BY DEF IInv
<1> QED
  BY <1>1, Inductive, PTL

(* What _filter_missing_with_owner leaves has no name find_missing_owner    *)
(* could match.                                                             *)
Unmatched(n) == ~\E a \in owner_index : SonameMatch(n, a)
LeftUnmatched == \A f \in Files : \A n \in missing_per_path[f] : Unmatched(n)

LEMMA FilterLeavesUnmatched ==
  ASSUME NEW missing, NEW n \in Filtered(missing) PROVE Unmatched(n)
  BY DEF Filtered, Unmatched

LEMMA NextKeepsUnmatched == TypeOK /\ LeftUnmatched /\ [Next]_vars => LeftUnmatched'
<1> SUFFICES ASSUME TypeOK, LeftUnmatched, [Next]_vars PROVE LeftUnmatched'
  OBVIOUS
<1>1. CASE UNCHANGED missing_per_path
  BY <1>1 DEF LeftUnmatched
<1>2. CASE \E f \in left : Ldd(f)
  <2>1. PICK f \in left :
          missing_per_path' = [missing_per_path EXCEPT ![f] = Filtered(NotFound(f))]
    BY <1>2 DEF Ldd
  <2>2. f \in Files /\ missing_per_path \in [Files -> SUBSET LibNames]
    BY DEF TypeOK
  <2>3. \A g \in Files :
          missing_per_path'[g] = IF g = f THEN Filtered(NotFound(f)) ELSE missing_per_path[g]
    BY <2>1, <2>2
  <2> QED
    BY <2>3, FilterLeavesUnmatched DEF LeftUnmatched
<1>3. CASE ~\E f \in left : Ldd(f)
  BY <1>1, <1>3 DEF Next, Pass, CollectDefined, CheckUndefined, NoAnswer, NextPass, Remove,
                    Restore, Change, Terminated, vars, report
<1> QED
  BY <1>2, <1>3

(* No report ever names the package a missing library is guessed to belong  *)
(* to: `provided_by` is None for each of them, whatever the records hold.   *)
THEOREM NoGuessIsMade ==
  Spec => [](\A f \in Files : \A n \in missing_per_path[f] : provided_by[f][n] = {})
<1> DEFINE NoGuess == \A f \in Files : \A n \in missing_per_path[f] : provided_by[f][n] = {}
<1>1. Init => LeftUnmatched
  BY DEF Init, LeftUnmatched
<1>2. LeftUnmatched => NoGuess
  BY DEF LeftUnmatched, Unmatched, provided_by
<1> HIDE DEF NoGuess
<1>3. Spec => []NoGuess
  BY <1>1, <1>2, NextKeepsUnmatched, TypeCorrect, PTL DEF Spec
<1> QED
  BY <1>3 DEF NoGuess

-----------------------------------------------------------------------------
(* The converse: what is really missing is reported.                        *)

Explained(f, n) ==
  \/ n \in missing_per_path[f]
  \/ n \in Stubs
  \/ \E g \in Files, a \in LibNames :
       /\ a \in Recorded[g] /\ a.lib = n.lib
       /\ \/ a.version = << >> \/ n.version = << >>
          \/ Head(a.version) = Head(n.version)

(* ldd has run on f, f was there, and the tool answered.                    *)
Told(f) == f \notin gone /\ <<"ldd", f>> \notin failed /\ (stage = "ldd" => f \notin left)

Flagged ==
  /\ present \subseteq seen
  /\ \A f \in Files : \A n \in Needs[f] : Told(f) /\ NeverProvided(n) => Explained(f, n)

(* The filter drops a library for one of the reasons of Explained.          *)
LEMMA DroppedForAReason ==
  ASSUME NEW missing, NEW n \in missing, n \in LibNames, n \notin Filtered(missing)
  PROVE  \/ n \in Stubs
         \/ \E g \in Files, a \in LibNames :
              /\ a \in Recorded[g] /\ a.lib = n.lib
              /\ \/ a.version = << >> \/ n.version = << >>
                 \/ Head(a.version) = Head(n.version)
<1> SUFFICES ASSUME n \notin Stubs
             PROVE  \E g \in Files, a \in LibNames :
                      /\ a \in Recorded[g] /\ a.lib = n.lib
                      /\ \/ a.version = << >> \/ n.version = << >>
                         \/ Head(a.version) = Head(n.version)
  OBVIOUS
<1>1. PICK indexed \in owner_index : SonameMatch(n, indexed)
  BY DEF Filtered
<1>2. PICK g \in Files, a \in LibNames : a \in Recorded[g] /\ indexed \in {a, Canonical(a)}
  BY LibraryTables DEF owner_index
<1>3. a \in LibNames /\ a \in [lib : STRING, form : {"dot", "hyphen"}, version : Seq(Nat)]
  BY LibraryTables
<1>4. indexed.lib = a.lib /\ indexed.version = a.version
  BY <1>2, <1>3 DEF Canonical
<1>5. a.lib = n.lib
  BY <1>1, <1>4 DEF SonameMatch
<1>6. a.version = << >> \/ n.version = << >> \/ Head(a.version) = Head(n.version)
  BY <1>1, <1>4 DEF SonameMatch
<1> QED
  BY <1>2, <1>5, <1>6

LEMMA LddKeepsFlagged ==
  ASSUME TypeOK, Absences, Flagged, NEW f \in left, Ldd(f)
  PROVE  Flagged'
<1>1. f \in Files /\ f \in left
  BY DEF TypeOK
<1>2. /\ missing_per_path' = [missing_per_path EXCEPT ![f] = Filtered(NotFound(f))]
      /\ left' = left \ {f} /\ stage' = stage /\ failed' = failed /\ UNCHANGED env
  BY DEF Ldd, Answer
<1>3. \A g \in Files :
        missing_per_path'[g] = IF g = f THEN Filtered(NotFound(f)) ELSE missing_per_path[g]
  BY <1>1, <1>2 DEF TypeOK
<1>4. ASSUME NEW g \in Files, NEW n \in Needs[g], Told(g)', NeverProvided(n)'
      PROVE  Explained(g, n)'
  <2>1. NeverProvided(n) /\ g \notin gone /\ <<"ldd", g>> \notin failed
    BY <1>2, <1>4 DEF NeverProvided, Told, env
  <2>2. CASE g # f
    <3>1. Told(g)
      BY <1>2, <1>4, <2>1, <2>2 DEF Told
    <3> QED
      BY <1>3, <1>4, <2>1, <2>2, <3>1 DEF Flagged, Explained
  <2>3. CASE g = f
    <3>1. n \in NotFound(f)
      BY <1>1, <1>4, <2>1, <2>3 DEF NotFound, Absences, Flagged, NeverProvided, TypeOK
    <3>2. n \in LibNames
      BY <1>4, LibraryTables
    <3>3. n \in Filtered(NotFound(f)) => n \in missing_per_path'[f]
      BY <1>1, <1>3
    <3> QED
      BY <2>3, <3>1, <3>2, <3>3, DroppedForAReason DEF Explained
  <2> QED
    BY <2>2, <2>3
<1>5. (present \subseteq seen)'
  BY <1>2 DEF Flagged, env
<1> QED
  BY <1>4, <1>5 DEF Flagged

(* Every other step tells no less of what has been looked at.               *)
LEMMA OthersKeepFlagged ==
  ASSUME TypeOK, Absences, Flagged, [Next]_vars, ~\E f \in left : Ldd(f)
  PROVE  Flagged'
<1>1. /\ missing_per_path' = missing_per_path
      /\ failed \subseteq failed' /\ gone \subseteq gone' /\ seen \subseteq seen'
      /\ (present \subseteq seen)'
  BY DEF Next, Pass, CollectDefined, CheckUndefined, NoAnswer, NextPass, Remove, Restore,
         Change, Terminated, Answer, vars, flow, report, env, Flagged
<1>2. ASSUME NEW f \in Files, f \notin gone', <<"ldd", f>> \notin failed',
             stage' = "ldd" => f \notin left'
      PROVE  stage = "ldd" => f \notin left
  <2>1. CASE UNCHANGED flow
    BY <1>2, <2>1 DEF flow
  <2>2. CASE \E g \in left : CollectDefined(g) \/ CheckUndefined(g)
    BY <2>2 DEF CollectDefined, CheckUndefined, Answer
  <2>3. CASE \E g \in left : NoAnswer(g)
    <3>1. PICK g \in left : NoAnswer(g)
      BY <2>3
    <3>2. left' = left \ {g} /\ stage' = stage /\ <<stage, g>> \in failed'
      BY <3>1 DEF NoAnswer, Answer
    <3> QED
      BY <1>2, <3>2
  <2>4. CASE NextPass
    BY <2>4 DEF NextPass
  <2> QED
    BY <2>1, <2>2, <2>3, <2>4
    DEF Next, Pass, Remove, Restore, Change, Terminated, vars
<1>3. ASSUME NEW f \in Files, NEW n \in Needs[f], Told(f)', NeverProvided(n)'
      PROVE  Explained(f, n)'
  <2>1. Told(f)
    BY <1>1, <1>2, <1>3 DEF Told
  <2>2. NeverProvided(n)
    BY <1>1, <1>3 DEF NeverProvided
  <2> QED
    BY <1>1, <2>1, <2>2 DEF Flagged, Explained
<1> QED
  BY <1>1, <1>3 DEF Flagged

(* A library that stays absent is reported for every file that needs it    *)
(* and on which ldd answered, but for glibc's stubs and the libraries a    *)
(* record names.                                                           *)
THEOREM MissingIsFlagged == Spec => []FlaggedUnlessRecorded
<1>1. Init => Flagged
  <2> SUFFICES ASSUME Init PROVE Flagged
    OBVIOUS
  <2>1. \A f \in Files : ~Told(f)
    BY DEF Init, Told
  <2> QED
    BY <2>1 DEF Init, Flagged
<1>2. IInv /\ Flagged /\ [Next]_vars => Flagged'
  BY LddKeepsFlagged, OthersKeepFlagged DEF IInv
<1>3. Flagged => FlaggedUnlessRecorded
  BY DEF Flagged, FlaggedUnlessRecorded, Told, LddAnswered, Explained
<1> QED
  BY <1>1, <1>2, <1>3, Inductive, PTL DEF Spec
=============================================================================
