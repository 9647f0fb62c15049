----------------------------- MODULE Runs_proofs -----------------------------
(***************************************************************************)
(* Theorems about the runs of the program.  AnalysisRun and ReportDiff,    *)
(* for any packages, paths, records, options and number of changes made    *)
(* during and between the runs; and CliRun, the invocation around them.    *)
(***************************************************************************)
EXTENDS ReportDiff, CliRun, SequenceTheorems, FunctionTheorems, FiniteSetTheorems, TLAPS

-----------------------------------------------------------------------------
(* The invariant of a run, in parts.                                       *)

Histories == [Paths -> SUBSET (Conditions \X SUBSET Packages)]

(* What has not begun has no result, and what was not asked for never      *)
(* begins.                                                                 *)
NothingEarly ==
  /\ phase \in {"scan", "nothing", "verify"} => orphans = {}
  /\ phase \in {"scan", "nothing", "verify", "orphans"} => broken = {}
  /\ phase \in {"scan", "nothing", "verify", "orphans", "ldd"} => undefined = {}
  /\ "orphans" \notin asked => phase # "orphans" /\ orphans = {}
  /\ "libs" \notin asked => phase \notin {"ldd", "nm"} /\ broken = {} /\ undefined = {}
  /\ phase \notin {"scan", "nothing"} => entries # << >>

(* The history holds what is so now.                                       *)
Remembered ==
  phase # "report" => \A p \in Paths : <<condition[p], Owners(p)>> \in was[p]

(* The conditions since verify began are among those of the whole run.     *)
Lately ==
  phase # "report" => \A p \in Paths : since[p] \subseteq Conditioned(p)

(* A package with an entry for a path owned it at some instant, one that   *)
(* was read and has none did not; unless it was read in part only.         *)
Recorded ==
  \A k \in Packages \ partial, p \in Paths :
    /\ <<k, p>> \in ToSet(entries) => \E x \in was[p] : k \in x[2]
    /\ <<k, p>> \notin ToSet(entries) /\ (phase = "scan" => k \in done)
         => \E x \in was[p] : k \notin x[2]

(* What verify found is what may be seen of a path in these conditions.    *)
Verified ==
  \A i \in Positions :
    /\ found[i] = "none" \/ found[i] \in Glimpses(Conditioned(PathAt(i)))
    /\ phase \notin {"scan", "nothing"} /\ (phase = "verify" => i \in done)
         => found[i] # "none"

Walked ==
  /\ \A p \in orphans : p \notin OwnedSet /\ Conditioned(p) \cap OnDisk # {}
  /\ \A p \in Paths \ OwnedSet :
       /\ "orphans" \in asked /\ Conditioned(p) \subseteq OnDisk
       /\ phase \in {"orphans", "ldd", "nm", "report"} /\ (phase = "orphans" => p \in done)
       => p \in orphans

Linked ==
  /\ \A i \in broken : "broken" \in Conditioned(PathAt(i))
  /\ \A i \in ElfPositions :
       /\ "libs" \in asked /\ Conditioned(PathAt(i)) = {"broken"}
       /\ phase \in {"ldd", "nm", "report"} /\ (phase = "ldd" => i \in done)
       => i \in broken

Resolved ==
  /\ \A i \in undefined : "undefined" \in Conditioned(PathAt(i))
  /\ \A i \in ElfPositions :
       /\ "libs" \in asked /\ Conditioned(PathAt(i)) = {"undefined"}
       /\ phase \in {"nm", "report"} /\ (phase = "nm" => i \in done)
       => i \in undefined

RunInv ==
  /\ TypeOK /\ was \in Histories
  /\ NothingEarly /\ Remembered /\ Lately /\ Recorded /\ Verified
  /\ Walked /\ Linked /\ Resolved

-----------------------------------------------------------------------------
(* Sequences and the order of the phases.                                  *)

LEMMA ConditionsNamed == Conditions \subseteq OnDisk \cup Status /\ "none" \notin Conditions
  BY AnalysisRunAssumption DEF OnDisk, Elf, Status

(* A path that stays as it is is seen as it is; with more conditions there *)
(* is more to be seen.                                                     *)
LEMMA OneGlimpse ==
  ASSUME NEW c PROVE Glimpses({c}) = {c} /\ \A s : Tellable(s, {c}) <=> s = c
  BY DEF Glimpses, Unsettled, Tellable

LEMMA UnsettledStays ==
  ASSUME NEW C, NEW D, C \subseteq D, Unsettled(C) PROVE Unsettled(D)
  BY DEF Unsettled

LEMMA MoreGlimpses ==
  ASSUME NEW C, NEW D, C \subseteq D PROVE Glimpses(C) \subseteq Glimpses(D)
<1>1. Unsettled(C) => Unsettled(D)
  BY UnsettledStays
<1> QED
  BY <1>1 DEF Glimpses

LEMMA GlimpsesNamed ==
  ASSUME NEW C \in SUBSET Conditions, NEW c \in Glimpses(C)
  PROVE  /\ c \in OnDisk \cup Status /\ c # "none"
         /\ c \in Status => Tellable(c, C)
<1>1. c \in C \/ (Unsettled(C) /\ c \in {"missing", "backup", "plain"})
  BY DEF Glimpses
<1>2. "plain" \in OnDisk /\ "plain" \notin Status /\ "none" \notin OnDisk
      /\ {"missing", "backup"} \subseteq Status
  BY DEF OnDisk, Elf, Status
<1>3. c \in OnDisk \cup Status /\ c # "none"
  BY <1>1, <1>2, ConditionsNamed DEF Status
<1>4. c \in Status => Tellable(c, C)
  BY <1>1, <1>2 DEF Tellable
<1> QED
  BY <1>3, <1>4

LEMMA ElementsOf ==
  ASSUME NEW S, NEW s \in Seq(S)
  PROVE  ToSet(s) \subseteq S /\ \A x : x \in ToSet(s) <=> \E i \in 1..Len(s) : s[i] = x
  BY DEF ToSet

LEMMA ElementsOfConcat ==
  ASSUME NEW S, NEW s \in Seq(S), NEW t \in Seq(S)
  PROVE  ToSet(s \o t) = ToSet(s) \cup ToSet(t)
<1> DEFINE u == s \o t
<1>1. /\ u \in Seq(S) /\ Len(s) \in Nat /\ Len(t) \in Nat /\ Len(u) = Len(s) + Len(t)
      /\ \A i \in 1..Len(s) + Len(t) : u[i] = IF i <= Len(s) THEN s[i] ELSE t[i - Len(s)]
  BY ConcatProperties
<1> HIDE DEF u
<1>2. /\ \A x : x \in ToSet(s) <=> \E i \in 1..Len(s) : s[i] = x
      /\ \A x : x \in ToSet(t) <=> \E i \in 1..Len(t) : t[i] = x
      /\ \A x : x \in ToSet(u) <=> \E i \in 1..Len(u) : u[i] = x
  BY <1>1, ElementsOf
<1>3. ASSUME NEW x PROVE x \in ToSet(u) <=> x \in ToSet(s) \/ x \in ToSet(t)
  <2>1. CASE x \in ToSet(u)
    <3>1. PICK i \in 1..Len(u) : u[i] = x
      BY <1>2, <2>1
    <3>2. CASE i <= Len(s)
      BY <1>1, <1>2, <3>1, <3>2
    <3>3. CASE i > Len(s)
      <4>1. i - Len(s) \in 1..Len(t) /\ t[i - Len(s)] = x
        BY <1>1, <3>1, <3>3
      <4> QED
        BY <1>2, <2>1, <4>1
    <3> QED
      BY <1>1, <3>2, <3>3
  <2>2. CASE x \in ToSet(s)
    <3>1. PICK i \in 1..Len(s) : s[i] = x
      BY <1>2, <2>2
    <3>2. i \in 1..Len(u) /\ u[i] = x
      BY <1>1, <3>1
    <3> QED
      BY <1>2, <2>2, <3>2
  <2>3. CASE x \in ToSet(t)
    <3>1. PICK i \in 1..Len(t) : t[i] = x
      BY <1>2, <2>3
    <3>2. PICK j \in Nat : j = i + Len(s)
      BY <1>1
    <3>3. j \in 1..Len(s) + Len(t) /\ ~(j <= Len(s)) /\ j - Len(s) = i
      BY <1>1, <3>2
    <3>4. j \in 1..Len(u) /\ u[j] = x
      BY <1>1, <3>1, <3>3
    <3> QED
      BY <1>2, <2>3, <3>4
  <2> QED
    BY <2>1, <2>2, <2>3
<1> QED
  BY <1>3 DEF u

(* Which phase follows which.                                              *)
LEMMA PhaseFollows ==
  ASSUME NextPhase
  PROVE  /\ done = Items /\ done' = {} /\ since' = AsTheyAre
         /\ UNCHANGED <<system, asked, partial, results, was>>
         /\ \/ entries = << >> /\ phase # "report" /\ phase' = "nothing"
            \/ entries # << >> /\ phase = "scan" /\ phase' = "verify"
            \/ phase = "verify" /\ phase' = "orphans" /\ "orphans" \in asked
            \/ /\ phase \in {"verify", "orphans"} /\ phase' = "ldd" /\ "libs" \in asked
               /\ phase = "verify" => "orphans" \notin asked
            \/ /\ phase \in {"verify", "orphans"} /\ phase' = "report"
               /\ "libs" \in asked => ElfPositions = {}
               /\ phase = "verify" => "orphans" \notin asked
            \/ phase = "ldd" /\ phase' = "nm" /\ "libs" \in asked
            \/ phase = "ldd" /\ phase' = "report" /\ ("libs" \in asked => ElfPositions = {})
            \/ phase = "nm" /\ phase' = "report"
<1>1. PICK k \in 1..6, l \in 1..6 :
         /\ Order[k] = phase /\ k < l /\ Order[l] \in Applies
         /\ \A j \in k + 1..l - 1 : Order[j] \notin Applies
         /\ phase' = IF entries = << >> THEN "nothing" ELSE Order[l]
  BY DEF NextPhase, Order
<1>2. /\ Order[1] = "scan" /\ Order[2] = "verify" /\ Order[3] = "orphans"
      /\ Order[4] = "ldd" /\ Order[5] = "nm" /\ Order[6] = "report"
  BY DEF Order
<1>3. /\ "scan" \notin Applies /\ "verify" \in Applies /\ "report" \in Applies
      /\ "orphans" \in Applies <=> "orphans" \in asked
      /\ "ldd" \in Applies <=> "libs" \in asked /\ ElfPositions # {}
      /\ "nm" \in Applies <=> "libs" \in asked /\ ElfPositions # {}
  BY DEF Applies
<1> QED
  BY <1>1, <1>2, <1>3 DEF NextPhase

-----------------------------------------------------------------------------
(* Every step of a run keeps its invariant.                                *)

(* What the types say of the entries and the records.                      *)
LEMMA TypeFacts ==
  ASSUME RunInv
  PROVE  /\ entries \in Seq(Packages \X Paths)
         /\ Len(entries) \in Nat /\ Positions = 1..Len(entries)
         /\ \A i \in Positions : entries[i] \in Packages \X Paths /\ PathAt(i) \in Paths
         /\ \A k \in Packages : record[k] \in Seq(Paths)
         /\ \A p \in Paths : was[p] \in SUBSET (Conditions \X SUBSET Packages)
         /\ \A p \in Paths : condition[p] \in Conditions /\ Owners(p) \subseteq Packages
         /\ \A i \in Positions : found[i] \in OnDisk \cup Status \cup {"none"}
         /\ \A p \in Paths : Conditioned(p) \subseteq Conditions
<1>1. entries \in Seq(Packages \X Paths)
  BY DEF RunInv, TypeOK
<1>2. Len(entries) \in Nat /\ Positions = 1..Len(entries)
  BY <1>1 DEF Positions
<1>3. \A i \in Positions : entries[i] \in Packages \X Paths
  BY <1>1, <1>2, ElementOfSeq
<1>4. \A k \in Packages : record[k] \in Seq(Paths)
  BY AnalysisRunAssumption DEF RunInv, TypeOK, Records
<1>5. /\ \A p \in Paths : was[p] \in SUBSET (Conditions \X SUBSET Packages)
      /\ \A p \in Paths : Conditioned(p) \subseteq Conditions
  BY DEF RunInv, Histories, Conditioned
<1> QED
  BY <1>1, <1>2, <1>3, <1>4, <1>5 DEF RunInv, TypeOK, PathAt, Owners

(* The owned set holds the paths that a package has an entry for.          *)
LEMMA OwnedHasEntry ==
  ASSUME RunInv, NEW p \in Paths
  PROVE  p \in OwnedSet <=> \E k \in Packages : <<k, p>> \in ToSet(entries)
<1>1. ASSUME p \in OwnedSet PROVE \E k \in Packages : <<k, p>> \in ToSet(entries)
  <2>1. PICK i \in Positions : entries[i][2] = p
    BY <1>1 DEF OwnedSet, PathAt
  <2>2. entries[i] \in Packages \X Paths /\ entries[i] \in ToSet(entries)
    BY <2>1, TypeFacts DEF ToSet, Positions
  <2>3. entries[i] = <<entries[i][1], p>> /\ entries[i][1] \in Packages
    BY <2>1, <2>2
  <2> QED
    BY <2>2, <2>3
<1>2. ASSUME NEW k \in Packages, <<k, p>> \in ToSet(entries) PROVE p \in OwnedSet
  <2>1. PICK i \in Positions : entries[i] = <<k, p>>
    BY <1>2 DEF ToSet, Positions
  <2> QED
    BY <2>1 DEF OwnedSet, PathAt
<1> QED
  BY <1>1, <1>2

LEMMA HistoryBegins ==
  ASSUME record \in Records, condition \in [Paths -> Conditions]
  PROVE  /\ Now \in Histories /\ \A p \in Paths : <<condition[p], Owners(p)>> \in Now[p]
         /\ AsTheyAre \in [Paths -> SUBSET Conditions]
         /\ \A p \in Paths : AsTheyAre[p] = {condition[p]}
  BY DEF Now, Histories, Owners, AsTheyAre

LEMMA InitRunInv == Init => RunInv
<1> SUFFICES ASSUME Init PROVE RunInv
  OBVIOUS
<1>1. /\ entries = << >> /\ Positions = {}
      /\ found \in [Positions -> OnDisk \cup Status \cup {"none"}]
      /\ ToSet(entries) = {} /\ ElfPositions = {}
  BY DEF Init, Positions, ToSet, ElfPositions
<1>2. TypeOK
  BY <1>1, AnalysisRunAssumption, HistoryBegins DEF Init, TypeOK, ToSet, Order
<1>3. was \in Histories /\ Remembered
  BY HistoryBegins DEF Init, Remembered
<1>6. Lately
  <2>1. ASSUME NEW p \in Paths PROVE since[p] \subseteq Conditioned(p)
    <3>1. since[p] = {condition[p]} /\ <<condition[p], Owners(p)>> \in was[p]
      BY HistoryBegins DEF Init
    <3>2. <<condition[p], Owners(p)>>[1] = condition[p]
      OBVIOUS
    <3> QED
      BY <3>1, <3>2 DEF Conditioned
  <2> QED
    BY <2>1 DEF Lately
<1>4. NothingEarly /\ Verified /\ Walked /\ Linked /\ Resolved
  BY <1>1 DEF Init, NothingEarly, Verified, Walked, Linked, Resolved
<1>5. Recorded
  BY <1>1 DEF Init, Recorded
<1> QED
  BY <1>2, <1>3, <1>4, <1>5, <1>6 DEF RunInv

LEMMA NowRemembered ==
  ASSUME RunInv, phase # "report", NEW p \in Paths
  PROVE  condition[p] \in Conditioned(p)
<1>1. PICK x \in was[p] : x = <<condition[p], Owners(p)>>
  BY DEF RunInv, Remembered
<1>2. x[1] = condition[p]
  BY <1>1
<1> QED
  BY <1>1, <1>2 DEF Conditioned

(* A record is read, in full or in part.                                   *)
LEMMA RegisterKeeps ==
  ASSUME RunInv, NEW k \in Packages, NEW lines \in Seq(Paths), phase = "scan",
         Register(k, lines), done' = done \cup {k},
         UNCHANGED <<record, condition, asked, phase, since, was>>,
         changes' \in 0..MaxChanges,
         \/ lines = record[k] /\ partial' = partial
         \/ partial' = partial \cup {k}
  PROVE  RunInv'
<1> DEFINE new == [n \in DOMAIN lines |-> <<k, lines[n]>>]
<1>1. /\ entries' = entries \o new /\ found' = [i \in DOMAIN entries' |-> "none"]
      /\ UNCHANGED <<orphans, broken, undefined>>
  BY DEF Register
<1>2. entries \in Seq(Packages \X Paths)
  BY TypeFacts
<1>3. /\ new \in Seq(Packages \X Paths)
      /\ \A j \in Packages, p \in Paths :
           <<j, p>> \in ToSet(new) <=> j = k /\ p \in ToSet(lines)
  <2>1. DOMAIN lines = 1..Len(lines) /\ Len(lines) \in Nat
    OBVIOUS
  <2>2. \A n \in 1..Len(lines) : lines[n] \in Paths
    OBVIOUS
  <2>3. new = [n \in 1..Len(lines) |-> <<k, lines[n]>>]
    BY <2>1
  <2>4. new \in Seq(Packages \X Paths)
    BY <2>1, <2>2, <2>3
  <2> QED
    BY <2>1, <2>2, <2>4 DEF ToSet
<1> HIDE DEF new
<1>4. /\ entries' \in Seq(Packages \X Paths)
      /\ ToSet(entries') = ToSet(entries) \cup ToSet(new)
  BY <1>1, <1>2, <1>3, ElementsOfConcat, ConcatProperties
<1>5. orphans = {} /\ broken = {} /\ undefined = {}
  BY DEF RunInv, NothingEarly
<1>6. TypeOK'
  BY <1>1, <1>4, <1>5 DEF RunInv, TypeOK, Positions
<1>7. was' \in Histories /\ NothingEarly' /\ Remembered' /\ Lately'
  BY <1>1 DEF RunInv, NothingEarly, Remembered, Lately, Owners, Conditioned
<1>8. Verified'
  BY <1>1 DEF Verified, Positions
<1>9. Walked' /\ Linked' /\ Resolved'
  BY <1>1, <1>5 DEF Walked, Linked, Resolved
<1>10. Recorded'
  <2>0. partial \subseteq partial' /\ (k \notin partial' => lines = record[k])
    OBVIOUS
  <2>1. ASSUME NEW j \in Packages \ partial', NEW p \in Paths, <<j, p>> \in ToSet(entries')
        PROVE  \E x \in was[p] : j \in x[2]
    <3>1. CASE <<j, p>> \in ToSet(entries)
      BY <2>0, <3>1 DEF RunInv, Recorded
    <3>2. CASE <<j, p>> \in ToSet(new)
      <4>1. j \in Owners(p) /\ <<condition[p], Owners(p)>> \in was[p]
        BY <1>3, <2>0, <3>2 DEF RunInv, Remembered, Owners
      <4> QED
        BY <4>1
    <3> QED
      BY <1>4, <2>1, <3>1, <3>2
  <2>2. ASSUME NEW j \in Packages \ partial', NEW p \in Paths,
               <<j, p>> \notin ToSet(entries'), j \in done'
        PROVE  \E x \in was[p] : j \notin x[2]
    <3>1. <<j, p>> \notin ToSet(entries) /\ <<j, p>> \notin ToSet(new)
      BY <1>4, <2>2
    <3>2. CASE j \in done
      BY <2>0, <3>1, <3>2 DEF RunInv, Recorded
    <3>3. CASE j = k
      <4>1. j \notin Owners(p) /\ <<condition[p], Owners(p)>> \in was[p]
        BY <1>3, <2>0, <3>1, <3>3 DEF RunInv, Remembered, Owners
      <4> QED
        BY <4>1
    <3> QED
      BY <2>2, <3>2, <3>3
  <2> QED
    BY <2>1, <2>2 DEF Recorded
<1> QED
  BY <1>6, <1>7, <1>8, <1>9, <1>10 DEF RunInv

LEMMA ScanKeeps ==
  ASSUME RunInv, NEW k \in Packages, Scan(k) \/ ScanInPart(k) PROVE RunInv'
<1>1. /\ phase = "scan" /\ done' = done \cup {k}
      /\ UNCHANGED <<record, condition, asked, phase, since, was>>
  BY DEF Scan, ScanInPart, Look, LookAt
<1>2. record[k] \in Seq(Paths)
  BY TypeFacts
<1>3. changes \in 0..MaxChanges /\ MaxChanges \in Nat
  BY AnalysisRunAssumption DEF RunInv, TypeOK
<1>4. CASE Scan(k)
  <2>1. Register(k, record[k]) /\ changes' = changes /\ partial' = partial
    BY <1>4 DEF Scan, Look
  <2> QED
    BY <1>1, <1>2, <1>3, <2>1, RegisterKeeps
<1>5. CASE ScanInPart(k)
  <2>1. changes' \in 0..MaxChanges /\ partial' = partial \cup {k}
    BY <1>3, <1>5 DEF ScanInPart
  <2>2. PICK n \in 1..Len(record[k]), half \in {<< >>} \cup {<<p>> : p \in Paths} :
          Register(k, SubSeq(record[k], 1, n - 1) \o half)
    BY <1>5 DEF ScanInPart
  <2>3. SubSeq(record[k], 1, n - 1) \in Seq(Paths)
    BY <1>2
  <2>4. half \in Seq(Paths)
    <3>1. ASSUME NEW p \in Paths PROVE <<p>> \in Seq(Paths)
      OBVIOUS
    <3>2. << >> \in Seq(Paths)
      OBVIOUS
    <3> QED
      BY <2>2, <3>1, <3>2
  <2>5. SubSeq(record[k], 1, n - 1) \o half \in Seq(Paths)
    BY <2>3, <2>4, ConcatProperties
  <2> QED
    BY <1>1, <2>1, <2>2, <2>5, RegisterKeeps
<1> QED
  BY <1>4, <1>5

LEMMA VerifyKeeps == ASSUME RunInv, NEW i \in Positions, Verify(i) PROVE RunInv'
<1>1. PICK c \in Glimpses(since[PathAt(i)]) : found' = [found EXCEPT ![i] = c]
  BY DEF Verify
<1>2. /\ phase = "verify" /\ done' = done \cup {i}
      /\ UNCHANGED <<record, condition, changes, asked, phase, since, partial, was>>
      /\ UNCHANGED <<entries, orphans, broken, undefined>>
  BY DEF Verify, Look, LookAt
<1>3. orphans = {} /\ broken = {} /\ undefined = {}
  BY <1>2 DEF RunInv, NothingEarly
<1>4. c \in Glimpses(Conditioned(PathAt(i))) /\ c \in OnDisk \cup Status /\ c # "none"
  <2>1. PathAt(i) \in Paths
    BY TypeFacts
  <2>2. since[PathAt(i)] \subseteq Conditioned(PathAt(i))
    BY <1>2, <2>1 DEF RunInv, Lately
  <2>3. since[PathAt(i)] \in SUBSET Conditions
    BY <2>1 DEF RunInv, TypeOK
  <2> QED
    BY <1>1, <2>2, <2>3, MoreGlimpses, GlimpsesNamed
<1>5. TypeOK'
  BY <1>1, <1>2, <1>3, <1>4 DEF RunInv, TypeOK, Positions
<1>6. was' \in Histories /\ NothingEarly' /\ Remembered' /\ Lately' /\ Recorded'
  BY <1>2 DEF RunInv, NothingEarly, Remembered, Lately, Recorded, Owners, Conditioned
<1>7. Walked' /\ Linked' /\ Resolved'
  BY <1>2, <1>3 DEF Walked, Linked, Resolved
<1>8. Verified'
  <2>1. \A j \in Positions : found'[j] = IF j = i THEN c ELSE found[j]
    BY <1>1 DEF RunInv, TypeOK
  <2>2. \A j \in Positions : PathAt(j)' = PathAt(j) /\ Conditioned(PathAt(j))' = Conditioned(PathAt(j))
    BY <1>2 DEF PathAt, Conditioned
  <2>3. Positions' = Positions
    BY <1>2 DEF Positions
  <2> QED
    BY <1>2, <1>4, <2>1, <2>2, <2>3 DEF RunInv, Verified
<1> QED
  BY <1>5, <1>6, <1>7, <1>8 DEF RunInv

LEMMA WalkKeeps == ASSUME RunInv, NEW p \in Paths, Walk(p) PROVE RunInv'
<1>1. /\ phase = "orphans" /\ done' = done \cup {p}
      /\ orphans' = IF condition[p] \in OnDisk /\ p \notin OwnedSet
                    THEN orphans \cup {p} ELSE orphans
      /\ UNCHANGED <<record, condition, changes, asked, phase, since, partial, was>>
      /\ UNCHANGED <<entries, found, broken, undefined>>
  BY DEF Walk, Look, LookAt
<1>2. broken = {} /\ undefined = {} /\ "orphans" \in asked
  BY <1>1 DEF RunInv, NothingEarly
<1>3. TypeOK'
  BY <1>1, <1>2 DEF RunInv, TypeOK, Positions
<1>4. was' \in Histories /\ NothingEarly' /\ Remembered' /\ Lately' /\ Recorded'
  BY <1>1, <1>2 DEF RunInv, NothingEarly, Remembered, Lately, Recorded, Owners, Conditioned
<1>5. Verified'
  BY <1>1 DEF RunInv, Verified, Positions, PathAt, Conditioned
<1>6. Linked' /\ Resolved'
  BY <1>1, <1>2 DEF Linked, Resolved
<1>7. Walked'
  <2>1. condition[p] \in Conditioned(p)
    BY <1>1, NowRemembered
  <2>2. OwnedSet' = OwnedSet /\ \A q \in Paths : Conditioned(q)' = Conditioned(q)
    BY <1>1 DEF OwnedSet, PathAt, Positions, Conditioned
  <2>3. orphans \subseteq Paths
    BY DEF RunInv, TypeOK
  <2> QED
    BY <1>1, <2>1, <2>2, <2>3 DEF RunInv, Walked
<1> QED
  BY <1>3, <1>4, <1>5, <1>6, <1>7 DEF RunInv

LEMMA LddKeeps == ASSUME RunInv, NEW i \in Positions, Ldd(i) PROVE RunInv'
<1>1. /\ phase = "ldd" /\ i \in ElfPositions /\ done' = done \cup {i}
      /\ broken' = IF condition[PathAt(i)] = "broken" THEN broken \cup {i} ELSE broken
      /\ UNCHANGED <<record, condition, changes, asked, phase, since, partial, was>>
      /\ UNCHANGED <<entries, found, orphans, undefined>>
  BY DEF Ldd, Look, LookAt, Items
<1>2. undefined = {} /\ "libs" \in asked
  BY <1>1 DEF RunInv, NothingEarly
<1>3. /\ Positions' = Positions /\ ElfPositions' = ElfPositions /\ OwnedSet' = OwnedSet
      /\ \A q : Conditioned(q)' = Conditioned(q)
      /\ \A j : PathAt(j)' = PathAt(j)
  BY <1>1 DEF ElfPositions, Positions, OwnedSet, PathAt, Conditioned
<1>4. TypeOK'
  BY <1>1, <1>2, <1>3 DEF RunInv, TypeOK
<1>5. was' \in Histories /\ NothingEarly' /\ Remembered' /\ Lately' /\ Recorded'
  BY <1>1, <1>2 DEF RunInv, NothingEarly, Remembered, Lately, Recorded, Owners, Conditioned
<1>6. Verified' /\ Walked' /\ Resolved'
  BY <1>1, <1>2, <1>3 DEF RunInv, Verified, Walked, Resolved
<1>7. Linked'
  <2>1. PathAt(i) \in Paths /\ condition[PathAt(i)] \in Conditioned(PathAt(i))
    BY <1>1, TypeFacts, NowRemembered
  <2> QED
    BY <1>1, <1>3, <2>1 DEF RunInv, Linked
<1> QED
  BY <1>4, <1>5, <1>6, <1>7 DEF RunInv

LEMMA NmKeeps == ASSUME RunInv, NEW i \in Positions, Nm(i) PROVE RunInv'
<1>1. /\ phase = "nm" /\ i \in ElfPositions /\ done' = done \cup {i}
      /\ undefined' = IF condition[PathAt(i)] = "undefined" THEN undefined \cup {i} ELSE undefined
      /\ UNCHANGED <<record, condition, changes, asked, phase, since, partial, was>>
      /\ UNCHANGED <<entries, found, orphans, broken>>
  BY DEF Nm, Look, LookAt, Items
<1>2. "libs" \in asked
  BY <1>1 DEF RunInv, NothingEarly
<1>3. /\ Positions' = Positions /\ ElfPositions' = ElfPositions /\ OwnedSet' = OwnedSet
      /\ \A q : Conditioned(q)' = Conditioned(q)
      /\ \A j : PathAt(j)' = PathAt(j)
  BY <1>1 DEF ElfPositions, Positions, OwnedSet, PathAt, Conditioned
<1>4. TypeOK'
  BY <1>1, <1>3 DEF RunInv, TypeOK
<1>5. was' \in Histories /\ NothingEarly' /\ Remembered' /\ Lately' /\ Recorded'
  BY <1>1, <1>2 DEF RunInv, NothingEarly, Remembered, Lately, Recorded, Owners, Conditioned
<1>6. Verified' /\ Walked' /\ Linked'
  BY <1>1, <1>3 DEF RunInv, Verified, Walked, Linked
<1>7. Resolved'
  <2>1. PathAt(i) \in Paths /\ condition[PathAt(i)] \in Conditioned(PathAt(i))
    BY <1>1, TypeFacts, NowRemembered
  <2> QED
    BY <1>1, <1>3, <2>1 DEF RunInv, Resolved
<1> QED
  BY <1>4, <1>5, <1>6, <1>7 DEF RunInv

LEMMA NextPhaseKeeps == ASSUME RunInv, NextPhase PROVE RunInv'
<1>1. /\ done = Items /\ done' = {}
      /\ since' = AsTheyAre /\ UNCHANGED <<record, condition, changes, asked, partial, was>>
      /\ UNCHANGED <<entries, found, orphans, broken, undefined>>
  BY PhaseFollows DEF system, results
<1>2. /\ Positions' = Positions /\ ElfPositions' = ElfPositions /\ OwnedSet' = OwnedSet
      /\ \A q : Conditioned(q)' = Conditioned(q)
      /\ \A j : PathAt(j)' = PathAt(j)
  BY <1>1 DEF ElfPositions, Positions, OwnedSet, PathAt, Conditioned
<1>3. entries = << >> => phase \in {"scan", "nothing"}
  BY DEF RunInv, NothingEarly
<1>4. /\ phase = "scan" => done = Packages
      /\ phase = "verify" => done = Positions
      /\ phase = "orphans" => done = Paths
      /\ phase \in {"ldd", "nm"} => done = ElfPositions
  BY <1>1 DEF Items
<1>5. TypeOK'
  <2>1. phase' \in {"nothing"} \cup ToSet(Order)
    BY PhaseFollows DEF ToSet, Order
  <2>2. AsTheyAre \in [Paths -> SUBSET Conditions]
    BY HistoryBegins DEF RunInv, TypeOK
  <2> QED
    BY <1>1, <1>2, <2>1, <2>2 DEF RunInv, TypeOK
<1>6. was' \in Histories
  BY <1>1 DEF RunInv
<1>7. NothingEarly'
  BY <1>1, <1>3, PhaseFollows DEF RunInv, NothingEarly
<1>8. Remembered'
  <2>1. phase # "report"
    BY PhaseFollows
  <2> QED
    BY <1>1, <2>1 DEF RunInv, Remembered, Owners
<1>14. Lately'
  <2>1. ASSUME NEW p \in Paths PROVE AsTheyAre[p] \subseteq Conditioned(p)
    <3>1. phase # "report" /\ AsTheyAre[p] = {condition[p]}
      BY PhaseFollows, HistoryBegins DEF RunInv, TypeOK
    <3> QED
      BY <3>1, NowRemembered
  <2> QED
    BY <1>1, <1>2, <2>1 DEF Lately
<1>9. Recorded'
  BY <1>1, <1>4 DEF RunInv, Recorded
<1>10. Verified'
  BY <1>1, <1>2, <1>3, <1>4, PhaseFollows DEF RunInv, Verified
<1>11. Walked'
  BY <1>1, <1>2, <1>3, <1>4, PhaseFollows DEF RunInv, Walked
<1>12. Linked'
  BY <1>1, <1>2, <1>3, <1>4, PhaseFollows DEF RunInv, Linked
<1>13. Resolved'
  BY <1>1, <1>2, <1>3, <1>4, PhaseFollows DEF RunInv, Resolved
<1> QED
  BY <1>5, <1>6, <1>7, <1>8, <1>9, <1>10, <1>11, <1>12, <1>13, <1>14 DEF RunInv

(* A change only adds to the history.                                      *)
LEMMA HistoryGrows ==
  ASSUME RunInv, Change
  PROVE  /\ was' \in Histories
         /\ phase = "report" => was' = was
         /\ phase # "report" => \A p \in Paths : <<condition[p], Owners(p)>>' \in was'[p]
         /\ \A p \in Paths : was[p] \subseteq was'[p]
         /\ record' \in Records /\ condition' \in [Paths -> Conditions] /\ changes' \in 0..MaxChanges
         /\ since' \in [Paths -> SUBSET Conditions]
         /\ phase # "report" => \A p \in Paths : since'[p] \subseteq Conditioned(p)'
<1>1. was \in Histories /\ record \in Records /\ condition \in [Paths -> Conditions]
      /\ changes \in 0..MaxChanges /\ MaxChanges \in Nat
  BY AnalysisRunAssumption DEF RunInv, TypeOK
<1>2. record' \in Records
  <2>1. CASE UNCHANGED record
    BY <1>1, <2>1
  <2>2. CASE \E k \in Packages : \E c \in Contents[k] : record' = [record EXCEPT ![k] = c]
    <3>1. PICK k \in Packages : \E c \in Contents[k] : record' = [record EXCEPT ![k] = c]
      BY <2>2
    <3>2. PICK c \in Contents[k] : record' = [record EXCEPT ![k] = c]
      BY <3>1
    <3> QED
      BY <1>1, <3>2 DEF Records
  <2> QED
    BY <2>1, <2>2 DEF Change
<1>3. condition' \in [Paths -> Conditions]
  BY <1>1 DEF Change
<1>4. changes' \in 0..MaxChanges
  BY <1>1 DEF Change
<1>5. Now' \in Histories /\ \A p \in Paths : <<condition[p], Owners(p)>>' \in Now'[p]
  BY <1>2, <1>3 DEF Now, Histories, Owners
<1>8. AsTheyAre' \in [Paths -> SUBSET Conditions] /\ \A p \in Paths : AsTheyAre'[p] = {condition'[p]}
  BY <1>3 DEF AsTheyAre
<1>9. since' \in [Paths -> SUBSET Conditions]
      /\ \A p \in Paths : since'[p] \subseteq since[p] \cup {condition'[p]}
  <2>1. since \in [Paths -> SUBSET Conditions]
    BY DEF RunInv, TypeOK
  <2>2. \/ since' = [p \in Paths |-> since[p] \cup AsTheyAre'[p]]
        \/ since' = AsTheyAre'
    BY DEF Change
  <2> QED
    BY <1>8, <2>1, <2>2
<1>6. CASE phase = "report"
  BY <1>1, <1>2, <1>3, <1>4, <1>6, <1>9 DEF Change
<1>7. CASE phase # "report"
  <2>1. was' = [p \in Paths |-> was[p] \cup Now'[p]]
    BY <1>7 DEF Change
  <2>2. was' \in Histories
    BY <1>1, <1>5, <2>1 DEF Histories
  <2>3. \A p \in Paths : was[p] \subseteq was'[p] /\ <<condition[p], Owners(p)>>' \in was'[p]
    BY <1>5, <2>1
  <2>4. ASSUME NEW p \in Paths PROVE since'[p] \subseteq Conditioned(p)'
    <3>1. since[p] \subseteq Conditioned(p)
      BY <1>7 DEF RunInv, Lately
    <3>2. Conditioned(p) \subseteq Conditioned(p)'
      BY <2>3 DEF Conditioned
    <3>3. condition'[p] \in Conditioned(p)'
      <4>1. PICK x \in was'[p] : x = <<condition'[p], Owners(p)'>>
        BY <2>3
      <4>2. x[1] = condition'[p]
        BY <4>1
      <4> QED
        BY <4>1, <4>2 DEF Conditioned
    <3> QED
      BY <1>9, <3>1, <3>2, <3>3
  <2> QED
    BY <1>2, <1>3, <1>4, <1>7, <1>9, <2>2, <2>3, <2>4
<1> QED
  BY <1>6, <1>7

LEMMA ChangeKeeps == ASSUME RunInv, Change PROVE RunInv'
<1>1. /\ UNCHANGED <<asked, phase, done, partial>>
      /\ UNCHANGED <<entries, found, orphans, broken, undefined>>
  BY DEF Change, results
<1>2. /\ Positions' = Positions /\ ElfPositions' = ElfPositions /\ OwnedSet' = OwnedSet
      /\ \A j : PathAt(j)' = PathAt(j)
  BY <1>1 DEF ElfPositions, Positions, OwnedSet, PathAt
<1>3. \A p \in Paths : Conditioned(p) \subseteq Conditioned(p)'
  BY HistoryGrows DEF Conditioned
(* A single condition was the only one before, too.                        *)
<1>4. ASSUME NEW p \in Paths, NEW c, Conditioned(p)' = {c} PROVE Conditioned(p) = {c}
  <2>1. CASE phase = "report"
    BY <1>4, <2>1, HistoryGrows DEF Conditioned
  <2>2. CASE phase # "report"
    BY <1>3, <1>4, <2>2, NowRemembered
  <2> QED
    BY <2>1, <2>2
<1>5. \A i \in Positions : PathAt(i) \in Paths
  BY TypeFacts
<1>6. TypeOK' /\ was' \in Histories
  BY <1>1, <1>2, HistoryGrows DEF RunInv, TypeOK
<1>7. NothingEarly'
  BY <1>1 DEF RunInv, NothingEarly
<1>8. Remembered' /\ Lately'
  BY <1>1, HistoryGrows DEF Remembered, Lately
<1>9. Recorded'
  <2>1. \A k \in Packages, p \in Paths :
          /\ (\E x \in was[p] : k \in x[2]) => \E x \in was'[p] : k \in x[2]
          /\ (\E x \in was[p] : k \notin x[2]) => \E x \in was'[p] : k \notin x[2]
    BY HistoryGrows
  <2> QED
    BY <1>1, <2>1 DEF RunInv, Recorded
<1>10. Verified'
  <2>1. \A i \in Positions : Glimpses(Conditioned(PathAt(i))) \subseteq Glimpses(Conditioned(PathAt(i))')
    BY <1>2, <1>3, <1>5, MoreGlimpses
  <2> QED
    BY <1>1, <1>2, <2>1 DEF RunInv, Verified
<1>11. Walked'
  <2>1. orphans \subseteq Paths
    BY DEF RunInv, TypeOK
  <2> QED
    BY <1>1, <1>2, <1>3, <2>1 DEF RunInv, Walked
<1>12. broken \subseteq Positions /\ undefined \subseteq Positions /\ ElfPositions \subseteq Positions
  BY DEF RunInv, TypeOK, ElfPositions
<1>13. Linked'
  BY <1>1, <1>2, <1>3, <1>4, <1>5, <1>12 DEF RunInv, Linked
<1>14. Resolved'
  BY <1>1, <1>2, <1>3, <1>4, <1>5, <1>12 DEF RunInv, Resolved
<1> QED
  BY <1>6, <1>7, <1>8, <1>9, <1>10, <1>11, <1>13, <1>14 DEF RunInv

LEMMA UntouchedKeeps == ASSUME RunInv, UNCHANGED vars PROVE RunInv'
<1>1. /\ UNCHANGED <<record, condition, changes, asked, phase, done, since, partial, was>>
      /\ UNCHANGED <<entries, found, orphans, broken, undefined>>
  BY DEF vars, system, results
<1>2. /\ Positions' = Positions /\ ElfPositions' = ElfPositions /\ OwnedSet' = OwnedSet
      /\ \A q : Conditioned(q)' = Conditioned(q) /\ Owners(q)' = Owners(q)
      /\ \A j : PathAt(j)' = PathAt(j)
  BY <1>1 DEF ElfPositions, Positions, OwnedSet, PathAt, Conditioned, Owners
<1>3. TypeOK' /\ was' \in Histories
  BY <1>1, <1>2 DEF RunInv, TypeOK
<1>4. NothingEarly' /\ Remembered' /\ Lately' /\ Recorded'
  BY <1>1, <1>2 DEF RunInv, NothingEarly, Remembered, Lately, Recorded
<1>5. Verified' /\ Walked' /\ Linked' /\ Resolved'
  BY <1>1, <1>2 DEF RunInv, Verified, Walked, Linked, Resolved
<1> QED
  BY <1>3, <1>4, <1>5 DEF RunInv

LEMMA RunStepKeeps == ASSUME RunInv, RunStep PROVE RunInv'
  BY ScanKeeps, VerifyKeeps, WalkKeeps, LddKeeps, NmKeeps, NextPhaseKeeps DEF RunStep

(* A second run begins where the system is by then.                        *)
LEMMA RunAgainKeeps == ASSUME RunInv, RunAgain PROVE RunInv'
<1>1. /\ UNCHANGED <<record, condition, changes>> /\ asked' \in Requests
      /\ phase' = "scan" /\ done' = {} /\ entries' = << >> /\ found' = << >>
      /\ orphans' = {} /\ broken' = {} /\ undefined' = {}
      /\ since' = AsTheyAre /\ partial' = {} /\ was' = Now
  BY DEF RunAgain, system
<1>2. /\ Now \in Histories /\ \A p \in Paths : <<condition[p], Owners(p)>> \in Now[p]
      /\ AsTheyAre \in [Paths -> SUBSET Conditions]
      /\ \A p \in Paths : AsTheyAre[p] = {condition[p]}
  BY HistoryBegins DEF RunInv, TypeOK
<1>3. /\ Positions' = {} /\ found' \in [Positions' -> OnDisk \cup Status \cup {"none"}]
      /\ ToSet(entries') = {} /\ ElfPositions' = {}
  BY <1>1 DEF Positions, ToSet, ElfPositions
<1>4. TypeOK'
  BY <1>1, <1>2, <1>3 DEF RunInv, TypeOK, ToSet, Order
<1>5. was' \in Histories /\ Remembered'
  BY <1>1, <1>2 DEF Remembered, Owners
<1>8. Lately'
  <2>1. ASSUME NEW p \in Paths PROVE since'[p] \subseteq Conditioned(p)'
    <3>1. since'[p] = {condition[p]} /\ <<condition[p], Owners(p)>> \in was'[p]
      BY <1>1, <1>2
    <3>2. <<condition[p], Owners(p)>>[1] = condition[p]
      OBVIOUS
    <3> QED
      BY <3>1, <3>2 DEF Conditioned
  <2> QED
    BY <2>1 DEF Lately
<1>6. NothingEarly' /\ Verified' /\ Walked' /\ Linked' /\ Resolved'
  BY <1>1, <1>3 DEF NothingEarly, Verified, Walked, Linked, Resolved
<1>7. Recorded'
  BY <1>1, <1>3 DEF Recorded
<1> QED
  BY <1>4, <1>5, <1>6, <1>7, <1>8 DEF RunInv

LEMMA DiffNextKeepsRunInv == ASSUME RunInv, [DiffNext]_dvars PROVE RunInv'
<1>1. CASE Analyse
  BY <1>1, RunStepKeeps, ChangeKeeps DEF Analyse
<1>2. CASE RunAgain
  BY <1>2, RunAgainKeeps
<1>3. CASE ShowDocument \/ ShowText \/ Over \/ UNCHANGED dvars
  <2>1. UNCHANGED vars
    BY <1>3 DEF ShowDocument, ShowText, Over, dvars
  <2> QED
    BY <2>1, UntouchedKeeps
<1> QED
  BY <1>1, <1>2, <1>3 DEF DiffNext

LEMMA RunInvariant == DiffSpec => []RunInv
<1>1. DiffInit => RunInv
  BY InitRunInv DEF DiffInit
<1>2. RunInv /\ [DiffNext]_dvars => RunInv'
  BY DiffNextKeepsRunInv
<1> QED
  BY <1>1, <1>2, PTL DEF DiffSpec

(* A run keeps its types.                                                  *)
THEOREM TypeCorrect == DiffSpec => []TypeOK
<1>1. RunInv => TypeOK
  BY DEF RunInv
<1> QED
  BY <1>1, RunInvariant, PTL

-----------------------------------------------------------------------------
(* A listing holds the pairs of its positions, each as often as there are  *)
(* positions of it.                                                        *)

LEMMA RankOneToOne ==
  ASSUME NEW S \in SUBSET Int, IsFiniteSet(S)
  PROVE  /\ \A i \in S : Rank(S, i) \in 1..Cardinality(S)
         /\ \A i, j \in S : Rank(S, i) = Rank(S, j) => i = j
         /\ \A n \in 1..Cardinality(S) : \E i \in S : Rank(S, i) = n
<1> DEFINE UpTo(i) == {j \in S : j <= i}
<1>1. ASSUME NEW i \in S
      PROVE  /\ IsFiniteSet(UpTo(i)) /\ Rank(S, i) = Cardinality(UpTo(i))
             /\ Rank(S, i) \in 1..Cardinality(S)
  <2>1. IsFiniteSet(UpTo(i)) /\ Cardinality(UpTo(i)) <= Cardinality(S)
    BY FS_Subset
  <2>2. Cardinality(UpTo(i)) \in Nat /\ Cardinality(S) \in Nat
    BY <2>1, FS_CardinalityType
  <2>3. i \in UpTo(i)
    BY <1>1
  <2>4. Cardinality(UpTo(i)) # 0
    BY <2>1, <2>3, FS_EmptySet
  <2> QED
    BY <2>1, <2>2, <2>4 DEF Rank
<1>2. ASSUME NEW i \in S, NEW j \in S, i < j PROVE Rank(S, i) # Rank(S, j)
  <2>1. UpTo(i) \in SUBSET UpTo(j) /\ j \in UpTo(j) /\ j \notin UpTo(i)
    <3>1. i \in Int /\ j \in Int /\ \A k \in S : k \in Int
      OBVIOUS
    <3>2. \A k \in S : k <= i => k <= j
      BY <1>2, <3>1
    <3>3. j <= j /\ ~(j <= i)
      BY <1>2, <3>1
    <3> QED
      BY <3>2, <3>3
  <2>2. Cardinality(UpTo(i)) # Cardinality(UpTo(j))
    BY <1>1, <2>1, FS_Subset
  <2> QED
    BY <1>1, <2>2
<1>3. ASSUME NEW i \in S, NEW j \in S, Rank(S, i) = Rank(S, j) PROVE i = j
  BY <1>2, <1>3
<1> DEFINE f == [i \in S |-> Rank(S, i)]
<1>4. f \in Injection(S, 1..Cardinality(S))
  <2>1. f \in [S -> 1..Cardinality(S)]
    BY <1>1
  <2>2. \A i, j \in S : f[i] = f[j] => i = j
    BY <1>3
  <2> HIDE DEF f
  <2> QED
    BY <2>1, <2>2, Fun_IsInj
<1>5. Cardinality(S) \in Nat
  BY FS_CardinalityType
<1>6. /\ IsFiniteSet(1..Cardinality(S))
      /\ Cardinality(1..Cardinality(S)) = Cardinality(S)
  BY <1>5, FS_Interval
<1>7. f \in Surjection(S, 1..Cardinality(S))
  <2> HIDE DEF f
  <2> QED
    BY <1>4, <1>6, FS_Injection
<1>8. \A n \in 1..Cardinality(S) : \E i \in S : f[i] = n
  <2> HIDE DEF f
  <2> QED
    BY <1>7, Fun_SurjectionProperties
<1> QED
  BY <1>1, <1>3, <1>8

LEMMA PositionsFinite ==
  ASSUME RunInv, NEW S \in SUBSET Positions
  PROVE  S \in SUBSET Int /\ IsFiniteSet(S) /\ Cardinality(S) \in Nat
<1>1. Positions = 1..Len(entries) /\ Len(entries) \in Nat
  BY TypeFacts
<1>2. IsFiniteSet(Positions)
  BY <1>1, FS_Interval
<1>3. IsFiniteSet(S)
  BY <1>2, FS_Subset
<1> QED
  BY <1>1, <1>3, FS_CardinalityType

LEMMA ListingPlaces ==
  ASSUME RunInv, NEW S \in SUBSET Positions
  PROVE  \E place \in Bijection(1..Cardinality(S), S) :
           Listing(S) = [n \in 1..Cardinality(S) |-> entries[place[n]]]
<1> DEFINE N == 1..Cardinality(S)
           place == [n \in N |-> CHOOSE i \in S : Rank(S, i) = n]
<1>1. /\ \A i \in S : Rank(S, i) \in N
      /\ \A i, j \in S : Rank(S, i) = Rank(S, j) => i = j
      /\ \A n \in N : \E i \in S : Rank(S, i) = n
  BY PositionsFinite, RankOneToOne
<1>2. Listing(S) = [n \in N |-> entries[place[n]]]
  BY DEF Listing
<1>3. \A n \in N : place[n] \in S /\ Rank(S, place[n]) = n
  BY <1>1
<1>4. place \in [N -> S]
  BY <1>3
<1> HIDE DEF N, place
<1>5. \A m, n \in N : place[m] = place[n] => m = n
  BY <1>3
<1>6. \A i \in S : \E n \in N : place[n] = i
  BY <1>1, <1>3
<1>7. place \in Surjection(N, S)
  BY <1>4, <1>6, Fun_IsSurj
<1>8. place \in Bijection(N, S)
  BY <1>4, <1>5, <1>7, Fun_IsBij
<1> QED
  BY <1>2, <1>8 DEF N

LEMMA ListingHolds ==
  ASSUME RunInv, NEW S \in SUBSET Positions
  PROVE  /\ Listing(S) \in Seq(Packages \X Paths)
         /\ Len(Listing(S)) = Cardinality(S)
         /\ ToSet(Listing(S)) = {entries[i] : i \in S}
         /\ \A x : Occurrences(Listing(S), x) = Cardinality({i \in S : entries[i] = x})
<1> DEFINE N == 1..Cardinality(S)
<1>1. PICK place \in Bijection(N, S) : Listing(S) = [n \in N |-> entries[place[n]]]
  BY ListingPlaces
<1>2. /\ place \in [N -> S]
      /\ \A m, n \in N : place[m] = place[n] => m = n
      /\ \A i \in S : \E n \in N : place[n] = i
  <2> HIDE DEF N
  <2>1. place \in Surjection(N, S)
    BY Fun_BijectionProperties
  <2> QED
    BY <2>1, Fun_BijectionProperties, Fun_SurjectionProperties
<1>3. Cardinality(S) \in Nat
  BY PositionsFinite
<1>4. \A n \in N : entries[place[n]] \in Packages \X Paths
  BY <1>2, TypeFacts
<1>5. Listing(S) \in Seq(Packages \X Paths) /\ Len(Listing(S)) = Cardinality(S)
  BY <1>1, <1>3, <1>4
<1> HIDE DEF N
<1>6. DOMAIN Listing(S) = N /\ \A n \in N : Listing(S)[n] = entries[place[n]]
  BY <1>1
<1>7. ToSet(Listing(S)) = {entries[i] : i \in S}
  BY <1>2, <1>6 DEF ToSet
<1>8. ASSUME NEW x
      PROVE  Occurrences(Listing(S), x) = Cardinality({i \in S : entries[i] = x})
  <2> DEFINE A == {n \in N : entries[place[n]] = x}
             B == {i \in S : entries[i] = x}
             f == [n \in A |-> place[n]]
  <2>1. Occurrences(Listing(S), x) = Cardinality(A)
    <3>1. {k \in DOMAIN Listing(S) : Listing(S)[k] = x} = A
      BY <1>6
    <3> QED
      BY <3>1 DEF Occurrences
  <2>2. f \in [A -> B] /\ \A m, n \in A : f[m] = f[n] => m = n
    BY <1>2
  <2>3. \A i \in B : \E n \in A : f[n] = i
    BY <1>2
  <2>4. IsFiniteSet(A)
    <3>1. IsFiniteSet(N)
      BY <1>3, FS_Interval DEF N
    <3> QED
      BY <3>1, FS_Subset
  <2> HIDE DEF A, B, f
  <2>5. f \in Surjection(A, B)
    BY <2>2, <2>3, Fun_IsSurj
  <2>6. f \in Bijection(A, B)
    BY <2>2, <2>5, Fun_IsBij
  <2>7. Cardinality(A) = Cardinality(B)
    <3>1. ExistsBijection(A, B)
      BY <2>6 DEF ExistsBijection
    <3> QED
      BY <2>4, <3>1, FS_Bijection
  <2> QED
    BY <2>1, <2>7 DEF B
<1> QED
  BY <1>5, <1>7, <1>8

-----------------------------------------------------------------------------
(* The report of one run.                                                  *)

LEMMA ReportParts ==
  /\ \A s \in Status : report.files[s] = Listing(Found(s))
  /\ \A s \in Status : report.summary[s] = Cardinality(Found(s))
  /\ report.broken_libs = Listing(broken)
  /\ report.undefined_symbols = {entries[i] : i \in undefined}
  /\ report.orphans = orphans
  /\ report.summary["packages"] = Cardinality({entries[i][1] : i \in Positions})
  /\ report.summary["files"] = Len(entries)
  /\ report.summary["orphans"] = Cardinality(orphans)
  /\ report.summary["broken_libs"] = Cardinality(broken)
  /\ report.summary["undefined_symbols"] = Cardinality(undefined)
  /\ DOMAIN report.summary =
       Status \cup {"packages", "files", "orphans", "broken_libs", "undefined_symbols"}
  BY DEF report, summary, Status

(* The positions that are listed are positions.                            *)
LEMMA ListedPositions ==
  ASSUME RunInv
  PROVE  /\ \A s \in Status : Found(s) \subseteq Positions
         /\ broken \subseteq Positions /\ undefined \subseteq Positions
  BY DEF RunInv, TypeOK, Found, ElfPositions

(* What a run says of a position is so of its path.                        *)
LEMMA ListedWasTrue ==
  ASSUME RunInv
  PROVE  /\ \A s \in Status : \A x \in ToSet(report.files[s]) :
              /\ x \in ToSet(entries)
              /\ Tellable(s, Conditioned(x[2])) /\ Lists(x[1], x[2])
         /\ \A x \in ToSet(report.broken_libs) : "broken" \in Conditioned(x[2])
         /\ \A x \in report.undefined_symbols : "undefined" \in Conditioned(x[2])
<1>1. ASSUME NEW s \in Status, NEW x \in ToSet(report.files[s])
      PROVE  /\ x \in ToSet(entries)
             /\ Tellable(s, Conditioned(x[2])) /\ Lists(x[1], x[2])
  <2>1. ToSet(report.files[s]) = {entries[i] : i \in Found(s)}
    BY ReportParts, ListedPositions, ListingHolds
  <2>2. PICK i \in Found(s) : x = entries[i]
    BY <1>1, <2>1
  <2>3. i \in Positions /\ found[i] = s /\ s # "none"
    BY <2>2 DEF Found, Status
  <2>4. PathAt(i) \in Paths /\ Conditioned(PathAt(i)) \subseteq Conditions
    BY <2>3, TypeFacts
  <2>5. s \in Glimpses(Conditioned(PathAt(i)))
    BY <2>3 DEF RunInv, Verified
  <2>6. Tellable(s, Conditioned(PathAt(i)))
    BY <2>4, <2>5, GlimpsesNamed
  <2>7. x \in ToSet(entries) /\ x \in Packages \X Paths
    BY <2>2, <2>3, TypeFacts DEF ToSet, Positions
  <2>8. x = <<x[1], x[2]>> /\ x[1] \in Packages /\ x[2] \in Paths
    BY <2>7
  <2>9. Lists(x[1], x[2])
    BY <2>7, <2>8 DEF RunInv, Recorded, Lists
  <2> QED
    BY <2>2, <2>6, <2>7, <2>9 DEF PathAt
<1>2. ASSUME NEW x \in ToSet(report.broken_libs) PROVE "broken" \in Conditioned(x[2])
  <2>1. ToSet(report.broken_libs) = {entries[i] : i \in broken}
    BY ReportParts, ListedPositions, ListingHolds
  <2>2. PICK i \in broken : x = entries[i]
    BY <1>2, <2>1
  <2> QED
    BY <2>2 DEF RunInv, Linked, PathAt
<1>3. ASSUME NEW x \in report.undefined_symbols PROVE "undefined" \in Conditioned(x[2])
  <2>1. PICK i \in undefined : x = entries[i]
    BY <1>3, ReportParts
  <2> QED
    BY <2>1 DEF RunInv, Resolved, PathAt
<1> QED
  BY <1>1, <1>2, <1>3

(* What stayed as it is for the whole run is listed.                       *)
LEMMA SteadyIsListed ==
  ASSUME RunInv, phase = "report", NEW i \in Positions, NEW c, Conditioned(PathAt(i)) = {c}
  PROVE  /\ \A s \in Status : entries[i] \in ToSet(report.files[s]) <=> s = c
         /\ "libs" \in asked =>
              /\ entries[i] \in ToSet(report.broken_libs) <=> c = "broken"
              /\ entries[i] \in report.undefined_symbols <=> c = "undefined"
<1>1. found[i] = c
  <2>1. found[i] \in Glimpses({c})
    BY DEF RunInv, Verified
  <2> QED
    BY <2>1, OneGlimpse
<1>2. Conditioned(entries[i][2]) = {c}
  BY DEF PathAt
<1>3. ASSUME NEW s \in Status PROVE entries[i] \in ToSet(report.files[s]) <=> s = c
  <2>1. ToSet(report.files[s]) = {entries[j] : j \in Found(s)}
    BY ReportParts, ListedPositions, ListingHolds
  <2>2. s = c => i \in Found(s)
    BY <1>1 DEF Found
  <2>3. entries[i] \in ToSet(report.files[s]) => Tellable(s, {c})
    BY <1>2, ListedWasTrue
  <2> QED
    BY <2>1, <2>2, <2>3, OneGlimpse
<1>4. c \in {"broken", "undefined"} => i \in ElfPositions
  BY <1>1 DEF ElfPositions, Elf
<1>5. ASSUME "libs" \in asked
      PROVE  entries[i] \in ToSet(report.broken_libs) <=> c = "broken"
  <2>1. ToSet(report.broken_libs) = {entries[j] : j \in broken}
    BY ReportParts, ListedPositions, ListingHolds
  <2>2. c = "broken" => i \in broken
    BY <1>4, <1>5 DEF RunInv, Linked
  <2> QED
    BY <1>2, <2>1, <2>2, ListedWasTrue
<1>6. ASSUME "libs" \in asked
      PROVE  entries[i] \in report.undefined_symbols <=> c = "undefined"
  <2>1. c = "undefined" => i \in undefined
    BY <1>4, <1>6 DEF RunInv, Resolved
  <2> QED
    BY <1>2, <2>1, ReportParts, ListedWasTrue
<1> QED
  BY <1>3, <1>5, <1>6

LEMMA OrphansAre ==
  ASSUME RunInv, phase = "report"
  PROVE  /\ \A p \in report.orphans :
              /\ p \in Paths /\ Conditioned(p) \cap OnDisk # {}
              /\ \A k \in Packages \ partial : \E x \in was[p] : k \notin x[2]
         /\ "orphans" \in asked =>
              \A p \in Paths : StayedOrphan(was, partial, entries, p) => p \in report.orphans
<1>1. report.orphans = orphans /\ orphans \subseteq Paths
  BY ReportParts DEF RunInv, TypeOK
<1>2. ASSUME NEW p \in orphans, NEW k \in Packages \ partial PROVE \E x \in was[p] : k \notin x[2]
  <2>1. p \in Paths /\ p \notin OwnedSet
    BY <1>1, <1>2 DEF RunInv, Walked
  <2>2. <<k, p>> \notin ToSet(entries)
    BY <2>1, OwnedHasEntry
  <2> QED
    BY <2>1, <2>2 DEF RunInv, Recorded
<1>3. ASSUME NEW p \in Paths, "orphans" \in asked, StayedOrphan(was, partial, entries, p)
      PROVE  p \in orphans
  <2>0. Conditioned(p) \subseteq OnDisk /\ \A x \in was[p] : x[2] = {}
    BY <1>3 DEF StayedOrphan, Orphan, Conditioned
  <2>1. ASSUME NEW k \in Packages PROVE <<k, p>> \notin ToSet(entries)
    BY <1>3, <2>0 DEF RunInv, Recorded, StayedOrphan
  <2>2. p \notin OwnedSet
    BY <1>3, <2>1, OwnedHasEntry
  <2> QED
    BY <1>3, <2>0, <2>2 DEF RunInv, Walked
<1> QED
  BY <1>1, <1>2, <1>3 DEF RunInv, Walked

(* With no pair recorded twice, undefined_symbols has as many entries as   *)
(* there are binaries.                                                     *)
LEMMA OnceEach ==
  ASSUME RunInv, IsInjective(entries)
  PROVE  Cardinality(report.undefined_symbols) = Cardinality(undefined)
<1> DEFINE T == {entries[i] : i \in undefined}
           f == [i \in undefined |-> entries[i]]
<1>1. f \in [undefined -> T] /\ \A i, j \in undefined : f[i] = f[j] => i = j
  BY ListedPositions DEF IsInjective, Positions
<1>2. \A x \in T : \E i \in undefined : f[i] = x
  OBVIOUS
<1>3. IsFiniteSet(undefined)
  BY ListedPositions, PositionsFinite
<1> HIDE DEF f, T
<1>4. f \in Surjection(undefined, T)
  BY <1>1, <1>2, Fun_IsSurj
<1>5. f \in Bijection(undefined, T)
  BY <1>1, <1>4, Fun_IsBij
<1>6. ExistsBijection(undefined, T)
  BY <1>5 DEF ExistsBijection
<1>7. Cardinality(T) = Cardinality(undefined)
  BY <1>3, <1>6, FS_Bijection
<1> QED
  BY <1>7, ReportParts DEF T

(* What a finished report claims was so at some instant of its run, but    *)
(* for the loss of a file that was renamed under its check, and what comes *)
(* of a record read in part; and its summary counts what it lists.         *)
THEOREM ClaimsWereTrue == DiffSpec => []EveryClaimWasTrue
<1>1. ASSUME RunInv PROVE EveryClaimWasTrue
  <2> SUFFICES ASSUME phase = "report" PROVE EveryClaimWasTrue
    BY DEF EveryClaimWasTrue
  <2> DEFINE r == report
  <2>1. \A s \in Status : \A x \in ToSet(r.files[s]) :
          Tellable(s, Conditioned(x[2])) /\ Lists(x[1], x[2])
    BY <1>1, ListedWasTrue
  <2>2. \A x \in ToSet(r.broken_libs) : "broken" \in Conditioned(x[2])
    BY <1>1, ListedWasTrue
  <2>3. \A x \in r.undefined_symbols : "undefined" \in Conditioned(x[2])
    BY <1>1, ListedWasTrue
  <2>4. \A p \in r.orphans :
          /\ Conditioned(p) \cap OnDisk # {}
          /\ \A k \in Packages \ partial : \E x \in was[p] : k \notin x[2]
    BY <1>1, OrphansAre
  <2>5. ASSUME NEW s \in Status PROVE r.summary[s] = Len(r.files[s])
    <3>1. Len(Listing(Found(s))) = Cardinality(Found(s))
      BY <1>1, ListedPositions, ListingHolds
    <3> QED
      BY <3>1, ReportParts
  <2>6. r.summary["broken_libs"] = Len(r.broken_libs)
    <3>1. Len(Listing(broken)) = Cardinality(broken)
      BY <1>1, ListedPositions, ListingHolds
    <3> QED
      BY <3>1, ReportParts
  <2>7. IsInjective(entries) =>
          r.summary["undefined_symbols"] = Cardinality(r.undefined_symbols)
    BY <1>1, OnceEach, ReportParts
  <2> HIDE DEF r
  <2> QED
    BY <2>1, <2>2, <2>3, <2>4, <2>5, <2>6, <2>7 DEF EveryClaimWasTrue, r
<1> QED
  BY <1>1, RunInvariant, PTL

(* What stays as it is during a run is reported as it is, and nowhere else.*)
THEOREM SteadyReported == DiffSpec => []SteadyIsReported
<1>1. ASSUME RunInv PROVE SteadyIsReported
  <2> SUFFICES ASSUME phase = "report" PROVE SteadyIsReported
    BY DEF SteadyIsReported
  <2>1. ASSUME NEW i \in Positions, NEW c \in Conditions, Conditioned(PathAt(i)) = {c}
        PROVE  /\ \A s \in Status : entries[i] \in ToSet(report.files[s]) <=> s = c
               /\ "libs" \in asked =>
                    /\ entries[i] \in ToSet(report.broken_libs) <=> c = "broken"
                    /\ entries[i] \in report.undefined_symbols <=> c = "undefined"
    BY <1>1, <2>1, SteadyIsListed
  <2>2. "orphans" \in asked =>
          \A p \in Paths : StayedOrphan(was, partial, entries, p) => p \in report.orphans
    BY <1>1, OrphansAre
  <2> QED
    BY <2>1, <2>2 DEF SteadyIsReported
<1> QED
  BY <1>1, RunInvariant, PTL

-----------------------------------------------------------------------------
(* What a report is worth by itself, once the run that made it is over.    *)

Of(run, p) == {x[1] : x \in run.was[p]}

(* A path it lists was listed by the scan, and its status may be told of   *)
(* it; one that was in one condition only is listed accordingly.           *)
FilesRight(run) ==
  \A s \in Status :
    /\ \A x \in ToSet(run.report.files[s]) : x \in ToSet(run.entries) /\ Tellable(s, Of(run, x[2]))
    /\ \A x \in ToSet(run.entries) : Of(run, x[2]) = {s} => x \in ToSet(run.report.files[s])

OrphansRight(run) ==
  /\ \A p \in run.report.orphans : p \in Paths /\ Of(run, p) \cap OnDisk # {}
  /\ "orphans" \in run.asked =>
       \A p \in Paths :
         StayedOrphan(run.was, run.partial, run.entries, p) => p \in run.report.orphans

(* The positions of a condition; those of a library check, if asked for.   *)
In(run, c)     == {i \in DOMAIN run.entries : Of(run, run.entries[i][2]) = {c}}
InLibs(run, c) == IF "libs" \in run.asked THEN In(run, c) ELSE {}

(* When nothing changed during the run, the report is determined by the    *)
(* entries, the one condition of each path, and what was asked for.        *)
Quiet(run) == \A p \in Paths : \E x \in run.was[p] : run.was[p] = {x}
Determined(run) ==
  /\ \A s \in Status : run.report.summary[s] = Cardinality(In(run, s))
  /\ \A x : Occurrences(run.report.broken_libs, x)
               = Cardinality({i \in InLibs(run, "broken") : run.entries[i] = x})
  /\ run.report.undefined_symbols = {run.entries[i] : i \in InLibs(run, "undefined")}
  /\ run.report.orphans =
       IF "orphans" \in run.asked
       THEN {p \in Paths : /\ Of(run, p) \cap OnDisk # {}
                           /\ \A k \in Packages : <<k, p>> \notin ToSet(run.entries)}
       ELSE {}
  /\ run.report.summary["packages"] = Cardinality({x[1] : x \in ToSet(run.entries)})
  /\ run.report.summary["files"] = Len(run.entries)
  /\ run.report.summary["orphans"] = Cardinality(run.report.orphans)
  /\ run.report.summary["broken_libs"] = Cardinality(InLibs(run, "broken"))
  /\ run.report.summary["undefined_symbols"] = Cardinality(InLibs(run, "undefined"))
  /\ DOMAIN run.report.summary =
       Status \cup {"packages", "files", "orphans", "broken_libs", "undefined_symbols"}

GoodRun(run) ==
  /\ run.entries \in Seq(Packages \X Paths)
  /\ FilesRight(run) /\ OrphansRight(run) /\ (Quiet(run) => Determined(run))

ThisRun ==
  [report |-> report, asked |-> asked, entries |-> entries, partial |-> partial, was |-> was]

LEMMA ThisRunIs ==
  /\ ThisRun.report = report /\ ThisRun.asked = asked
  /\ ThisRun.entries = entries /\ ThisRun.partial = partial /\ ThisRun.was = was
  /\ \A p : Of(ThisRun, p) = Conditioned(p)
  BY DEF ThisRun, Of, Conditioned

LEMMA FilesAreRight == ASSUME RunInv, phase = "report" PROVE FilesRight(ThisRun)
<1>1. ASSUME NEW s \in Status, NEW x \in ToSet(entries), Conditioned(x[2]) = {s}
      PROVE  x \in ToSet(report.files[s])
  <2>1. PICK i \in Positions : x = entries[i]
    BY <1>1 DEF ToSet, Positions
  <2>2. Conditioned(PathAt(i)) = {s}
    BY <1>1, <2>1 DEF PathAt
  <2> QED
    BY <2>1, <2>2, SteadyIsListed
<1> QED
  BY <1>1, ListedWasTrue, ThisRunIs DEF FilesRight

LEMMA OrphansAreRight == ASSUME RunInv, phase = "report" PROVE OrphansRight(ThisRun)
  BY OrphansAre, ThisRunIs DEF OrphansRight

LEMMA QuietPositions ==
  ASSUME RunInv, phase = "report", Quiet(ThisRun)
  PROVE  /\ \A i \in Positions : Conditioned(PathAt(i)) = {found[i]}
         /\ \A c : In(ThisRun, c) = {i \in Positions : found[i] = c}
         /\ broken = InLibs(ThisRun, "broken") /\ undefined = InLibs(ThisRun, "undefined")
<1>1. ASSUME NEW i \in Positions PROVE Conditioned(PathAt(i)) = {found[i]}
  <2>1. PathAt(i) \in Paths
    BY TypeFacts
  <2>2. PICK x \in was[PathAt(i)] : was[PathAt(i)] = {x}
    BY <2>1, ThisRunIs DEF Quiet
  <2>3. Conditioned(PathAt(i)) = {x[1]}
    BY <2>2 DEF Conditioned
  <2>4. found[i] \in Glimpses(Conditioned(PathAt(i)))
    BY DEF RunInv, Verified
  <2> QED
    BY <2>3, <2>4, OneGlimpse
<1>2. \A c : In(ThisRun, c) = {i \in Positions : found[i] = c}
  <2>1. \A i \in Positions : Of(ThisRun, ThisRun.entries[i][2]) = {found[i]}
    BY <1>1, ThisRunIs DEF PathAt
  <2>2. DOMAIN ThisRun.entries = Positions
    BY ThisRunIs DEF Positions
  <2> QED
    BY <2>1, <2>2 DEF In
<1>3. broken \subseteq Positions /\ undefined \subseteq Positions
  BY ListedPositions
<1>4. CASE "libs" \notin asked
  BY <1>1, <1>2, <1>4, ThisRunIs DEF InLibs, RunInv, NothingEarly
<1>5. CASE "libs" \in asked
  <2>1. \A i \in Positions : i \in broken <=> found[i] = "broken"
    BY <1>1, <1>3, <1>5 DEF RunInv, Linked, ElfPositions, Elf
  <2>2. \A i \in Positions : i \in undefined <=> found[i] = "undefined"
    BY <1>1, <1>3, <1>5 DEF RunInv, Resolved, ElfPositions, Elf
  <2> QED
    BY <1>2, <1>3, <1>5, <2>1, <2>2, ThisRunIs DEF InLibs
<1> QED
  BY <1>1, <1>2, <1>4, <1>5

LEMMA QuietIsDetermined ==
  ASSUME RunInv, phase = "report", Quiet(ThisRun) PROVE Determined(ThisRun)
<1>1. \A s \in Status : report.summary[s] = Cardinality(In(ThisRun, s))
  <2>1. \A s \in Status : Found(s) = In(ThisRun, s)
    BY QuietPositions DEF Found
  <2> QED
    BY <2>1, ReportParts
<1>2. \A x : Occurrences(report.broken_libs, x)
               = Cardinality({i \in InLibs(ThisRun, "broken") : entries[i] = x})
  <2>1. \A x : Occurrences(Listing(broken), x) = Cardinality({i \in broken : entries[i] = x})
    BY ListedPositions, ListingHolds
  <2> QED
    BY <2>1, ReportParts, QuietPositions
<1>3. report.orphans =
       IF "orphans" \in asked
       THEN {p \in Paths : /\ Conditioned(p) \cap OnDisk # {}
                           /\ \A k \in Packages : <<k, p>> \notin ToSet(entries)}
       ELSE {}
  <2>1. orphans \subseteq Paths /\ report.orphans = orphans
    BY ReportParts DEF RunInv, TypeOK
  <2>2. CASE "orphans" \notin asked
    BY <2>1, <2>2 DEF RunInv, NothingEarly
  <2>3. CASE "orphans" \in asked
    <3>1. ASSUME NEW p \in Paths, Conditioned(p) \cap OnDisk # {} PROVE Conditioned(p) \subseteq OnDisk
      <4>1. PICK x \in was[p] : was[p] = {x}
        BY ThisRunIs DEF Quiet
      <4>2. Conditioned(p) = {x[1]}
        BY <4>1 DEF Conditioned
      <4> QED
        BY <3>1, <4>2
    <3>2. \A p \in Paths :
            p \in orphans <=> p \notin OwnedSet /\ Conditioned(p) \cap OnDisk # {}
      BY <2>3, <3>1 DEF RunInv, Walked
    <3>3. \A p \in Paths :
            p \notin OwnedSet <=> \A k \in Packages : <<k, p>> \notin ToSet(entries)
      BY OwnedHasEntry
    <3> QED
      BY <2>1, <2>3, <3>2, <3>3
  <2> QED
    BY <2>2, <2>3
<1>4. {entries[i][1] : i \in Positions} = {x[1] : x \in ToSet(entries)}
  BY DEF ToSet, Positions
<1>5. PICK run : run = ThisRun
  OBVIOUS
<1>6. /\ run.report = report /\ run.asked = asked /\ run.entries = entries
      /\ \A p : Of(run, p) = Conditioned(p)
  BY <1>5, ThisRunIs
<1>7. /\ \A s \in Status : run.report.summary[s] = Cardinality(In(run, s))
      /\ \A x : Occurrences(run.report.broken_libs, x)
                   = Cardinality({i \in InLibs(run, "broken") : run.entries[i] = x})
  BY <1>1, <1>2, <1>5, <1>6
<1>8. run.report.undefined_symbols = {run.entries[i] : i \in InLibs(run, "undefined")}
  BY <1>5, <1>6, ReportParts, QuietPositions
<1>9. run.report.orphans =
       IF "orphans" \in run.asked
       THEN {p \in Paths : /\ Of(run, p) \cap OnDisk # {}
                           /\ \A k \in Packages : <<k, p>> \notin ToSet(run.entries)}
       ELSE {}
  <2> DEFINE Unowned == {p \in Paths : /\ Conditioned(p) \cap OnDisk # {}
                                      /\ \A k \in Packages : <<k, p>> \notin ToSet(entries)}
  <2>1. Unowned = {p \in Paths : /\ Of(run, p) \cap OnDisk # {}
                                 /\ \A k \in Packages : <<k, p>> \notin ToSet(run.entries)}
    BY <1>6
  <2>2. run.report.orphans = IF "orphans" \in run.asked THEN Unowned ELSE {}
    BY <1>3, <1>6
  <2> HIDE DEF Unowned
  <2> QED
    BY <2>1, <2>2
<1>10. /\ run.report.summary["packages"] = Cardinality({x[1] : x \in ToSet(run.entries)})
       /\ run.report.summary["files"] = Len(run.entries)
       /\ run.report.summary["orphans"] = Cardinality(run.report.orphans)
  BY <1>4, <1>6, ReportParts
<1>11. /\ run.report.summary["broken_libs"] = Cardinality(InLibs(run, "broken"))
       /\ run.report.summary["undefined_symbols"] = Cardinality(InLibs(run, "undefined"))
       /\ DOMAIN run.report.summary =
            Status \cup {"packages", "files", "orphans", "broken_libs", "undefined_symbols"}
  BY <1>5, <1>6, ReportParts, QuietPositions
<1>12. Determined(run)
  BY ONLY <1>7, <1>8, <1>9, <1>10, <1>11 DEF Determined
<1> QED
  BY <1>5, <1>12

LEMMA FinishedIsGood == ASSUME RunInv, phase = "report" PROVE GoodRun(ThisRun)
<1>1. ThisRun.entries \in Seq(Packages \X Paths)
  BY ThisRunIs, TypeFacts
<1> QED
  BY <1>1, FilesAreRight, OrphansAreRight, QuietIsDetermined DEF GoodRun

(* The first report stays what it was.                                     *)
SavedGood == reports # << >> => GoodRun(saved)
DiffInv   == RunInv /\ SavedGood

LEMMA DiffNextKeeps == ASSUME DiffInv, [DiffNext]_dvars PROVE DiffInv'
<1>1. RunInv'
  BY DiffNextKeepsRunInv DEF DiffInv
<1>2. CASE UNCHANGED reports
  BY <1>1, <1>2 DEF DiffInv, SavedGood, saved
<1>3. CASE RunAgain
  <2>1. reports' = <<ThisRun>> /\ phase = "report"
    BY <1>3 DEF RunAgain, ThisRun
  <2>2. GoodRun(ThisRun)
    BY <2>1, FinishedIsGood DEF DiffInv
  <2>3. saved' = ThisRun
    BY <2>1 DEF saved
  <2> QED
    BY <1>1, <2>2, <2>3 DEF DiffInv, SavedGood
<1> QED
  BY <1>2, <1>3 DEF DiffNext, Analyse, ShowDocument, ShowText, Over, dvars

LEMMA DiffInvariant == DiffSpec => []DiffInv
<1>1. DiffInit => DiffInv
  BY InitRunInv DEF DiffInit, DiffInv, SavedGood
<1>2. DiffInv /\ [DiffNext]_dvars => DiffInv'
  BY DiffNextKeeps
<1> QED
  BY <1>1, <1>2, PTL DEF DiffSpec

-----------------------------------------------------------------------------
(* What --diff says of two reports.                                        *)

LEMMA DiffParts ==
  /\ \A s \in Status :
       /\ diff.added[s] = ToSet(report.files[s]) \ ToSet(saved.report.files[s])
       /\ diff.removed[s] = ToSet(saved.report.files[s]) \ ToSet(report.files[s])
  /\ diff.orphans.added = report.orphans \ saved.report.orphans
  /\ diff.orphans.removed = saved.report.orphans \ report.orphans
  BY DEF diff, Diff, Gained

(* The two reports a difference is made of.                                *)
LEMMA BothAreGood ==
  ASSUME DiffInv, Both
  PROVE  /\ GoodRun(saved) /\ GoodRun(ThisRun)
         /\ \A p : Before(p) = Of(saved, p) /\ Conditioned(p) = Of(ThisRun, p)
<1>1. phase = "report" /\ reports # << >>
  BY DEF Both
<1>2. GoodRun(saved) /\ GoodRun(ThisRun)
  BY <1>1, FinishedIsGood DEF DiffInv, SavedGood
<1> QED
  BY <1>2, ThisRunIs DEF Before, Of

(* What --diff says changed did, and what changed for good it tells.       *)
THEOREM DiffTells == DiffSpec => []DiffTellsTheChange
<1>1. ASSUME DiffInv PROVE DiffTellsTheChange
  <2> SUFFICES ASSUME Both PROVE DiffTellsTheChange
    BY DEF DiffTellsTheChange
  <2>1. /\ FilesRight(saved) /\ OrphansRight(saved)
        /\ \A p : Before(p) = Of(saved, p)
    BY <1>1, BothAreGood DEF GoodRun
  <2>2. \A s \in Status :
          /\ \A x \in ToSet(report.files[s]) :
               x \in ToSet(entries) /\ Tellable(s, Conditioned(x[2]))
          /\ \A x \in ToSet(entries) : Conditioned(x[2]) = {s} => x \in ToSet(report.files[s])
    BY <1>1, BothAreGood, ThisRunIs DEF GoodRun, FilesRight
  <2>3. \A s \in Status :
          /\ \A x \in ToSet(saved.report.files[s]) :
               x \in ToSet(saved.entries) /\ Tellable(s, Before(x[2]))
          /\ \A x \in ToSet(saved.entries) :
               Before(x[2]) = {s} => x \in ToSet(saved.report.files[s])
    BY <2>1 DEF FilesRight
  <2>4. ASSUME NEW s \in Status
        PROVE  /\ \A x \in diff.added[s] :
                    /\ Tellable(s, Conditioned(x[2]))
                    /\ x \in ToSet(saved.entries) => Before(x[2]) # {s}
               /\ \A x \in diff.removed[s] :
                    /\ Tellable(s, Before(x[2]))
                    /\ x \in ToSet(entries) => Conditioned(x[2]) # {s}
    BY <2>2, <2>3, DiffParts
  <2>5. ASSUME NEW x \in ToSet(entries) \cap ToSet(saved.entries),
               NEW s \in Conditions, NEW t \in Conditions,
               Before(x[2]) = {s}, Conditioned(x[2]) = {t}, s # t
        PROVE  /\ s \in Status => x \in diff.removed[s]
               /\ t \in Status => x \in diff.added[t]
    <3>0. /\ Tellable(s, Conditioned(x[2])) <=> s = t
          /\ Tellable(t, Before(x[2])) <=> s = t
      <4>1. Tellable(s, {t}) <=> s = t
        BY OneGlimpse
      <4>2. Tellable(t, {s}) <=> t = s
        BY OneGlimpse
      <4> QED
        BY <2>5, <4>1, <4>2
    <3>1. ASSUME s \in Status PROVE x \in diff.removed[s]
      <4>1. x \in ToSet(saved.report.files[s]) /\ x \notin ToSet(report.files[s])
        BY <2>2, <2>3, <2>5, <3>1, <3>0
      <4> QED
        BY <3>1, <4>1, DiffParts
    <3>2. ASSUME t \in Status PROVE x \in diff.added[t]
      <4>1. x \in ToSet(report.files[t]) /\ x \notin ToSet(saved.report.files[t])
        BY <2>2, <2>3, <2>5, <3>2, <3>0
      <4> QED
        BY <3>2, <4>1, DiffParts
    <3> QED
      BY <3>1, <3>2
  <2>6. ASSUME "orphans" \in asked \cap saved.asked, NEW p \in Paths
        PROVE  /\ StayedOrphan(saved.was, saved.partial, saved.entries, p)
                    => p \notin diff.orphans.added
               /\ StayedOrphan(was, partial, entries, p) =>
                    /\ p \notin diff.orphans.removed
                    /\ Before(p) \cap OnDisk = {} => p \in diff.orphans.added
    <3>1. StayedOrphan(saved.was, saved.partial, saved.entries, p) => p \in saved.report.orphans
      BY <2>1, <2>6 DEF OrphansRight
    <3>2. StayedOrphan(was, partial, entries, p) => p \in report.orphans
      BY <1>1, <2>6, BothAreGood, ThisRunIs DEF GoodRun, OrphansRight
    <3>3. Before(p) \cap OnDisk = {} => p \notin saved.report.orphans
      BY <2>1 DEF OrphansRight
    <3> QED
      BY <3>1, <3>2, <3>3, DiffParts
  <2> QED
    BY <2>4, <2>5, <2>6 DEF DiffTellsTheChange
<1> QED
  BY <1>1, DiffInvariant, PTL

-----------------------------------------------------------------------------
(* Two sequences that hold everything equally often have as many positions *)
(* of any kind.                                                            *)

Within(s, A) == {i \in DOMAIN s : s[i] \in A}

LEMMA EquallyMany ==
  ASSUME NEW S, NEW d \in Seq(S), NEW e \in Seq(S), NEW A,
         \A x \in S : Occurrences(d, x) = Occurrences(e, x)
  PROVE  Cardinality(Within(d, A)) = Cardinality(Within(e, A))
<1> DEFINE D == {i \in DOMAIN d : d[i] \in A}
           E == {i \in DOMAIN e : e[i] \in A}
           At(s, x) == {i \in DOMAIN s : s[i] = x}
<1>1. /\ DOMAIN d = 1..Len(d) /\ Len(d) \in Nat /\ \A i \in DOMAIN d : d[i] \in S
      /\ DOMAIN e = 1..Len(e) /\ Len(e) \in Nat /\ \A i \in DOMAIN e : e[i] \in S
  BY ElementOfSeq
<1>2. IsFiniteSet(DOMAIN d) /\ IsFiniteSet(DOMAIN e)
  BY <1>1, FS_Interval
<1>3. ASSUME NEW x \in S PROVE Bijection(At(d, x), At(e, x)) # {}
  <2>1. IsFiniteSet(At(d, x)) /\ IsFiniteSet(At(e, x))
    BY <1>2, FS_Subset
  <2>2. Cardinality(At(d, x)) = Cardinality(At(e, x))
    BY DEF Occurrences
  <2>3. ExistsBijection(At(d, x), At(e, x))
    BY <2>1, <2>2, FS_SameCardinalityBij
  <2> QED
    BY <2>3, Fun_ExistsBij
<1> DEFINE B == [x \in S |-> CHOOSE b \in Bijection(At(d, x), At(e, x)) : TRUE]
           h == [i \in D |-> B[d[i]][i]]
<1>4. ASSUME NEW x \in S
      PROVE  /\ \A i \in At(d, x) : B[x][i] \in At(e, x)
             /\ \A i, j \in At(d, x) : B[x][i] = B[x][j] => i = j
             /\ \A j \in At(e, x) : \E i \in At(d, x) : B[x][i] = j
  <2>1. B[x] \in Bijection(At(d, x), At(e, x))
    BY <1>3
  <2> HIDE DEF B, At
  <2>2. B[x] \in Surjection(At(d, x), At(e, x))
    BY <2>1, Fun_BijectionProperties
  <2> QED
    BY <2>1, <2>2, Fun_BijectionProperties, Fun_SurjectionProperties
<1> HIDE DEF B
<1>5. ASSUME NEW i \in D PROVE h[i] \in E /\ e[h[i]] = d[i] /\ h[i] \in At(e, d[i]) /\ i \in At(d, d[i])
  BY <1>1, <1>4
<1>6. h \in [D -> E]
  BY <1>5
<1>7. \A i, j \in D : h[i] = h[j] => i = j
  <2> SUFFICES ASSUME NEW i \in D, NEW j \in D, h[i] = h[j] PROVE i = j
    OBVIOUS
  <2>1. d[i] = d[j] /\ d[i] \in S
    BY <1>1, <1>5
  <2>2. B[d[i]][i] = B[d[i]][j]
    BY <2>1
  <2> QED
    BY <1>4, <1>5, <2>1, <2>2
<1>8. \A j \in E : \E i \in D : h[i] = j
  <2> SUFFICES ASSUME NEW j \in E PROVE \E i \in D : h[i] = j
    OBVIOUS
  <2>1. e[j] \in S /\ j \in At(e, e[j])
    BY <1>1
  <2>2. PICK i \in At(d, e[j]) : B[e[j]][i] = j
    BY <1>4, <2>1
  <2>3. i \in D /\ h[i] = j
    BY <2>2
  <2> QED
    BY <2>3
<1>9. IsFiniteSet(D)
  BY <1>2, FS_Subset
<1> HIDE DEF D, E, h
<1>10. h \in Surjection(D, E)
  BY <1>6, <1>8, Fun_IsSurj
<1>11. h \in Bijection(D, E)
  BY <1>6, <1>7, <1>10, Fun_IsBij
<1>12. ExistsBijection(D, E)
  BY <1>11 DEF ExistsBijection
<1>13. Cardinality(D) = Cardinality(E)
  BY <1>9, <1>12, FS_Bijection
<1> QED
  BY <1>13 DEF D, E, Within

LEMMA SameElements ==
  ASSUME NEW S, NEW d \in Seq(S), NEW e \in Seq(S),
         \A x \in S : Occurrences(d, x) = Occurrences(e, x)
  PROVE  ToSet(d) = ToSet(e) /\ Len(d) = Len(e)
<1> DEFINE At(s, x) == {i \in DOMAIN s : s[i] = x}
<1>1. /\ DOMAIN d = 1..Len(d) /\ Len(d) \in Nat /\ \A i \in DOMAIN d : d[i] \in S
      /\ DOMAIN e = 1..Len(e) /\ Len(e) \in Nat /\ \A i \in DOMAIN e : e[i] \in S
  BY ElementOfSeq
<1>2. IsFiniteSet(DOMAIN d) /\ IsFiniteSet(DOMAIN e)
  BY <1>1, FS_Interval
<1>3. ASSUME NEW x \in S PROVE x \in ToSet(d) <=> x \in ToSet(e)
  <2>1. IsFiniteSet(At(d, x)) /\ IsFiniteSet(At(e, x))
    BY <1>2, FS_Subset
  <2>2. Cardinality(At(d, x)) = Cardinality(At(e, x))
    BY DEF Occurrences
  <2>3. At(d, x) = {} <=> At(e, x) = {}
    BY <2>1, <2>2, FS_EmptySet
  <2> QED
    BY <2>3 DEF ToSet
<1>4. ToSet(d) \subseteq S /\ ToSet(e) \subseteq S
  BY <1>1 DEF ToSet
<1>5. Len(d) = Len(e)
  <2>1. Cardinality(Within(d, S)) = Cardinality(Within(e, S))
    BY EquallyMany
  <2>2. Within(d, S) = 1..Len(d) /\ Within(e, S) = 1..Len(e)
    BY <1>1 DEF Within
  <2>3. Cardinality(1..Len(d)) = Len(d) /\ Cardinality(1..Len(e)) = Len(e)
    <3>1. \A n \in Nat : Cardinality(1..n) = n
      BY FS_Interval
    <3> QED
      BY <1>1, <3>1
  <2> QED
    BY <2>1, <2>2, <2>3
<1> QED
  BY <1>3, <1>4, <1>5

(* Two quiet runs of the same entries, conditions and options make reports *)
(* that only the order of their listings tells apart.                      *)
SameReport(r, q) ==
  /\ \A s \in Status : ToSet(r.files[s]) = ToSet(q.files[s])
  /\ r.orphans = q.orphans
  /\ \A x : Occurrences(r.broken_libs, x) = Occurrences(q.broken_libs, x)
  /\ r.undefined_symbols = q.undefined_symbols
  /\ \A key \in DOMAIN q.summary : r.summary[key] = q.summary[key]

LEMMA SameRunsSameReport ==
  ASSUME NEW a, NEW b, GoodRun(a), GoodRun(b), Quiet(a), a.asked = b.asked,
         \A x \in Packages \X Paths : Occurrences(a.entries, x) = Occurrences(b.entries, x),
         \A p \in Paths : a.was[p] = b.was[p]
  PROVE  SameReport(a.report, b.report)
<1> DEFINE Pairs == Packages \X Paths
           Kind(c) == {x \in Pairs : Of(a, x[2]) = {c}}
<1>1. Quiet(b)
  BY DEF Quiet
<1>2. /\ a.entries \in Seq(Pairs) /\ b.entries \in Seq(Pairs)
      /\ Determined(a) /\ Determined(b) /\ FilesRight(a) /\ FilesRight(b)
  BY <1>1 DEF GoodRun
<1>3. /\ ToSet(a.entries) = ToSet(b.entries) /\ Len(a.entries) = Len(b.entries)
      /\ ToSet(a.entries) \subseteq Pairs
  BY <1>2, SameElements, ElementsOf
<1>4. /\ \A p \in Paths : Of(a, p) = Of(b, p)
      /\ \A p \in Paths : \E c : Of(a, p) = {c}
  <2>1. \A p \in Paths : Of(a, p) = Of(b, p)
    BY DEF Of
  <2>2. ASSUME NEW p \in Paths PROVE \E c : Of(a, p) = {c}
    <3>1. PICK x \in a.was[p] : a.was[p] = {x}
      BY DEF Quiet
    <3>2. Of(a, p) = {x[1]}
      BY <3>1 DEF Of
    <3> QED
      BY <3>2
  <2> QED
    BY <2>1, <2>2
<1>5. /\ \A i \in DOMAIN a.entries : a.entries[i] \in Pairs
      /\ \A i \in DOMAIN b.entries : b.entries[i] \in Pairs
  BY <1>2, ElementOfSeq
<1>6. \A c : In(a, c) = Within(a.entries, Kind(c)) /\ In(b, c) = Within(b.entries, Kind(c))
  BY <1>4, <1>5 DEF In, Within
<1>7. \A A : Cardinality(Within(a.entries, A)) = Cardinality(Within(b.entries, A))
  BY <1>2, EquallyMany
<1>8. \A c : /\ Cardinality(In(a, c)) = Cardinality(In(b, c))
             /\ Cardinality(InLibs(a, c)) = Cardinality(InLibs(b, c))
  <2> HIDE DEF Kind
  <2> QED
    BY <1>6, <1>7 DEF InLibs
<1>9. ASSUME NEW s \in Status PROVE ToSet(a.report.files[s]) = ToSet(b.report.files[s])
  <2>1. ASSUME NEW x PROVE x \in ToSet(a.report.files[s])
                            <=> x \in ToSet(a.entries) /\ Of(a, x[2]) = {s}
    <3>1. x \in ToSet(a.entries) => x[2] \in Paths
      BY <1>3
    <3>2. x \in ToSet(a.entries) => (Tellable(s, Of(a, x[2])) <=> Of(a, x[2]) = {s})
      <4>1. ASSUME NEW c PROVE Tellable(s, {c}) <=> {c} = {s}
        BY OneGlimpse
      <4> QED
        BY <1>4, <3>1, <4>1
    <3> QED
      BY <1>2, <3>2 DEF FilesRight
  <2>2. ASSUME NEW x PROVE x \in ToSet(b.report.files[s])
                            <=> x \in ToSet(a.entries) /\ Of(a, x[2]) = {s}
    <3>1. x \in ToSet(b.entries) => x[2] \in Paths
      BY <1>3
    <3>2. ASSUME x \in ToSet(b.entries)
          PROVE  /\ Of(b, x[2]) = Of(a, x[2])
                 /\ Tellable(s, Of(b, x[2])) <=> Of(b, x[2]) = {s}
      <4>1. PICK c : Of(b, x[2]) = {c} /\ Of(a, x[2]) = {c}
        BY <1>4, <3>1, <3>2
      <4>2. Tellable(s, {c}) <=> s = c
        BY OneGlimpse
      <4> QED
        BY <4>1, <4>2
    <3> QED
      BY <1>2, <1>3, <3>2 DEF FilesRight
  <2> QED
    BY <2>1, <2>2
<1>10. a.report.orphans = b.report.orphans
  <2>1. {p \in Paths : /\ Of(a, p) \cap OnDisk # {}
                       /\ \A k \in Packages : <<k, p>> \notin ToSet(a.entries)}
        = {p \in Paths : /\ Of(b, p) \cap OnDisk # {}
                         /\ \A k \in Packages : <<k, p>> \notin ToSet(b.entries)}
    BY <1>3, <1>4
  <2> QED
    BY <1>2, <2>1 DEF Determined
<1>11. ASSUME NEW x
       PROVE  Occurrences(a.report.broken_libs, x) = Occurrences(b.report.broken_libs, x)
  <2> DEFINE K == Kind("broken") \cap {x}
  <2>1. /\ {i \in In(a, "broken") : a.entries[i] = x} = Within(a.entries, K)
        /\ {i \in In(b, "broken") : b.entries[i] = x} = Within(b.entries, K)
    BY <1>6 DEF Within
  <2>2. Cardinality({i \in InLibs(a, "broken") : a.entries[i] = x})
        = Cardinality({i \in InLibs(b, "broken") : b.entries[i] = x})
    <3>1. CASE "libs" \in a.asked
      <4> HIDE DEF K
      <4> QED
        BY <1>7, <2>1, <3>1 DEF InLibs
    <3>2. CASE "libs" \notin a.asked
      <4>1. InLibs(a, "broken") = {} /\ InLibs(b, "broken") = {}
        BY <3>2 DEF InLibs
      <4>2. /\ {i \in InLibs(a, "broken") : a.entries[i] = x} = {}
            /\ {i \in InLibs(b, "broken") : b.entries[i] = x} = {}
        BY <4>1
      <4> QED
        BY <4>2
    <3> QED
      BY <3>1, <3>2
  <2> QED
    BY <1>2, <2>2 DEF Determined
<1>12. a.report.undefined_symbols = b.report.undefined_symbols
  <2>1. \A c : /\ {a.entries[i] : i \in In(a, c)} = ToSet(a.entries) \cap Kind(c)
               /\ {b.entries[i] : i \in In(b, c)} = ToSet(b.entries) \cap Kind(c)
    <3> HIDE DEF Kind
    <3> QED
      BY <1>6 DEF Within, ToSet
  <2>2. {a.entries[i] : i \in InLibs(a, "undefined")} = {b.entries[i] : i \in InLibs(b, "undefined")}
    <3>1. CASE "libs" \in a.asked
      BY <1>3, <2>1, <3>1 DEF InLibs
    <3>2. CASE "libs" \notin a.asked
      <4>1. InLibs(a, "undefined") = {} /\ InLibs(b, "undefined") = {}
        BY <3>2 DEF InLibs
      <4> QED
        BY <4>1
    <3> QED
      BY <3>1, <3>2
  <2> QED
    BY <1>2, <2>2 DEF Determined
<1>13. \A key \in DOMAIN b.report.summary : a.report.summary[key] = b.report.summary[key]
  <2>1. \A s \in Status : a.report.summary[s] = b.report.summary[s]
    BY <1>2, <1>8 DEF Determined
  <2>2. /\ a.report.summary["packages"] = b.report.summary["packages"]
        /\ a.report.summary["files"] = b.report.summary["files"]
        /\ a.report.summary["orphans"] = b.report.summary["orphans"]
    BY <1>2, <1>3, <1>10 DEF Determined
  <2>3. /\ a.report.summary["broken_libs"] = b.report.summary["broken_libs"]
        /\ a.report.summary["undefined_symbols"] = b.report.summary["undefined_symbols"]
    BY <1>2, <1>8 DEF Determined
  <2>4. DOMAIN b.report.summary =
          Status \cup {"packages", "files", "orphans", "broken_libs", "undefined_symbols"}
    BY <1>2 DEF Determined
  <2> QED
    BY <2>1, <2>2, <2>3, <2>4
<1> QED
  BY <1>9, <1>10, <1>11, <1>12, <1>13 DEF SameReport

LEMMA SameReportNoDifference ==
  ASSUME SameReport(saved.report, report) PROVE Text(diff) = "same"
<1>1. OrphansOf(diff) = {}
  BY DiffParts DEF SameReport, OrphansOf
<1>2. FilesOf(diff) = {}
  <2>1. \A s \in Status : diff.added[s] = {} /\ diff.removed[s] = {}
    BY DiffParts DEF SameReport
  <2> QED
    BY <2>1 DEF FilesOf
<1>3. diff.replaced = {}
  <2>1. SameListing(saved.report.broken_libs, report.broken_libs)
    BY DEF SameReport, SameListing
  <2>2. saved.report.undefined_symbols = report.undefined_symbols
    BY DEF SameReport
  <2> QED
    BY <2>1, <2>2 DEF diff, Diff
<1>4. diff.summary = {}
  BY DEF SameReport, diff, Diff
<1> QED
  BY <1>1, <1>2, <1>3, <1>4 DEF Text

(* Two runs of an unchanged system show no difference, whatever the order  *)
(* the records were read in.                                               *)
THEOREM UnchangedIsSame == DiffSpec => []NoDifferenceWithoutChange
<1>1. ASSUME DiffInv PROVE NoDifferenceWithoutChange
  <2> SUFFICES ASSUME Both, Unchanged PROVE Text(diff) = "same"
    BY DEF NoDifferenceWithoutChange
  <2>1. GoodRun(saved) /\ GoodRun(ThisRun)
    BY <1>1, BothAreGood
  <2>2. Quiet(saved)
    BY DEF Unchanged, Quiet
  <2>3. SameReport(saved.report, ThisRun.report)
    <3>1. /\ saved.asked = ThisRun.asked
          /\ \A x \in Packages \X Paths :
               Occurrences(saved.entries, x) = Occurrences(ThisRun.entries, x)
          /\ \A p \in Paths : saved.was[p] = ThisRun.was[p]
      BY ThisRunIs DEF Unchanged
    <3> QED
      BY <2>1, <2>2, <3>1, SameRunsSameReport
  <2> QED
    BY <2>3, ThisRunIs, SameReportNoDifference
<1> QED
  BY <1>1, DiffInvariant, PTL

-----------------------------------------------------------------------------
(* One invocation: CliRun.                                                 *)

(* sudo is executed by a user who asked for it or was asked, and the       *)
(* program it starts is root's.                                            *)
Elevation ==
  /\ pc = "sudo" => euid = "user" /\ execs = 0
  /\ pc = "sudo" \/ execs # 0 => args.privileges = "elevate" \/ MayAsk
  /\ execs # 0 => execs = 1 /\ euid = "root"

(* The phases that come before another, and those of them that were asked  *)
(* for.                                                                    *)
Earlier ==
  [scan |-> {}, verify |-> {"scan"}, orphans |-> {"scan", "verify"},
   ldd |-> {"scan", "verify", "orphans"}, nm |-> {"scan", "verify", "orphans", "ldd"}]
Passed(here) == IF here \in Phases THEN Requested \cap Earlier[here] ELSE Requested

(* A phase begins when all that come before it have completed.             *)
Progress ==
  /\ pc \in {"start", "root", "sudo", "tools"} => ran = {}
  /\ pc \in Phases => pc \in Requested
  /\ pc \in InRun => ran = Passed(pc) \X {euid}
  /\ pc # "exited" => code = "none" /\ log = "none"
  /\ PhasesComplete

(* stdout is for the document.                                             *)
Output ==
  /\ args.json /\ pc \notin {"log", "exited"} => stdout = << >>
  /\ args.json /\ pc = "log" => stdout = <<"document">>
  /\ DocumentAlone

CliInv == CliTypeOK /\ Elevation /\ Progress /\ Output

LEMMA FollowsPassed ==
  ASSUME NEW from \in Phases, from \in Requested, NEW to \in Phases \cup {"report"},
         Follows(from, to)
  PROVE  /\ to \in Phases => to \in Requested
         /\ Passed(to) = Passed(from) \cup {from}
<1>1. PICK k \in 1..6, l \in 1..6 :
         /\ PhaseOrder[k] = from /\ k < l /\ PhaseOrder[l] = to
         /\ to \in Requested \cup {"report"}
         /\ \A j \in k + 1..l - 1 : PhaseOrder[j] \notin Requested
  BY DEF Follows, PhaseOrder
<1>2. /\ PhaseOrder[1] = "scan" /\ PhaseOrder[2] = "verify" /\ PhaseOrder[3] = "orphans"
      /\ PhaseOrder[4] = "ldd" /\ PhaseOrder[5] = "nm" /\ PhaseOrder[6] = "report"
  BY DEF PhaseOrder
<1>3. Requested \subseteq Phases /\ {"scan", "verify"} \subseteq Requested
  BY DEF Requested, Phases
<1>4. /\ Earlier["scan"] = {} /\ Earlier["verify"] = {"scan"}
      /\ Earlier["orphans"] = {"scan", "verify"}
      /\ Earlier["ldd"] = {"scan", "verify", "orphans"}
      /\ Earlier["nm"] = {"scan", "verify", "orphans", "ldd"}
  BY DEF Earlier
<1>5. "report" \notin Phases
  BY DEF Phases
<1>6. to \in Phases => to \in Requested
  BY <1>1, <1>5
<1>7. \/ from = "scan" /\ to = "verify"
      \/ from = "verify" /\ to = "orphans"
      \/ from \in {"verify", "orphans"} /\ to = "ldd" /\ (from = "verify" => "orphans" \notin Requested)
      \/ /\ from \in {"verify", "orphans", "ldd"} /\ to = "nm"
         /\ from = "verify" => "orphans" \notin Requested
         /\ from # "ldd" => "ldd" \notin Requested
      \/ /\ from \in {"verify", "orphans", "ldd", "nm"} /\ to = "report"
         /\ from = "verify" => "orphans" \notin Requested
         /\ from \in {"verify", "orphans"} => "ldd" \notin Requested
         /\ from # "nm" => "nm" \notin Requested
  BY <1>1, <1>2, <1>3, <1>5 DEF Phases
<1>8. ASSUME NEW p \in Phases PROVE p \in Passed(to) <=> p \in Passed(from) \/ p = from
  BY <1>3, <1>4, <1>5, <1>7 DEF Passed, Phases
<1>9. Passed(to) \subseteq Phases /\ Passed(from) \subseteq Phases
  BY <1>3 DEF Passed
<1> QED
  BY <1>6, <1>8, <1>9

LEMMA InitCliInv == CliInit => CliInv
<1> SUFFICES ASSUME CliInit PROVE CliInv
  OBVIOUS
<1>1. CliTypeOK
  <2>1. isatty \in BOOLEAN /\ undecodable \in BOOLEAN
    BY DEF CliInit
  <2>2. execs \in Nat
    BY DEF CliInit
  <2> QED
    BY <2>1, <2>2 DEF CliInit, CliTypeOK
<1>2. Elevation /\ Output
  BY DEF CliInit, Elevation, Output, DocumentAlone
<1>3. Progress
  BY DEF CliInit, Progress, InRun, Phases, PhasesComplete
<1> QED
  BY <1>1, <1>2, <1>3 DEF CliInv

(* What is printed is text.                                                *)
LEMMA PrintedIsText ==
  ASSUME CliTypeOK, NEW m \in Seq(Messages), OnStatus(m) \/ OnConsole(m) \/ Silent
  PROVE  stdout' \in Seq(Messages) /\ stderr' \in Seq(Messages)
<1>1. stdout \in Seq(Messages) /\ stderr \in Seq(Messages)
  BY DEF CliTypeOK
<1>2. stdout \o m \in Seq(Messages) /\ stderr \o m \in Seq(Messages)
  BY <1>1, ConcatProperties
<1> QED
  BY <1>1, <1>2 DEF OnStatus, OnConsole, Silent

LEMMA Texts ==
  /\ << >> \in Seq(Messages)
  /\ \A m \in Messages : <<m>> \in Seq(Messages)
  /\ \A s, t \in Seq(Messages) : s \o t \in Seq(Messages)
  BY ConcatProperties

LEMMA LastOfConcat ==
  ASSUME NEW s \in Seq(Messages), NEW t \in Seq(Messages), Len(t) = 1
  PROVE  Len(s \o t) = Len(s) + 1 /\ (s \o t)[Len(s) + 1] = t[1]
<1> DEFINE n == Len(s)
           u == s \o t
<1>1. n \in Nat
  OBVIOUS
<1>2. Len(u) = n + Len(t)
  BY ConcatProperties
<1>3. \A i \in 1..n + Len(t) : u[i] = IF i <= n THEN s[i] ELSE t[i - n]
  BY ConcatProperties
<1> HIDE DEF n, u
<1>4. u[n + 1] = t[1]
  BY <1>1, <1>3
<1> QED
  BY <1>2, <1>4 DEF n, u

LEMMA AnnouncedIsText == ASSUME NEW next PROVE Announced(next) \in Seq(Messages)
<1>1. "scan" \in Messages /\ "orphans" \in Messages
  BY DEF Messages
<1> QED
  BY <1>1, Texts DEF Announced

(* A run may end badly anywhere.                                           *)
LEMMA EndsBadly ==
  ASSUME CliInv, NEW from \in InRun \cup {"start", "root", "sudo", "tools"},
         NEW c \in {"error", "usage", "sudo", "interrupted", "traceback"}, Exit(from, c),
         stdout' \in Seq(Messages), stderr' \in Seq(Messages)
  PROVE  CliInv'
<1>1. pc = from /\ pc' = "exited" /\ code' = c /\ UNCHANGED <<process, outcome>>
  BY DEF Exit
<1>2. CliTypeOK'
  BY <1>1 DEF CliInv, CliTypeOK, process, outcome
<1>3. Elevation'
  BY <1>1 DEF CliInv, Elevation, MayAsk, process, outcome
<1>4. Progress' /\ Output'
  BY <1>1 DEF Progress, Output, PhasesComplete, DocumentAlone, InRun, Phases
<1> QED
  BY <1>2, <1>3, <1>4 DEF CliInv

LEMMA UsageErrorKeeps ==
  ASSUME CliInv, NEW from \in InRun \cup {"start", "root", "sudo", "tools"},
         \/ UsageError(from)
         \/ Traceback(from)
         \/ Exit(from, "sudo") /\ stderr' = Append(stderr, "sudo refused") /\ UNCHANGED stdout
  PROVE  CliInv'
<1>1. stdout \in Seq(Messages) /\ stderr \in Seq(Messages)
  BY DEF CliInv, CliTypeOK
<1>2. \A m \in Messages : Append(stderr, m) \in Seq(Messages)
  BY <1>1, AppendProperties
<1>3. stdout' \in Seq(Messages) /\ stderr' \in Seq(Messages)
  BY <1>1, <1>2 DEF Messages, UsageError, Traceback
<1> QED
  BY <1>3, EndsBadly DEF UsageError, Traceback

LEMMA ErrorKeeps ==
  ASSUME CliInv, NEW from \in InRun, NEW c \in {"error", "interrupted"}, Exit(from, c),
         NEW m \in Seq(Messages), OnConsole(m)
  PROVE  CliInv'
<1>1. stdout' \in Seq(Messages) /\ stderr' \in Seq(Messages)
  BY PrintedIsText DEF CliInv
<1> QED
  BY <1>1, EndsBadly

(* Before the phases: a step to another place, with a message or none.     *)
LEMMA PrepareKeeps ==
  ASSUME CliInv, NEW from \in {"start", "root", "tools"},
         NEW to \in {"root", "sudo", "tools", "scan"}, Goto(from, to),
         to = "sudo" => from = "root" /\ euid = "user" /\ (args.privileges = "elevate" \/ MayAsk),
         NEW m \in Seq(Messages), OnStatus(m) \/ Silent, UNCHANGED <<process, outcome>>
  PROVE  CliInv'
<1>1. pc = from /\ pc' = to /\ code' = code /\ UNCHANGED <<process, outcome>>
  BY DEF Goto
<1>2. CliTypeOK'
  BY <1>1, PrintedIsText DEF CliInv, CliTypeOK, process, outcome, InRun, Phases
<1>3. Elevation'
  BY <1>1 DEF CliInv, Elevation, MayAsk, process
<1>4. Progress'
  <2>1. ran = {} /\ code = "none" /\ log = "none"
    BY <1>1 DEF CliInv, Progress
  <2>2. Passed("scan") = {} /\ "scan" \in Requested
    BY DEF Passed, Earlier, Phases, Requested
  <2>3. (Passed("scan") \X {euid})' = {} /\ ("scan" \in Requested)'
    BY <1>1, <2>2 DEF Passed, Earlier, Phases, Requested, process
  <2> QED
    BY <1>1, <2>1, <2>3 DEF Progress, PhasesComplete, InRun, Phases, outcome
<1>5. Output'
  <2>1. args.json => stdout = << >> /\ stdout' = stdout
    BY <1>1 DEF CliInv, Output, OnStatus, Silent
  <2> QED
    BY <1>1, <2>1 DEF Output, DocumentAlone, CliInv, Progress, process
<1> QED
  BY <1>2, <1>3, <1>4, <1>5 DEF CliInv

LEMMA CheckArgumentsKeeps == CliInv /\ CheckArguments => CliInv'
<1> SUFFICES ASSUME CliInv, CheckArguments PROVE CliInv'
  OBVIOUS
<1>1. CASE UsageError("start")
  BY <1>1, UsageErrorKeeps
<1>2. CASE /\ Goto("start", "root")
           /\ \E utf8 \in BOOLEAN : OnStatusIf(~utf8, <<"encoding warning">>)
           /\ UNCHANGED <<process, outcome>>
  <2>1. <<"encoding warning">> \in Seq(Messages)
    BY DEF Messages
  <2>2. OnStatus(<<"encoding warning">>) \/ Silent
    BY <1>2 DEF OnStatusIf
  <2> QED
    BY <1>2, <2>1, <2>2, PrepareKeeps
<1> QED
  BY <1>1, <1>2 DEF CheckArguments

LEMMA ExecWithSudoKeeps == CliInv /\ ExecWithSudo => CliInv'
<1> SUFFICES ASSUME CliInv, ExecWithSudo PROVE CliInv'
  OBVIOUS
<1>1. CASE /\ Goto("sudo", "start") /\ euid' = "root" /\ execs' = execs + 1 /\ Silent
           /\ UNCHANGED <<args, isatty, outcome>>
  <2>1. /\ pc = "sudo" /\ pc' = "start" /\ code' = code /\ euid' = "root" /\ execs' = 1
        /\ UNCHANGED <<args, isatty, log, undecodable, ran, stdout, stderr>>
    BY <1>1 DEF Goto, Silent, outcome, CliInv, Elevation
  <2>2. CliTypeOK'
    BY <2>1 DEF CliInv, CliTypeOK
  <2>3. Elevation'
    BY <2>1 DEF CliInv, Elevation, MayAsk
  <2>4. Progress'
    BY <2>1 DEF CliInv, Progress, PhasesComplete, InRun, Phases
  <2>5. Output'
    BY <2>1 DEF CliInv, Progress, Output, DocumentAlone
  <2> QED
    BY <2>2, <2>3, <2>4, <2>5 DEF CliInv
<1>2. CASE Exit("sudo", "sudo") /\ stderr' = Append(stderr, "sudo refused") /\ UNCHANGED stdout
  BY <1>2, UsageErrorKeeps
<1>3. CASE Traceback("sudo")
  BY <1>3, UsageErrorKeeps
<1> QED
  BY <1>1, <1>2, <1>3 DEF ExecWithSudo

LEMMA EnsureRootKeeps == CliInv /\ EnsureRoot => CliInv'
<1> SUFFICES ASSUME CliInv, EnsureRoot PROVE CliInv'
  OBVIOUS
<1>1. UNCHANGED <<process, outcome>>
  BY DEF EnsureRoot
<1>2. PICK to \in {"sudo", "tools"}, m \in {<<"sudo question">>, <<"privileges warning">>} :
         /\ Goto("root", to)
         /\ to = "sudo" => euid = "user" /\ (args.privileges = "elevate" \/ MayAsk)
         /\ OnStatus(m) \/ Silent
  BY DEF EnsureRoot, OnStatusIf
<1>3. m \in Seq(Messages)
  <2>1. "sudo question" \in Messages /\ "privileges warning" \in Messages
    BY DEF Messages
  <2> QED
    BY <2>1, Texts
<1> QED
  BY <1>1, <1>2, <1>3, PrepareKeeps

LEMMA FindToolsKeeps == CliInv /\ FindTools => CliInv'
<1> SUFFICES ASSUME CliInv, FindTools PROVE CliInv'
  OBVIOUS
<1>1. CASE UsageError("tools")
  BY <1>1, UsageErrorKeeps
<1>2. CASE /\ Goto("tools", "scan")
           /\ \E warning \in {<< >>, <<"rg warning">>} : OnStatus(warning \o Announced("scan"))
           /\ UNCHANGED <<process, outcome>>
  <2>1. PICK warning \in {<< >>, <<"rg warning">>} : OnStatus(warning \o Announced("scan"))
    BY <1>2
  <2>2. "rg warning" \in Messages
    BY DEF Messages
  <2>3. warning \o Announced("scan") \in Seq(Messages)
    BY <2>2, Texts, AnnouncedIsText
  <2> QED
    BY <1>2, <2>1, <2>3, PrepareKeeps
<1> QED
  BY <1>1, <1>2 DEF FindTools

LEMMA PhaseKeeps ==
  ASSUME CliInv, NEW from \in Phases, NEW to \in Phases \cup {"report"}, Phase(from, to)
  PROVE  CliInv'
<1>1. /\ Follows(from, to) /\ pc = from /\ pc' = to /\ code' = code
      /\ ran' = ran \cup {<<from, euid>>} /\ OnStatus(Announced(to))
      /\ UNCHANGED <<args, isatty, euid, execs, log>>
  BY DEF Phase, Goto, process
<1>2. /\ pc \in Phases /\ pc \in InRun /\ pc \in Requested /\ ran = Passed(pc) \X {euid}
      /\ code = "none" /\ log = "none"
  BY <1>1 DEF CliInv, Progress, InRun, Phases
<1>3. /\ to \in Phases => to \in Requested
      /\ Passed(to) = Passed(from) \cup {from}
  BY <1>1, <1>2, FollowsPassed
<1>4. CliTypeOK'
  <2>1. Announced(to) \in Seq(Messages)
    BY AnnouncedIsText
  <2>2. <<from, euid>> \in Phases \X {"root", "user"}
    BY DEF CliInv, CliTypeOK
  <2>3. stdout' \in Seq(Messages) /\ stderr' \in Seq(Messages)
    BY <1>1, <2>1, PrintedIsText DEF CliInv
  <2>4. undecodable' \in BOOLEAN
    <3>1. undecodable \in BOOLEAN
      BY DEF CliInv, CliTypeOK
    <3> QED
      BY <3>1 DEF Phase
  <2>5. to \in InRun
    BY DEF InRun
  <2> QED
    BY <1>1, <2>2, <2>3, <2>4, <2>5 DEF CliInv, CliTypeOK
<1>5. Elevation'
  BY <1>1 DEF CliInv, Elevation, MayAsk, Phases
<1>6. Progress'
  <2>1. Passed(to)' = Passed(to) /\ Requested' = Requested
    BY <1>1 DEF Passed, Requested, Earlier
  <2>2. ran' = Passed(to) \X {euid}
    BY <1>1, <1>2, <1>3
  <2>3. to \notin {"start", "root", "sudo", "tools", "exited"}
    BY DEF Phases
  <2>4. (ran = Passed(pc) \X {euid})'
    BY <1>1, <2>1, <2>2 DEF Passed, Requested, Earlier
  <2>5. (pc \in Phases => pc \in Requested)'
    BY <1>1, <1>3, <2>1
  <2> QED
    BY <1>1, <1>2, <2>3, <2>4, <2>5 DEF Progress, PhasesComplete
<1>7. Output'
  <2>1. args.json => stdout = << >> /\ stdout' = stdout
    BY <1>1 DEF CliInv, Output, OnStatus, Phases
  <2> QED
    BY <1>1, <1>2, <2>1 DEF Output, DocumentAlone, Phases
<1> QED
  BY <1>4, <1>5, <1>6, <1>7 DEF CliInv

LEMMA NothingRegisteredKeeps == CliInv /\ NothingRegistered => CliInv'
<1> SUFFICES ASSUME CliInv, NothingRegistered PROVE CliInv'
  OBVIOUS
<1> DEFINE m == <<"no files">>
<1>1. /\ pc = "scan" /\ pc' = "exited" /\ code' = "ok" /\ OnStatus(m)
      /\ UNCHANGED <<args, isatty, euid, execs, log, undecodable, ran>>
  BY DEF NothingRegistered, Exit, process, outcome
<1>2. m \in Seq(Messages) /\ Len(m) = 1 /\ m[1] = "no files" /\ m # << >>
  BY DEF Messages
<1>3. stdout \in Seq(Messages) /\ stderr \in Seq(Messages)
  BY DEF CliInv, CliTypeOK
<1> HIDE DEF m
<1>4. CliTypeOK'
  BY <1>1, <1>2, PrintedIsText DEF CliInv, CliTypeOK
<1>5. Elevation'
  BY <1>1 DEF CliInv, Elevation, MayAsk
<1>6. Progress'
  <2>1. Passed("scan") = {} /\ "scan" \in InRun
    BY DEF Passed, Earlier, Phases, InRun
  <2>2. ran = {} /\ log = "none"
    BY <1>1, <2>1 DEF CliInv, Progress
  <2> QED
    BY <1>1, <2>2 DEF Progress, PhasesComplete, InRun, Phases
<1>7. Output'
  <2>1. CASE args.json
    <3>1. stdout = << >> /\ stdout' = stdout /\ stderr' = stderr \o m
      BY <1>1, <2>1 DEF CliInv, Output, OnStatus
    <3>2. /\ Len(stderr \o m) = Len(stderr) + 1
          /\ (stderr \o m)[Len(stderr) + 1] = m[1]
      BY <1>2, <1>3, LastOfConcat
    <3>3. Last(stderr') = "no files"
      BY <1>2, <3>1, <3>2 DEF Last
    <3> QED
      BY <1>1, <3>1, <3>3 DEF Output, DocumentAlone
  <2>2. CASE ~args.json
    BY <1>1, <2>2 DEF Output, DocumentAlone
  <2> QED
    BY <2>1, <2>2
<1> QED
  BY <1>4, <1>5, <1>6, <1>7 DEF CliInv

LEMMA PhaseFailsKeeps == CliInv /\ PhaseFails => CliInv'
<1> SUFFICES ASSUME CliInv, PhaseFails PROVE CliInv'
  OBVIOUS
<1>1. Phases \subseteq InRun /\ "scan" \in InRun /\ <<"error">> \in Seq(Messages)
  BY DEF InRun, Phases, Messages
<1>2. CASE (\E here \in Phases \ {"orphans"} : Exit(here, "error")) /\ OnConsole(<<"error">>)
  BY <1>1, <1>2, ErrorKeeps
<1>3. CASE Traceback("scan")
  BY <1>1, <1>3, UsageErrorKeeps
<1> QED
  BY <1>2, <1>3 DEF PhaseFails

(* After the phases: nothing but the output changes.                       *)
LEMMA ShownKeeps ==
  ASSUME CliInv, Goto("report", "output") \/ Goto("output", "log"),
         UNCHANGED <<process, outcome>>,
         stdout' \in Seq(Messages), stderr' \in Seq(Messages),
         args.json /\ pc = "report" => stdout' = << >>,
         args.json /\ pc = "output" => stdout' = <<"document">>
  PROVE  CliInv'
<1>0. PICK from \in {"report", "output"}, to \in {"output", "log"} :
         Goto(from, to) /\ (from = "report" <=> to = "output")
  OBVIOUS
<1>1. /\ pc = from /\ pc' = to /\ code' = code
      /\ UNCHANGED <<args, isatty, euid, execs, log, undecodable, ran>>
  BY <1>0 DEF Goto, process, outcome
<1>2. /\ from \in InRun /\ to \in InRun /\ to \notin Phases /\ Passed(from) = Passed(to)
      /\ to \notin {"start", "root", "sudo", "tools", "exited"}
  BY DEF InRun, Phases, Passed
<1>3. CliTypeOK'
  BY <1>1, <1>2 DEF CliInv, CliTypeOK
<1>4. Elevation'
  BY <1>1 DEF CliInv, Elevation, MayAsk
<1>5. Progress'
  <2>1. Passed(to)' = Passed(to)
    BY <1>1 DEF Passed, Requested, Earlier
  <2>2. ran = Passed(to) \X {euid} /\ code = "none" /\ log = "none"
    BY <1>1, <1>2 DEF CliInv, Progress
  <2>3. (ran = Passed(pc) \X {euid})'
    BY <1>1, <2>1, <2>2 DEF Passed, Requested, Earlier
  <2> QED
    BY <1>1, <1>2, <2>2, <2>3 DEF Progress, PhasesComplete
<1>6. Output'
  <2>1. code = "none"
    BY <1>1, <1>2 DEF CliInv, Progress
  <2> QED
    BY <1>0, <1>1, <2>1 DEF Output, DocumentAlone
<1> QED
  BY <1>3, <1>4, <1>5, <1>6 DEF CliInv

LEMMA PrintReportKeeps == CliInv /\ PrintReport => CliInv'
<1> SUFFICES ASSUME CliInv, PrintReport PROVE CliInv'
  OBVIOUS
<1>1. Goto("report", "output") /\ UNCHANGED <<process, outcome>>
  BY DEF PrintReport
<1>2. CASE args.json
  <2>1. OnStatus(<<"summary">>) \/ Silent
    BY <1>2 DEF PrintReport, OnStatusIf
  <2>2. <<"summary">> \in Seq(Messages)
    BY DEF Messages
  <2>3. stdout = << >> /\ stdout' = stdout
    BY <1>1, <1>2, <2>1 DEF CliInv, Output, OnStatus, Silent, Goto
  <2>4. stdout' \in Seq(Messages) /\ stderr' \in Seq(Messages)
    BY <2>1, <2>2, PrintedIsText DEF CliInv
  <2> QED
    BY <1>1, <2>3, <2>4, ShownKeeps DEF Goto
<1>3. CASE ~args.json
  <2> DEFINE a       == IF args.quiet THEN << >> ELSE <<"breakdown">>
             b(hint) == IF hint THEN <<"sudo hint">> ELSE << >>
             text(hint) == a \o <<"summary">> \o b(hint)
  <2>1. PICK hint \in BOOLEAN : OnConsole(text(hint))
    BY <1>3 DEF PrintReport
  <2>2. text(hint) \in Seq(Messages)
    <3>1. "breakdown" \in Messages /\ "summary" \in Messages /\ "sudo hint" \in Messages
      BY DEF Messages
    <3>2. a \in Seq(Messages) /\ b(hint) \in Seq(Messages) /\ <<"summary">> \in Seq(Messages)
      BY <3>1, Texts
    <3> HIDE DEF a, b
    <3> QED
      BY <3>2, Texts
  <2> HIDE DEF text
  <2>3. stdout' \in Seq(Messages) /\ stderr' \in Seq(Messages)
    BY <2>1, <2>2, PrintedIsText DEF CliInv
  <2> QED
    BY <1>1, <1>3, <2>3, ShownKeeps
<1> QED
  BY <1>2, <1>3

LEMMA PrintDocumentKeeps == CliInv /\ PrintDocument => CliInv'
<1> SUFFICES ASSUME CliInv, PrintDocument PROVE CliInv'
  OBVIOUS
<1>1. Goto("output", "log") /\ UNCHANGED <<process, outcome>>
  BY DEF PrintDocument
<1>2. OnConsole(<<"document">>) \/ Silent
  BY DEF PrintDocument
<1>3. <<"document">> \in Seq(Messages)
  BY DEF Messages
<1>4. stdout' \in Seq(Messages) /\ stderr' \in Seq(Messages)
  BY <1>2, <1>3, PrintedIsText DEF CliInv
<1>5. args.json => stdout' = <<"document">>
  <2>1. args.json => stdout = << >> /\ stdout' = stdout \o <<"document">>
    BY <1>1 DEF CliInv, Output, PrintDocument, OnConsole, Goto
  <2>2. << >> \o <<"document">> = <<"document">>
    BY <1>3, ConcatEmptySeq
  <2> QED
    BY <2>1, <2>2
<1> QED
  BY <1>1, <1>4, <1>5, ShownKeeps DEF Goto

(* The end of a run whose phases all completed.                            *)
LEMMA LogKeeps ==
  ASSUME CliInv, pc = "log", pc' = "exited", code' = "ok",
         UNCHANGED <<args, isatty, euid, execs, undecodable, ran>>,
         log' \in {"none", "saved", "failed"}, log' # "none" <=> euid = "root",
         NEW m \in Seq(Messages), OnStatus(m) \/ Silent
  PROVE  CliInv'
<1>1. CliTypeOK'
  BY PrintedIsText DEF CliInv, CliTypeOK
<1>2. Elevation'
  BY DEF CliInv, Elevation, MayAsk
<1>3. Progress'
  <2>1. Passed("log") = Requested /\ "log" \in InRun /\ "exited" \notin InRun \cup Phases
    BY DEF Passed, InRun, Phases
  <2>2. ran = Requested \X {euid}
    BY <2>1 DEF CliInv, Progress
  <2>3. (ran = Requested \X {euid})'
    BY <2>2 DEF Requested
  <2> QED
    BY <2>1, <2>3 DEF Progress, PhasesComplete
<1>4. Output'
  BY DEF CliInv, Output, DocumentAlone, OnStatus, Silent
<1> QED
  BY <1>1, <1>2, <1>3, <1>4 DEF CliInv

LEMMA SkipLogKeeps == CliInv /\ SkipLog => CliInv'
<1> SUFFICES ASSUME CliInv, SkipLog PROVE CliInv'
  OBVIOUS
<1>1. << >> \in Seq(Messages)
  OBVIOUS
<1>2. log = "none"
  BY DEF CliInv, Progress, SkipLog, Exit
<1> QED
  BY <1>1, <1>2, LogKeeps DEF SkipLog, Exit, process, outcome

LEMMA WriteLogKeeps == CliInv /\ WriteLog => CliInv'
<1> SUFFICES ASSUME CliInv, WriteLog PROVE CliInv'
  OBVIOUS
<1>1. <<"log saved">> \in Seq(Messages) /\ <<"log warning">> \in Seq(Messages)
  BY DEF Messages
<1>2. /\ pc = "log" /\ pc' = "exited" /\ code' = "ok" /\ euid = "root"
      /\ UNCHANGED <<args, isatty, euid, execs, undecodable, ran>>
      /\ log' \in {"saved", "failed"}
      /\ OnStatus(<<"log saved">>) \/ OnStatus(<<"log warning">>)
  BY DEF WriteLog, process
<1> QED
  BY <1>1, <1>2, LogKeeps

LEMMA InterruptKeeps == CliInv /\ Interrupt => CliInv'
<1> SUFFICES ASSUME CliInv, Interrupt PROVE CliInv'
  OBVIOUS
<1>1. <<"interrupted">> \in Seq(Messages)
  BY DEF Messages
<1> QED
  BY <1>1, ErrorKeeps, UsageErrorKeeps DEF Interrupt

(* The inductive invariant.                                                *)
LEMMA CliRunInvariant == CliSpec => []CliInv
<1>1. ASSUME CliInv, [CliNext]_cvars PROVE CliInv'
  <2>1. CASE CheckArguments
    BY <1>1, <2>1, CheckArgumentsKeeps
  <2>2. CASE EnsureRoot
    BY <1>1, <2>2, EnsureRootKeeps
  <2>3. CASE ExecWithSudo
    BY <1>1, <2>3, ExecWithSudoKeeps
  <2>4. CASE FindTools
    BY <1>1, <2>4, FindToolsKeeps
  <2>5. CASE \E from \in Phases, to \in Phases \cup {"report"} : Phase(from, to)
    BY <1>1, <2>5, PhaseKeeps
  <2>6. CASE NothingRegistered
    BY <1>1, <2>6, NothingRegisteredKeeps
  <2>7. CASE PhaseFails
    BY <1>1, <2>7, PhaseFailsKeeps
  <2>8. CASE PrintReport
    BY <1>1, <2>8, PrintReportKeeps
  <2>9. CASE PrintDocument
    BY <1>1, <2>9, PrintDocumentKeeps
  <2>10. CASE PrintReportFails \/ PrintDocumentFails \/ WriteLogFails
    BY <1>1, <2>10, UsageErrorKeeps
       DEF PrintReportFails, PrintDocumentFails, WriteLogFails, InRun
  <2>11. CASE SkipLog
    BY <1>1, <2>11, SkipLogKeeps
  <2>12. CASE WriteLog
    BY <1>1, <2>12, WriteLogKeeps
  <2>13. CASE Interrupt
    BY <1>1, <2>13, InterruptKeeps
  <2>14. CASE UNCHANGED cvars
    <3>1. CliTypeOK'
      BY <1>1, <2>14 DEF cvars, CliInv, CliTypeOK
    <3>2. Elevation'
      BY <1>1, <2>14 DEF cvars, CliInv, Elevation, MayAsk
    <3>3. Progress'
      BY <1>1, <2>14 DEF cvars, CliInv, Progress, PhasesComplete, Passed, Requested
    <3>4. Output'
      BY <1>1, <2>14 DEF cvars, CliInv, Output, DocumentAlone
    <3> QED
      BY <3>1, <3>2, <3>3, <3>4 DEF CliInv
  <2> QED
    BY <1>1, <2>1, <2>2, <2>3, <2>4, <2>5, <2>6, <2>7, <2>8, <2>9, <2>10, <2>11, <2>12, <2>13,
       <2>14 DEF CliNext, Step, Terminated
<1> QED
  BY <1>1, InitCliInv, PTL DEF CliSpec

(* A run of the command line keeps its types.                              *)
THEOREM CliTypeCorrect == CliSpec => []CliTypeOK
  BY CliRunInvariant, PTL DEF CliInv

(* With --json, a run that ends well, with or without root, prints its     *)
(* document on stdout and nothing else, over the re-execution under sudo;  *)
(* or there was nothing to report, and the last thing said on stderr is    *)
(* that.                                                                   *)
THEOREM JsonDocumentAlone == CliSpec => []DocumentAlone
<1>1. CliInv => DocumentAlone
  BY DEF CliInv, Output
<1> QED
  BY <1>1, CliRunInvariant, PTL

(* Exit code 0 says that every phase that was asked for completed, all of  *)
(* them with the privileges of the process that exits; a log is root's.    *)
THEOREM OkMeansComplete == CliSpec => []PhasesComplete
<1>1. CliInv => PhasesComplete
  BY DEF CliInv, Progress
<1> QED
  BY <1>1, CliRunInvariant, PTL

(* sudo is executed at most once, and only when asked for or agreed to on  *)
(* a terminal.                                                             *)
THEOREM ElevatedOnce == CliSpec => []ElevatedOnceOnDemand
<1>1. CliInv => ElevatedOnceOnDemand
  BY DEF CliInv, Elevation, CliTypeOK, ElevatedOnceOnDemand, MayAsk
<1> QED
  BY <1>1, CliRunInvariant, PTL
=============================================================================
