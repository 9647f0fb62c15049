--------------------------- MODULE ReportLog_proofs ---------------------------
(***************************************************************************)
(* Theorems about ReportLog, for any number of runs and of timestamps.     *)
(***************************************************************************)
EXTENDS ReportLog, FiniteSetTheorems, TLAPS

(* The runs whose report may be written, and so counted by the clock.      *)
Wrote   == {r \in Runs : pc[r] \notin {"pick", "mkstemp", "write"}}
Counted == clock <= Cardinality(Wrote)

(* What a run's temporary file holds at each of its steps.                 *)
Temps ==
  /\ \A r \in Runs : pc[r] \in {"pick", "mkstemp"} => temp[r] = NoFile
  /\ \A r \in Runs : pc[r] = "replace" => temp[r].text = "whole" /\ temp[r].by = r
  /\ NoLitter

(* Two runs share no name but a plain one, and who goes on with a plain    *)
(* one has seen no report under it.                                        *)
Picked ==
  \A r \in Runs :
    /\ pc[r] = "pick" => name[r].suffix = Plain /\ seen[r] = {}
    /\ name[r].suffix \in {Plain, r}
    /\ name[r].suffix = Plain => name[r] \notin seen[r]

(* An alias that has been resolved is a name.                              *)
Resolved ==
  /\ at \in {"resolve to", "load from", "load to", "diffed"} => path["from"] \in Names
  /\ at \in {"load from", "load to", "diffed"} => path["to"] \in Names

WritersInv == Resolved /\ TypeOK /\ Counted /\ Temps /\ Picked /\ PublishedWhole /\ SavedStays

Early == {"pick", "mkstemp", "write"}

LEMMA WroteFinite ==
  IsFiniteSet(Wrote) /\ Cardinality(Wrote) \in Nat /\ Cardinality(Wrote) <= Cardinality(Runs)
  /\ Cardinality(Runs) \in Nat
<1>1. IsFiniteSet(Runs) /\ Wrote \in SUBSET Runs
  BY ReportLogAssumption DEF Wrote
<1> QED
  BY <1>1, FS_Subset, FS_CardinalityType

LEMMA InitWriters == Init => WritersInv
<1> SUFFICES ASSUME Init PROVE WritersInv
  OBVIOUS
<1>1. clock = 0
  BY DEF Init
<1>11. at = "resolve from" /\ alias \in [Sides -> 1..Cardinality(Runs)]
  BY DEF Init
<1>2. /\ pc = [r \in Runs |-> "pick"] /\ seen = [r \in Runs |-> {}]
      /\ temp = [r \in Runs |-> NoFile] /\ logs = [n \in Names |-> NoFile]
      /\ loaded = [side \in Sides |-> NoFile]
  BY DEF Init
<1>3. name \in [Runs -> report_path] /\ path \in [Sides -> {<< >>}]
  BY DEF Init
<1>4. Cardinality(Runs) \in Nat /\ Cardinality(Wrote) \in Nat
  BY WroteFinite
<1>5. \A n \in Names : ~Exists(n)
  BY <1>2 DEF Exists, NoFile
<1>6. TypeOK
  <2>1. NoFile \in Reports
    BY <1>1 DEF NoFile, Reports
  <2>2. report_path \subseteq Names
    BY DEF report_path, Names
  <2>3. /\ pc \in [Runs -> Ended \cup {"pick", "mkstemp", "write", "replace"}]
        /\ seen \in [Runs -> SUBSET Names]
    BY <1>2
  <2>4. name \in [Runs -> Names] /\ path \in [Sides -> Names \cup {<< >>}]
    BY <1>3, <2>2
  <2>5. temp \in [Runs -> Reports] /\ logs \in [Names -> Reports]
        /\ loaded \in [Sides -> Reports]
    BY <1>2, <2>1
  <2>6. alias \in [Sides -> Nat \ {0}]
    <3>1. 1..Cardinality(Runs) \subseteq Nat \ {0}
      BY <1>4
    <3> DEFINE places == 1..Cardinality(Runs)
               positive == Nat \ {0}
    <3>2. places \subseteq positive /\ alias \in [Sides -> places]
      BY <1>11, <3>1
    <3> HIDE DEF places, positive
    <3>3. alias \in [Sides -> positive]
      BY <3>2
    <3> QED
      BY <3>3 DEF positive
  <2>7. clock \in 0..Cardinality(Runs)
    BY <1>1, <1>4
  <2> QED
    BY <1>11, <2>7, <2>3, <2>4, <2>5, <2>6 DEF TypeOK
<1>7. Counted
  BY <1>1, <1>4 DEF Counted
<1>8. Temps
  <2>1. \A r \in Runs : pc[r] = "pick" /\ temp[r] = NoFile
    BY <1>2
  <2> QED
    BY <2>1 DEF Temps, NoLitter
<1>9. Picked
  <2>1. \A r \in Runs : pc[r] = "pick" /\ name[r] \in report_path /\ seen[r] = {}
    BY <1>2, <1>3
  <2>2. \A n \in report_path : n.suffix = Plain
    BY DEF report_path
  <2> QED
    BY <2>1, <2>2 DEF Picked
<1>10. PublishedWhole /\ SavedStays /\ Resolved
  BY <1>2, <1>5, <1>11 DEF PublishedWhole, SavedStays, Existing, Resolved
<1> QED
  BY <1>6, <1>7, <1>8, <1>9, <1>10 DEF WritersInv

-----------------------------------------------------------------------------
(* The type invariant in three parts: of the runs, of the reader, and the  *)
(* clock.                                                                  *)

RunTypes ==
  /\ pc \in [Runs -> Ended \cup {"pick", "mkstemp", "write", "replace"}]
  /\ name \in [Runs -> Names]
  /\ seen \in [Runs -> SUBSET Names]
  /\ temp \in [Runs -> Reports]
  /\ logs \in [Names -> Reports]

ReaderTypes ==
  /\ at \in {"resolve from", "resolve to", "load from", "load to",
             "diffed", "error", "no such log"}
  /\ alias \in [Sides -> Nat \ {0}]
  /\ path \in [Sides -> Names \cup {<< >>}]
  /\ loaded \in [Sides -> Reports]

LEMMA TypeParts == TypeOK <=> RunTypes /\ ReaderTypes /\ clock \in 0..Cardinality(Runs)
  BY DEF TypeOK, RunTypes, ReaderTypes

LEMMA ReportsGrow ==
  ASSUME clock \in Nat, clock' \in Nat, clock <= clock'
  PROVE  Reports \subseteq Reports'
<1>1. 0..clock \subseteq 0..clock'
  OBVIOUS
<1> QED
  BY <1>1 DEF Reports

LEMMA ReaderUntouched ==
  ASSUME ReaderTypes, Resolved, Reports \subseteq Reports', UNCHANGED reader
  PROVE  ReaderTypes' /\ Resolved'
<1>1. UNCHANGED <<at, alias, path, loaded>>
  BY DEF reader
<1>2. loaded \in [Sides -> Reports']
  BY DEF ReaderTypes
<1> QED
  BY <1>1, <1>2 DEF ReaderTypes, Resolved

(* A step of one run that moves it from one place to a later one, and      *)
(* leaves the clock alone, leaves room for the clock.                      *)
LEMMA CountKept ==
  ASSUME Counted, clock \in Nat, RunTypes, NEW r \in Runs, NEW from, NEW to,
         Goto(r, from, to), from \in Early \/ to \notin Early, clock' = clock
  PROVE  Counted'
<1>1. Wrote \subseteq Wrote'
  BY DEF Wrote, Goto, Early, RunTypes
<1>2. IsFiniteSet(Wrote')
  <2>1. IsFiniteSet(Runs) /\ Wrote' \in SUBSET Runs
    BY ReportLogAssumption DEF Wrote
  <2> QED
    BY <2>1, FS_Subset
<1>3. Cardinality(Wrote) <= Cardinality(Wrote')
  BY <1>1, <1>2, FS_Subset
<1>4. Cardinality(Wrote) \in Nat /\ Cardinality(Wrote') \in Nat
  BY <1>2, WroteFinite, FS_CardinalityType
<1> QED
  BY <1>3, <1>4 DEF Counted

LEMMA PickKeeps ==
  ASSUME WritersInv, NEW r \in Runs, Pick(r) \/ PickFails(r)
  PROVE  WritersInv'
<1>1. /\ pc[r] = "pick" /\ pc' = [pc EXCEPT ![r] = "mkstemp"]
      /\ UNCHANGED <<temp, logs, clock, reader>>
  BY DEF Pick, PickFails, Goto
<1>2. RunTypes /\ ReaderTypes /\ clock \in Nat /\ Resolved
  BY TypeParts, WroteFinite DEF WritersInv
<1>3. Counted'
  <2>1. Goto(r, "pick", "mkstemp") /\ "pick" \in Early
    BY DEF Pick, PickFails, Early
  <2> QED
    BY <1>1, <1>2, <2>1, CountKept DEF WritersInv
<1>4. /\ name' \in [Runs -> Names] /\ seen' \in [Runs -> SUBSET Names]
      /\ \A q \in Runs \ {r} : name'[q] = name[q] /\ seen'[q] = seen[q]
  BY <1>2 DEF Pick, PickFails, RunTypes, Names, Existing
<1>5. name'[r].suffix \in {Plain, r} /\ (name'[r].suffix = Plain => name'[r] \notin seen'[r])
  <2>1. name[r] \in Names /\ name[r].suffix = Plain /\ seen[r] = {} /\ r # Plain
    BY <1>1, <1>2, ReportLogAssumption DEF RunTypes, WritersInv, Picked
  <2>2. CASE PickFails(r)
    BY <2>1, <2>2 DEF PickFails
  <2>3. CASE Pick(r) /\ Exists(name[r])
    BY <1>2, <2>1, <2>3 DEF Pick, RunTypes, Names
  <2>4. CASE Pick(r) /\ ~Exists(name[r])
    <3>1. name'[r] = [name[r] EXCEPT !.suffix = Plain] /\ seen'[r] = Existing
      BY <1>2, <2>4 DEF Pick, RunTypes
    <3>2. name'[r] = name[r]
      BY <2>1, <3>1 DEF Names
    <3> QED
      BY <2>1, <2>4, <3>1, <3>2 DEF Existing
  <2> QED
    BY <2>2, <2>3, <2>4
<1>6. Reports' = Reports
  BY <1>1 DEF Reports
<1>7. TypeOK' /\ Resolved'
  <2>1. RunTypes'
    BY <1>1, <1>2, <1>4, <1>6 DEF RunTypes
  <2>2. ReaderTypes' /\ Resolved'
    BY <1>1, <1>2, <1>6, ReaderUntouched
  <2> QED
    BY <1>1, <2>1, <2>2 DEF WritersInv, TypeOK, RunTypes, ReaderTypes
<1>8. Temps'
  BY <1>1, <1>2 DEF Temps, NoLitter, WritersInv, RunTypes
<1>9. Picked'
  BY <1>1, <1>2, <1>4, <1>5 DEF Picked, WritersInv, RunTypes
<1>10. PublishedWhole'
  BY <1>1, <1>2, <1>4 DEF PublishedWhole, Existing, Exists, WritersInv, RunTypes
<1>11. SavedStays'
  BY <1>1, <1>2, <1>4 DEF SavedStays, WritersInv, RunTypes
<1> QED
  BY <1>3, <1>7, <1>8, <1>9, <1>10, <1>11 DEF WritersInv

(* What a run does between its choice of a name and the rename, and every  *)
(* way it can fail there.                                                  *)
Work(r) ==
  \/ MakeTemp(r) \/ MakeTempFails(r) \/ Write(r) \/ WriteUnencodable(r)
  \/ WriteFails(r) \/ UnlinkFails(r) \/ Killed(r)

LEMMA WorkCounts ==
  ASSUME WritersInv, NEW r \in Runs, Work(r)
  PROVE  Counted' /\ clock' \in Nat /\ clock <= clock'
<1>1. RunTypes /\ clock \in Nat /\ Counted
  BY TypeParts, WroteFinite DEF WritersInv
<1>2. CASE Write(r)
  <2>1. Wrote' = Wrote \cup {r} /\ r \notin Wrote /\ clock' = clock + 1
    BY <1>1, <1>2 DEF Write, Goto, Wrote, RunTypes
  <2>2. Cardinality(Wrote') = Cardinality(Wrote) + 1
    BY <2>1, WroteFinite, FS_AddElement
  <2> QED
    BY <1>1, <2>1, <2>2, WroteFinite DEF Counted
<1>3. CASE ~Write(r)
  <2>1. clock' = clock
    BY <1>3 DEF Work, MakeTemp, MakeTempFails, WriteUnencodable, WriteFails, UnlinkFails, Killed
  <2>2. \E from, to : Goto(r, from, to) /\ (from \in Early \/ to \notin Early)
    BY <1>3 DEF Work, MakeTemp, MakeTempFails, WriteUnencodable, WriteFails, UnlinkFails, Killed,
                Early
  <2> QED
    BY <1>1, <2>1, <2>2, CountKept
<1> QED
  BY <1>2, <1>3

LEMMA WorkKeeps ==
  ASSUME WritersInv, NEW r \in Runs, Work(r)
  PROVE  WritersInv'
<1>1. RunTypes /\ ReaderTypes /\ clock \in Nat /\ Resolved
  BY TypeParts, WroteFinite DEF WritersInv
<1>2. Counted' /\ clock' \in Nat /\ clock <= clock'
  BY WorkCounts
<1>3. Reports \subseteq Reports'
  BY <1>1, <1>2, ReportsGrow
<1>4. UNCHANGED <<name, seen, logs, reader>>
  BY DEF Work, MakeTemp, MakeTempFails, Write, WriteUnencodable, WriteFails, UnlinkFails, Killed
<1>5. /\ pc[r] \in {"pick", "mkstemp", "write", "replace"}
      /\ pc' \in [Runs -> Ended \cup {"pick", "mkstemp", "write", "replace"}]
      /\ pc'[r] \in {"write", "replace", "warned", "littered", "traceback", "killed"}
      /\ \A q \in Runs \ {r} : pc'[q] = pc[q]
  BY <1>1 DEF Work, MakeTemp, MakeTempFails, Write, WriteUnencodable, WriteFails, UnlinkFails,
              Killed, Goto, RunTypes, Ended
<1>6. /\ temp' \in [Runs -> Reports']
      /\ \A q \in Runs \ {r} : temp'[q] = temp[q]
      /\ pc'[r] = "replace" => temp'[r].text = "whole" /\ temp'[r].by = r
      /\ pc'[r] = "warned" => temp'[r].text = "none"
  <2>1. temp \in [Runs -> Reports']
    BY <1>1, <1>3 DEF RunTypes
  <2>2. CASE MakeTemp(r)
    <3>1. pc'[r] = "write" /\ temp' = [temp EXCEPT ![r] = [temp[r] EXCEPT !.text = "partial"]]
      BY <1>1, <2>2 DEF MakeTemp, Goto, RunTypes
    <3>2. [temp[r] EXCEPT !.text = "partial"] \in Reports'
      BY <2>1 DEF Reports
    <3> QED
      BY <2>1, <3>1, <3>2
  <2>3. CASE Write(r)
    <3>1. [text |-> "whole", mtime |-> clock + 1, by |-> r] \in Reports'
      <4>1. clock' = clock + 1 /\ clock + 1 \in 0..clock'
        BY <1>1, <2>3 DEF Write
      <4> QED
        BY <4>1 DEF Reports
    <3>2. pc'[r] = "replace"
      BY <1>1, <2>3 DEF Write, Goto, RunTypes
    <3> QED
      BY <2>1, <2>3, <3>1, <3>2 DEF Write
  <2>4. CASE WriteFails(r)
    <3>1. NoFile \in Reports'
      <4>1. 0 \in 0..clock'
        BY <1>2
      <4> QED
        BY <4>1 DEF NoFile, Reports
    <3>2. temp' = [temp EXCEPT ![r] = NoFile] /\ pc'[r] = "warned" /\ NoFile.text = "none"
      BY <1>1, <2>4 DEF WriteFails, Goto, RunTypes, NoFile
    <3> QED
      BY <2>1, <3>1, <3>2
  <2>5. CASE MakeTempFails(r)
    <3>1. pc[r] = "mkstemp" /\ temp' = temp /\ pc'[r] = "warned"
      BY <1>1, <2>5 DEF MakeTempFails, Goto, RunTypes
    <3>2. temp[r].text = "none"
      BY <3>1 DEF WritersInv, Temps, NoFile
    <3> QED
      BY <2>1, <3>1, <3>2
  <2>6. CASE WriteUnencodable(r) \/ UnlinkFails(r) \/ Killed(r)
    <3>1. temp' = temp /\ pc'[r] \notin {"replace", "warned"}
      BY <1>1, <2>6 DEF WriteUnencodable, UnlinkFails, Killed, Goto, RunTypes
    <3> QED
      BY <2>1, <3>1
  <2> QED
    BY <2>2, <2>3, <2>4, <2>5, <2>6 DEF Work
<1>7. TypeOK' /\ Resolved'
  <2>1. logs \in [Names -> Reports']
    BY <1>1, <1>3 DEF RunTypes
  <2>2. ReaderTypes' /\ Resolved'
    BY <1>1, <1>3, <1>4, ReaderUntouched
  <2>3. clock' \in 0..Cardinality(Runs)
    <3>1. IsFiniteSet(Runs) /\ Wrote' \in SUBSET Runs
      BY ReportLogAssumption DEF Wrote
    <3>2. IsFiniteSet(Wrote') /\ Cardinality(Wrote') <= Cardinality(Runs)
      BY <3>1, FS_Subset
    <3>3. Cardinality(Wrote') \in Nat /\ Cardinality(Runs) \in Nat
      BY <3>1, <3>2, FS_CardinalityType
    <3> QED
      BY <1>2, <3>2, <3>3 DEF Counted
  <2> QED
    BY <1>1, <1>4, <1>5, <1>6, <2>1, <2>2, <2>3 DEF TypeOK, RunTypes, ReaderTypes
<1>8. Temps'
  BY <1>5, <1>6 DEF Temps, NoLitter, WritersInv
<1>9. Picked'
  BY <1>4, <1>5 DEF Picked, WritersInv
<1>10. PublishedWhole'
  BY <1>4, <1>5 DEF PublishedWhole, Existing, Exists, WritersInv
<1>11. SavedStays'
  BY <1>4, <1>5 DEF SavedStays, WritersInv
<1> QED
  BY <1>2, <1>7, <1>8, <1>9, <1>10, <1>11 DEF WritersInv

(* A run puts its report under its name: the one step that can overwrite.  *)
LEMMA ReplaceKeeps ==
  ASSUME WritersInv, NEW r \in Runs, Replace(r)
  PROVE  WritersInv'
<1>1. RunTypes /\ ReaderTypes /\ clock \in Nat /\ Resolved
  BY TypeParts, WroteFinite DEF WritersInv
<1>2. /\ pc[r] = "replace" /\ pc' = [pc EXCEPT ![r] = "saved"]
      /\ logs' = [logs EXCEPT ![name[r]] = temp[r]]
      /\ temp' = [temp EXCEPT ![r] = NoFile]
      /\ UNCHANGED <<name, seen, clock, reader>>
  BY DEF Replace, Goto
<1>3. temp[r].text = "whole" /\ temp[r].by = r
  BY <1>2 DEF WritersInv, Temps
<1>4. name[r] \in Names /\ \A n \in Names : logs'[n] = IF n = name[r] THEN temp[r] ELSE logs[n]
  BY <1>1, <1>2 DEF RunTypes
<1>5. /\ pc'[r] = "saved" /\ temp'[r] = NoFile
      /\ \A q \in Runs \ {r} : pc'[q] = pc[q] /\ temp'[q] = temp[q]
  BY <1>1, <1>2 DEF RunTypes
<1>6. Reports' = Reports
  BY <1>2 DEF Reports
<1>7. Counted'
  <2>1. Goto(r, "replace", "saved") /\ "saved" \notin Early
    BY DEF Replace, Early
  <2> QED
    BY <1>1, <1>2, <2>1, CountKept DEF WritersInv
<1>8. TypeOK' /\ Resolved'
  <2>1. NoFile \in Reports
    <3>1. 0 \in 0..clock
      BY <1>1
    <3> QED
      BY <3>1 DEF NoFile, Reports
  <2>2. RunTypes'
    BY <1>1, <1>2, <1>6, <2>1 DEF RunTypes, Ended
  <2>3. ReaderTypes' /\ Resolved'
    BY <1>1, <1>2, <1>6, ReaderUntouched
  <2> QED
    BY <1>2, <2>2, <2>3 DEF WritersInv, TypeOK, RunTypes, ReaderTypes
<1>9. Temps'
  BY <1>5 DEF Temps, NoLitter, NoFile, WritersInv
<1>10. Picked'
  BY <1>2, <1>5 DEF Picked, WritersInv
<1>11. PublishedWhole'
  <2> SUFFICES ASSUME NEW n \in Names, Exists(n)'
               PROVE  /\ logs'[n].text = "whole"
                      /\ \E q \in Runs : q = logs'[n].by /\ pc'[q] = "saved" /\ name'[q] = n
    BY DEF PublishedWhole, Existing
  <2>1. CASE n = name[r]
    BY <1>2, <1>3, <1>4, <1>5, <2>1
  <2>2. CASE n # name[r]
    <3>1. n \in Existing /\ logs'[n] = logs[n]
      BY <1>4, <2>2 DEF Exists, Existing
    <3> QED
      BY <1>2, <1>5, <3>1 DEF PublishedWhole, WritersInv
  <2> QED
    BY <2>1, <2>2
<1>12. SavedStays'
  <2> SUFFICES ASSUME NEW q \in Runs, pc'[q] = "saved"
               PROVE  \/ logs'[name[q]].by = q
                      \/ \E o \in Runs \ {q} :
                           name[o] = name[q] /\ pc'[o] = "saved" /\ name[o] \notin seen[o]
    BY <1>2 DEF SavedStays
  <2>1. name[q] \in Names
    BY <1>1 DEF RunTypes
  <2>2. CASE name[q] # name[r]
    BY <1>4, <1>5, <2>1, <2>2 DEF SavedStays, WritersInv
  <2>3. CASE q = r
    BY <1>3, <1>4, <2>3
  <2>4. CASE q # r /\ name[q] = name[r]
    <3>1. name[r].suffix \in {Plain, r} /\ name[r].suffix \in {Plain, q} /\ r # q
      BY <2>4 DEF WritersInv, Picked
    <3>2. name[r] \notin seen[r]
      BY <3>1 DEF WritersInv, Picked
    <3> QED
      BY <1>5, <2>4, <3>2
  <2> QED
    BY <2>2, <2>3, <2>4
<1> QED
  BY <1>7, <1>8, <1>9, <1>10, <1>11, <1>12 DEF WritersInv

-----------------------------------------------------------------------------
(* The reader.  While no report has been overwritten, logs only appear:    *)
(* the rank of a log, the number of newer ones, never goes down.           *)

InOrder(older, newer) ==
  /\ alias["from"] > alias["to"] => older < newer
  /\ alias["from"] = alias["to"] => older <= newer

Directed ==
  Overwritten = {} =>
    /\ at = "resolve to" =>
         path["from"] \in Existing /\ alias["from"] <= Rank(path["from"])
    /\ at \in {"load from", "load to", "diffed"} =>
         /\ path["from"] \in Existing /\ path["to"] \in Existing
         /\ InOrder(logs[path["from"]].mtime, logs[path["to"]].mtime)
    /\ at \in {"load to", "diffed"} => loaded["from"].mtime = logs[path["from"]].mtime
    /\ at = "diffed" => loaded["to"].mtime = logs[path["to"]].mtime

IInv == WritersInv /\ Directed

LEMMA FiniteByRuns ==
  ASSUME NEW S, NEW f \in [S -> Runs], \A x, y \in S : f[x] = f[y] => x = y
  PROVE  IsFiniteSet(S)
<1>1. f \in Injection(S, Runs)
  BY DEF Injection, IsInjective
<1> QED
  BY <1>1, ReportLogAssumption, FS_Injection

LEMMA ExistingFinite == PublishedWhole => IsFiniteSet(Existing)
<1> SUFFICES ASSUME PublishedWhole PROVE IsFiniteSet(Existing)
  OBVIOUS
<1> DEFINE writer == [n \in Existing |-> logs[n].by]
<1>1. \A n \in Existing : writer[n] \in Runs /\ name[writer[n]] = n
  BY DEF PublishedWhole
<1>2. writer \in [Existing -> Runs]
  BY <1>1
<1>3. \A m, n \in Existing : writer[m] = writer[n] => m = n
  BY <1>1
<1> HIDE DEF writer
<1> QED
  BY <1>2, <1>3, FiniteByRuns

LEMMA RankIsCount ==
  ASSUME IsFiniteSet(Existing), NEW n
  PROVE  /\ IsFiniteSet({m \in Existing : Newer(m, n)})
         /\ Cardinality({m \in Existing : Newer(m, n)}) \in Nat
<1>1. {m \in Existing : Newer(m, n)} \in SUBSET Existing
  OBVIOUS
<1> QED
  BY <1>1, FS_Subset, FS_CardinalityType

(* Of two logs, the one with the greater rank is the older one.            *)
LEMMA RankOrders ==
  ASSUME IsFiniteSet(Existing), NEW m \in Existing, NEW n \in Existing,
         logs[m].mtime \in Nat, logs[n].mtime \in Nat,
         \A k \in Existing : logs[k].mtime \in Nat
  PROVE  /\ Rank(m) > Rank(n) => logs[m].mtime < logs[n].mtime
         /\ Rank(m) >= Rank(n) => logs[m].mtime <= logs[n].mtime
<1> DEFINE M == {k \in Existing : Newer(k, m)}
           N == {k \in Existing : Newer(k, n)}
<1>1. IsFiniteSet(M) /\ IsFiniteSet(N) /\ Cardinality(M) \in Nat /\ Cardinality(N) \in Nat
  BY RankIsCount
<1>2. logs[m].mtime >= logs[n].mtime => M \subseteq N
  BY DEF Newer
<1>3. logs[m].mtime > logs[n].mtime => m \in N /\ m \notin M
  BY DEF Newer
<1> HIDE DEF M, N
<1>4. M \subseteq N => Cardinality(M) <= Cardinality(N)
  BY <1>1, FS_Subset
<1>5. M \subseteq N /\ m \in N /\ m \notin M => Cardinality(M) < Cardinality(N)
  <2> SUFFICES ASSUME M \subseteq N, m \in N, m \notin M PROVE Cardinality(M) < Cardinality(N)
    OBVIOUS
  <2>1. Cardinality(M) <= Cardinality(N) /\ Cardinality(M) # Cardinality(N)
    BY <1>1, FS_Subset
  <2> QED
    BY <1>1, <2>1
<1>6. Rank(m) = 1 + Cardinality(M) /\ Rank(n) = 1 + Cardinality(N)
  BY DEF Rank, M, N
<1> QED
  BY <1>1, <1>2, <1>3, <1>4, <1>5, <1>6

(* What is overwritten stays overwritten, and so, if nothing has been by   *)
(* the end of a step, the step left every log as it was.                   *)
LEMMA NothingOverwritten ==
  ASSUME WritersInv, NEW r \in Runs, Writer(r), Overwritten' = {}
  PROVE  /\ Overwritten = {}
         /\ \A n \in Existing : n \in Existing' /\ logs'[n] = logs[n]
<1>1. RunTypes
  BY TypeParts DEF WritersInv
<1>2. CASE Replace(r)
  <2>1. /\ pc[r] = "replace" /\ name' = name
        /\ name[r] \in Names /\ \A n \in Names : logs'[n] = IF n = name[r] THEN temp[r] ELSE logs[n]
        /\ \A q \in Runs \ {r} : pc'[q] = pc[q]
    BY <1>1, <1>2 DEF Replace, Goto, RunTypes
  <2>2. temp[r].by = r
    BY <2>1 DEF WritersInv, Temps
  <2>3. name[r] \notin Existing
    <3> SUFFICES ASSUME name[r] \in Existing PROVE FALSE
      OBVIOUS
    <3>1. PICK q \in Runs : q = logs[name[r]].by /\ pc[q] = "saved" /\ name[q] = name[r]
      BY DEF WritersInv, PublishedWhole
    <3>2. q # r /\ q \in Overwritten'
      BY <2>1, <2>2, <3>1 DEF Overwritten
    <3> QED
      BY <3>2
  <2>4. \A n \in Existing : n \in Existing' /\ logs'[n] = logs[n]
    BY <2>1, <2>3 DEF Existing, Exists
  <2>5. Overwritten = {}
    <3> SUFFICES ASSUME NEW q \in Runs, pc[q] = "saved", logs[name[q]].by # q PROVE FALSE
      BY DEF Overwritten
    <3>1. q # r /\ pc'[q] = "saved" /\ name[q] \in Names
      BY <1>1, <2>1 DEF RunTypes
    <3>2. logs'[name[q]].by # q
      BY <2>1, <2>2, <3>1
    <3> QED
      BY <2>1, <3>1, <3>2 DEF Overwritten
  <2> QED
    BY <2>4, <2>5
<1>3. CASE Pick(r) \/ PickFails(r) \/ Work(r)
  <2>1. logs' = logs
    BY <1>3 DEF Pick, PickFails, Work, MakeTemp, MakeTempFails, Write, WriteUnencodable, WriteFails,
                UnlinkFails, Killed
  <2>2. /\ pc[r] # "saved"
        /\ \A q \in Runs \ {r} : pc'[q] = pc[q] /\ name'[q] = name[q]
    BY <1>1, <1>3 DEF Pick, PickFails, Work, MakeTemp, MakeTempFails, Write, WriteUnencodable,
                      WriteFails, UnlinkFails, Killed, Goto, RunTypes
  <2>3. Existing' = Existing
    BY <2>1 DEF Existing, Exists
  <2>4. Overwritten \subseteq Overwritten'
    BY <2>1, <2>2 DEF Overwritten
  <2> QED
    BY <2>1, <2>3, <2>4
<1> QED
  BY <1>2, <1>3 DEF Writer, Work

LEMMA WriterKeepsDirected ==
  ASSUME IInv, NEW r \in Runs, Writer(r), WritersInv'
  PROVE  Directed'
<1> SUFFICES ASSUME Overwritten' = {} PROVE Directed'
  BY DEF Directed
<1>1. Overwritten = {} /\ \A n \in Existing : n \in Existing' /\ logs'[n] = logs[n]
  BY NothingOverwritten DEF IInv
<1>2. UNCHANGED <<at, alias, path, loaded>>
  BY DEF Writer, Pick, PickFails, MakeTemp, MakeTempFails, Write, WriteUnencodable, Replace,
         WriteFails, UnlinkFails, Killed, reader
<1>3. Directed
  BY DEF IInv
<1>4. \A n \in Existing : Rank(n) <= Rank(n)' /\ Rank(n) \in Nat /\ Rank(n)' \in Nat
  <2> TAKE n \in Existing
  <2> DEFINE before == {m \in Existing : Newer(m, n)}
             after  == {m \in Existing' : logs'[m].mtime > logs'[n].mtime}
  <2>1. before \subseteq after
    BY <1>1 DEF Newer
  <2>2. (PublishedWhole => IsFiniteSet(Existing))'
    BY ExistingFinite, PTL
  <2>3. IsFiniteSet(after) /\ after \in SUBSET Existing'
    <3>1. after \in SUBSET Existing'
      OBVIOUS
    <3>2. IsFiniteSet(Existing')
      BY <2>2 DEF WritersInv
    <3> HIDE DEF after
    <3> QED
      BY <3>1, <3>2, FS_Subset
  <2>4. Rank(n) = 1 + Cardinality(before) /\ Rank(n)' = 1 + Cardinality(after)
    BY DEF Rank, Newer
  <2> HIDE DEF before, after
  <2>5. IsFiniteSet(before) /\ Cardinality(before) <= Cardinality(after)
    BY <2>1, <2>3, FS_Subset
  <2>6. Cardinality(before) \in Nat /\ Cardinality(after) \in Nat
    BY <2>3, <2>5, FS_CardinalityType
  <2> QED
    BY <2>4, <2>5, <2>6
<1>5. ASSUME at' = "resolve to"
      PROVE  (path["from"] \in Existing /\ alias["from"] <= Rank(path["from"]))'
  <2>1. at = "resolve to" /\ path["from"] \in Existing /\ alias["from"] <= Rank(path["from"])
    BY <1>1, <1>2, <1>3, <1>5 DEF Directed
  <2>2. alias["from"] \in Nat
    BY TypeParts DEF IInv, WritersInv, ReaderTypes, Sides
  <2>3. PICK n \in Existing : n = path["from"]
    BY <2>1
  <2>4. alias["from"] <= Rank(n) /\ Rank(n) <= Rank(n)' /\ Rank(n) \in Nat /\ Rank(n)' \in Nat
    BY <1>4, <2>1, <2>3
  <2>5. alias["from"] <= Rank(n)'
    BY <2>2, <2>4
  <2>6. path'["from"] = n /\ alias' = alias /\ n \in Existing'
    BY <1>1, <1>2, <2>3
  <2> QED
    BY <2>5, <2>6
<1> QED
  BY <1>1, <1>2, <1>3, <1>5 DEF Directed, InOrder

(* A step of --diff leaves the runs and the logs alone.                    *)
LEMMA ReaderKeepsRuns ==
  ASSUME WritersInv, UNCHANGED <<writers, logs>>, ReaderTypes', Resolved'
  PROVE  WritersInv'
<1>1. UNCHANGED <<pc, name, seen, temp, clock, logs>>
  BY DEF writers
<1>2. TypeOK'
  BY <1>1 DEF WritersInv, TypeOK, ReaderTypes, Reports
<1>3. Counted' /\ Temps' /\ Picked'
  BY <1>1 DEF WritersInv, Counted, Wrote, Temps, NoLitter, Picked
<1>4. PublishedWhole' /\ SavedStays'
  BY <1>1 DEF WritersInv, PublishedWhole, Existing, Exists, SavedStays
<1> QED
  BY <1>2, <1>3, <1>4 DEF WritersInv

LEMMA TimesAreNat == RunTypes /\ clock \in Nat => \A n \in Names : logs[n].mtime \in Nat
<1> SUFFICES ASSUME RunTypes, clock \in Nat, NEW n \in Names PROVE logs[n].mtime \in Nat
  OBVIOUS
<1>1. logs[n] \in Reports /\ 0..clock \subseteq Nat
  BY DEF RunTypes
<1> QED
  BY <1>1 DEF Reports

(* What Directed compares depends on the logs and on the runs only.        *)
LEMMA LogsUntouched ==
  ASSUME UNCHANGED <<writers, logs>>
  PROVE  /\ Overwritten' = Overwritten
         /\ Existing' = Existing
         /\ \A n : Rank(n)' = Rank(n)
<1>1. UNCHANGED <<pc, name, logs>>
  BY DEF writers
<1> QED
  BY <1>1 DEF Overwritten, Existing, Exists, Rank, Newer

ResolveBoth == \/ Resolve("from", "resolve from", "resolve to")
               \/ Resolve("to", "resolve to", "load from")
LoadBoth    == Load("from", "load from", "load to") \/ Load("to", "load to", "diffed")

LEMMA ResolveKeeps ==
  ASSUME IInv, ResolveBoth
  PROVE  IInv'
<1>1. RunTypes /\ ReaderTypes /\ Resolved /\ clock \in Nat /\ WritersInv /\ Directed
  <2>1. WritersInv /\ Directed
    BY DEF IInv
  <2>2. RunTypes /\ ReaderTypes /\ Resolved /\ clock \in Nat
    BY <2>1, TypeParts, WroteFinite DEF WritersInv
  <2> QED
    BY <2>1, <2>2
<1>2. UNCHANGED <<writers, logs, alias, loaded>>
  BY DEF ResolveBoth, Resolve
<1>3. Overwritten' = Overwritten /\ Existing' = Existing /\ \A n : Rank(n)' = Rank(n)
  BY <1>2, LogsUntouched
<1>4. clock' = clock /\ Reports' = Reports /\ logs' = logs
  BY <1>2 DEF writers, Reports
<1>5. CASE at' = "no such log"
  <2>1. path' = path
    BY <1>5 DEF ResolveBoth, Resolve
  <2>2. ReaderTypes' /\ Resolved'
    BY <1>1, <1>2, <1>4, <1>5, <2>1 DEF ReaderTypes, Resolved
  <2>3. Directed'
    BY <1>5 DEF Directed
  <2> QED
    BY <1>1, <1>2, <2>2, <2>3, ReaderKeepsRuns DEF IInv
<1>6. CASE at' # "no such log" /\ at = "resolve from"
  <2>1. PICK n \in Existing : /\ Rank(n) = alias["from"]
                              /\ path' = [path EXCEPT !["from"] = n]
                              /\ at' = "resolve to"
    BY <1>6 DEF ResolveBoth, Resolve
  <2>2. path' \in [Sides -> Names \cup {<< >>}] /\ path'["from"] = n
    BY <1>1, <2>1 DEF ReaderTypes, Sides, Existing
  <2>3. ReaderTypes' /\ Resolved'
    BY <1>1, <1>2, <1>4, <2>1, <2>2 DEF ReaderTypes, Resolved, Existing
  <2>4. Directed'
    <3>1. Rank(n)' = Rank(n) /\ n \in Existing'
      BY <1>3
    <3>2. Rank(n) \in Nat
      <4>1. IsFiniteSet(Existing)
        BY <1>1, ExistingFinite DEF WritersInv
      <4> QED
        BY <4>1, RankIsCount DEF Rank
    <3>3. Rank(n) <= Rank(n)
      BY <3>2
    <3>4. alias'["from"] <= Rank(n)'
      BY <1>2, <2>1, <3>1, <3>3
    <3> QED
      BY <2>1, <2>2, <3>1, <3>4 DEF Directed
  <2> QED
    BY <1>1, <1>2, <2>3, <2>4, ReaderKeepsRuns DEF IInv
<1>7. CASE at' # "no such log" /\ at = "resolve to"
  <2>1. PICK n \in Existing : /\ Rank(n) = alias["to"]
                              /\ path' = [path EXCEPT !["to"] = n]
                              /\ at' = "load from"
    BY <1>7 DEF ResolveBoth, Resolve
  <2>2. /\ path' \in [Sides -> Names \cup {<< >>}]
        /\ path'["to"] = n /\ path'["from"] = path["from"]
    BY <1>1, <2>1 DEF ReaderTypes, Sides, Existing
  <2>3. ReaderTypes' /\ Resolved'
    BY <1>1, <1>2, <1>4, <1>7, <2>1, <2>2 DEF ReaderTypes, Resolved, Existing
  <2>4. /\ at' = "load from" /\ alias' = alias /\ logs' = logs
        /\ path'["to"] = n /\ path'["from"] = path["from"] /\ n \in Existing'
    BY <1>2, <1>3, <1>4, <2>1, <2>2
  <2>5. ASSUME Overwritten = {}
        PROVE  /\ path["from"] \in Existing
               /\ InOrder(logs[path["from"]].mtime, logs[n].mtime)
    <3>1. PICK m \in Existing : m = path["from"] /\ alias["from"] <= Rank(m)
      BY <1>1, <1>7, <2>5 DEF Directed
    <3>2. IsFiniteSet(Existing) /\ \A k \in Existing : logs[k].mtime \in Nat
      BY <1>1, ExistingFinite, TimesAreNat DEF WritersInv, Existing
    <3>3. /\ Rank(m) > Rank(n) => logs[m].mtime < logs[n].mtime
          /\ Rank(m) >= Rank(n) => logs[m].mtime <= logs[n].mtime
      BY <3>2, RankOrders
    <3>4. Rank(m) \in Nat /\ Rank(n) \in Nat
      BY <3>2, RankIsCount DEF Rank
    <3>5. alias["from"] \in Nat /\ alias["to"] \in Nat
      BY <1>1 DEF ReaderTypes, Sides
    <3>6. Rank(n) = alias["to"] /\ alias["from"] <= Rank(m)
      BY <2>1, <3>1
    <3>7. InOrder(logs[m].mtime, logs[n].mtime)
      BY <3>3, <3>4, <3>5, <3>6 DEF InOrder
    <3> QED
      BY <3>1, <3>7
  <2>6. Directed'
    BY <1>3, <2>4, <2>5 DEF Directed, InOrder
  <2> QED
    BY <1>1, <1>2, <2>3, <2>6, ReaderKeepsRuns DEF IInv
<1> QED
  BY <1>5, <1>6, <1>7 DEF ResolveBoth, Resolve

LEMMA LoadKeeps ==
  ASSUME IInv, LoadBoth
  PROVE  IInv'
<1>1. RunTypes /\ ReaderTypes /\ Resolved /\ WritersInv /\ Directed
  BY TypeParts DEF IInv, WritersInv
<1>2. UNCHANGED <<writers, logs, alias, path>>
  BY DEF LoadBoth, Load
<1>3. Overwritten' = Overwritten /\ Existing' = Existing
  BY <1>2, LogsUntouched
<1>4. Reports' = Reports /\ logs' = logs
  BY <1>2 DEF writers, Reports
<1>5. \A side \in Sides : path[side] \in Names
  BY <1>1 DEF Resolved, Sides, LoadBoth, Load
<1>6. CASE at' = "error"
  <2>1. loaded' = loaded
    BY <1>6 DEF LoadBoth, Load
  <2>2. ReaderTypes' /\ Resolved' /\ Directed'
    BY <1>1, <1>2, <1>4, <1>6, <2>1 DEF ReaderTypes, Resolved, Directed
  <2> QED
    BY <1>1, <1>2, <2>2, ReaderKeepsRuns DEF IInv
<1>7. CASE at = "load from" /\ at' = "load to"
  <2>1. loaded' = [loaded EXCEPT !["from"] = logs[path["from"]]]
    BY <1>7 DEF LoadBoth, Load
  <2>2. loaded' \in [Sides -> Reports] /\ loaded'["from"] = logs[path["from"]]
    BY <1>1, <1>5, <2>1 DEF ReaderTypes, RunTypes, Sides
  <2>3. ReaderTypes' /\ Resolved'
    BY <1>1, <1>2, <1>4, <1>7, <2>2 DEF ReaderTypes, Resolved
  <2>4. Directed'
    BY <1>1, <1>2, <1>3, <1>4, <1>7, <2>2 DEF Directed, InOrder
  <2> QED
    BY <1>1, <1>2, <2>3, <2>4, ReaderKeepsRuns DEF IInv
<1>8. CASE at = "load to" /\ at' = "diffed"
  <2>1. loaded' = [loaded EXCEPT !["to"] = logs[path["to"]]]
    BY <1>8 DEF LoadBoth, Load
  <2>2. /\ loaded' \in [Sides -> Reports]
        /\ loaded'["to"] = logs[path["to"]] /\ loaded'["from"] = loaded["from"]
    BY <1>1, <1>5, <2>1 DEF ReaderTypes, RunTypes, Sides
  <2>3. ReaderTypes' /\ Resolved'
    BY <1>1, <1>2, <1>4, <1>8, <2>2 DEF ReaderTypes, Resolved
  <2>4. Directed'
    BY <1>1, <1>2, <1>3, <1>4, <1>8, <2>2 DEF Directed, InOrder
  <2> QED
    BY <1>1, <1>2, <2>3, <2>4, ReaderKeepsRuns DEF IInv
<1> QED
  BY <1>6, <1>7, <1>8 DEF LoadBoth, Load

-----------------------------------------------------------------------------
LEMMA InitInv == Init => IInv
  BY InitWriters DEF Init, IInv, Directed

LEMMA NextInv == IInv /\ [Next]_vars => IInv'
<1> SUFFICES ASSUME IInv, [Next]_vars PROVE IInv'
  OBVIOUS
<1>1. CASE \E r \in Runs : Writer(r)
  <2>1. PICK r \in Runs : Writer(r)
    BY <1>1
  <2>2. WritersInv'
    BY <2>1, PickKeeps, WorkKeeps, ReplaceKeeps DEF IInv, Writer, Work
  <2> QED
    BY <2>1, <2>2, WriterKeepsDirected DEF IInv
<1>2. CASE Reader
  BY <1>2, ResolveKeeps, LoadKeeps DEF Reader, ResolveBoth, LoadBoth
<1>3. CASE UNCHANGED vars
  <2>1. UNCHANGED <<writers, logs, at, alias, path, loaded>>
    BY <1>3 DEF vars, reader
  <2>2. Overwritten' = Overwritten /\ Existing' = Existing /\ \A n : Rank(n)' = Rank(n)
    BY <2>1, LogsUntouched
  <2>3. ReaderTypes' /\ Resolved'
    <3>1. ReaderTypes /\ Resolved /\ Reports' = Reports
      BY <2>1, TypeParts DEF IInv, WritersInv, Reports, writers
    <3> QED
      BY <2>1, <3>1 DEF ReaderTypes, Resolved
  <2>4. WritersInv'
    BY <2>1, <2>3, ReaderKeepsRuns DEF IInv
  <2>5. Directed'
    BY <2>1, <2>2 DEF IInv, Directed, InOrder
  <2> QED
    BY <2>4, <2>5 DEF IInv
<1> QED
  BY <1>1, <1>2, <1>3 DEF Next, Terminated

LEMMA Inductive == Spec => []IInv
  BY InitInv, NextInv, PTL DEF Spec

(* Every report, name and alias is always of its kind, and no more reports *)
(* are written than there are runs (_write_auto_log, list_logs).           *)
THEOREM TypeCorrect == Spec => []TypeOK
<1>1. IInv => TypeOK
  BY DEF IInv, WritersInv
<1> QED
  BY <1>1, Inductive, PTL

(* Wherever any of the runs is killed or fails, a name in the log          *)
(* directory holds a whole report, that of a run that picked this name     *)
(* (write_report writes beside it and renames).                            *)
THEOREM WholeOrNothing == Spec => []PublishedWhole
<1>1. IInv => PublishedWhole
  BY DEF IInv, WritersInv
<1> QED
  BY <1>1, Inductive, PTL

(* A saved report is lost to one thing only: another run, which looked for *)
(* the name before the report was there and was given it too               *)
(* (unique_report_path).                                                   *)
THEOREM SavedStay == Spec => []SavedStays
<1>1. IInv => SavedStays
  BY DEF IInv, WritersInv
<1> QED
  BY <1>1, Inductive, PTL

(* A run that reaches its end by itself leaves no temporary file           *)
(* (the clean-up of write_report).                                         *)
THEOREM NoLitterLeft == Spec => []NoLitter
<1>1. IInv => NoLitter
  BY DEF IInv, WritersInv, Temps
<1> QED
  BY <1>1, Inductive, PTL

(* While no report was lost, a diff from an older alias to a younger one   *)
(* compares an older report with a younger one, although the directory is  *)
(* listed once for each alias and grows in between (_resolve_log_path).    *)
THEOREM DiffGoesForward == Spec => []DiffDirection
<1>1. IInv => DiffDirection
  BY DEF IInv, Directed, DiffDirection, InOrder
<1> QED
  BY <1>1, Inductive, PTL
-----------------------------------------------------------------------------
(* The refinement of ReportStore.  A run saves in the step that renames,   *)
(* the diff reads in the steps that load, everything else is a stutter.    *)

(* What the diff has read, and not read yet.                               *)
Loads ==
  /\ at \in {"resolve from", "resolve to", "load from"} =>
       loaded["from"].text = "none" /\ loaded["to"].text = "none"
  /\ at = "load to" =>
       loaded["from"].text = "whole" /\ loaded["from"].by # Plain /\ loaded["to"].text = "none"

LEMMA InitLoads == Init => Loads
<1> SUFFICES ASSUME Init PROVE Loads
  OBVIOUS
<1>1. at = "resolve from" /\ \A side \in Sides : loaded[side] = NoFile
  BY DEF Init
<1>2. NoFile.text = "none" /\ "from" \in Sides /\ "to" \in Sides
  BY DEF NoFile, Sides
<1> QED
  BY <1>1, <1>2 DEF Loads

(* A name that is loaded from holds the report of a run.                   *)
LEMMA LoadedIsSaved ==
  ASSUME IInv, LoadBoth, at' # "error"
  PROVE  \E side \in Sides :
           /\ at = IF side = "from" THEN "load from" ELSE "load to"
           /\ at' = IF side = "from" THEN "load to" ELSE "diffed"
           /\ path[side] \in Existing
           /\ loaded' = [loaded EXCEPT ![side] = logs[path[side]]]
           /\ logs[path[side]].text = "whole" /\ logs[path[side]].by \in Runs
<1>1. PICK side \in Sides :
         /\ at = IF side = "from" THEN "load from" ELSE "load to"
         /\ at' = IF side = "from" THEN "load to" ELSE "diffed"
         /\ loaded' = [loaded EXCEPT ![side] = logs[path[side]]]
         /\ logs[path[side]].text = "whole"
  BY DEF LoadBoth, Load, Sides
<1>2. path[side] \in Names
  BY <1>1 DEF IInv, WritersInv, Resolved, Sides
<1>3. path[side] \in Existing
  BY <1>1, <1>2 DEF Existing, Exists
<1>4. logs[path[side]].by \in Runs
  BY <1>3 DEF IInv, WritersInv, PublishedWhole
<1> QED
  BY <1>1, <1>3, <1>4

LEMMA LoadsKept == IInv /\ Loads /\ [Next]_vars => Loads'
<1> SUFFICES ASSUME IInv, Loads, [Next]_vars PROVE Loads'
  OBVIOUS
<1>1. CASE \E r \in Runs : Writer(r)
  <2>1. UNCHANGED <<at, loaded>>
    BY <1>1 DEF Writer, Pick, PickFails, MakeTemp, MakeTempFails, Write, WriteUnencodable, Replace,
                WriteFails, UnlinkFails, Killed, reader
  <2> QED
    BY <2>1 DEF Loads
<1>2. CASE ResolveBoth
  BY <1>2 DEF ResolveBoth, Resolve, Loads
<1>3. CASE LoadBoth
  <2>1. CASE at' = "error"
    BY <2>1 DEF Loads
  <2>2. CASE at' # "error"
    <3>1. PICK side \in Sides :
             /\ at = IF side = "from" THEN "load from" ELSE "load to"
             /\ at' = IF side = "from" THEN "load to" ELSE "diffed"
             /\ loaded' = [loaded EXCEPT ![side] = logs[path[side]]]
             /\ logs[path[side]].text = "whole" /\ logs[path[side]].by \in Runs
      BY <1>3, <2>2, LoadedIsSaved
    <3>2. loaded \in [Sides -> Reports]
      BY DEF IInv, WritersInv, TypeOK
    <3>3. loaded'[side] = logs[path[side]] /\ \A s \in Sides \ {side} : loaded'[s] = loaded[s]
      BY <3>1, <3>2
    <3>4. Plain \notin Runs
      BY ReportLogAssumption
    <3> QED
      BY <3>1, <3>3, <3>4 DEF Loads, Sides
  <2> QED
    BY <2>1, <2>2
<1>4. CASE UNCHANGED vars
  BY <1>4 DEF vars, reader, Loads
<1> QED
  BY <1>1, <1>2, <1>3, <1>4 DEF Next, Reader, ResolveBoth, LoadBoth, Terminated

LEMMA LoadsInvariant == Spec => [](IInv /\ Loads)
  BY InitLoads, InitInv, NextInv, LoadsKept, PTL DEF Spec

LEMMA InitStores == Init => Store!Init
<1> SUFFICES ASSUME Init PROVE Store!Init
  OBVIOUS
<1>1. \A r \in Runs : [name[r] EXCEPT !.suffix = Plain] \in Names
  <2> SUFFICES ASSUME NEW r \in Runs PROVE [name[r] EXCEPT !.suffix = Plain] \in Names
    OBVIOUS
  <2>1. name[r] \in report_path
    BY DEF Init
  <2> QED
    BY <2>1 DEF report_path, Names
<1>2. \A n \in Names : By(logs[n]) = Plain
  BY DEF Init, NoFile, By
<1>3. {r \in Runs : pc[r] = "saved"} = {}
  BY DEF Init
<1>4. [side \in Sides |-> By(loaded[side])] = [side \in {"from", "to"} |-> Plain]
  BY DEF Init, NoFile, By, Sides
<1> QED
  BY <1>1, <1>2, <1>3, <1>4 DEF Store!Init

(* The name of the start time does not change.                             *)
LEMMA AskedKept ==
  ASSUME IInv, NEW r \in Runs, Writer(r), NEW q \in Runs
  PROVE  [name[q] EXCEPT !.suffix = Plain]' = [name[q] EXCEPT !.suffix = Plain]
<1>1. name \in [Runs -> Names]
  BY DEF IInv, WritersInv, TypeOK
<1>2. CASE Pick(r)
  <2>1. PICK s \in {Plain, r} : name' = [name EXCEPT ![r] = [name[r] EXCEPT !.suffix = s]]
    BY <1>2 DEF Pick
  <2> QED
    BY <1>1, <2>1 DEF Names
<1>3. CASE ~Pick(r)
  BY <1>3 DEF Writer, PickFails, MakeTemp, MakeTempFails, Write, WriteUnencodable, Replace,
              WriteFails, UnlinkFails, Killed
<1> QED
  BY <1>2, <1>3

LEMMA WriterStores ==
  ASSUME IInv, NEW r \in Runs, Writer(r)
  PROVE  Store!Next \/ UNCHANGED Store!vars
<1> DEFINE asked(q) == [name[q] EXCEPT !.suffix = Plain]
<1>1. \A q \in Runs : asked(q)' = asked(q)
  BY AskedKept
<1>2. loaded' = loaded
  BY DEF Writer, Pick, PickFails, MakeTemp, MakeTempFails, Write, WriteUnencodable, Replace,
         WriteFails, UnlinkFails, Killed, reader
<1>3. pc \in [Runs -> Ended \cup {"pick", "mkstemp", "write", "replace"}]
  BY DEF IInv, WritersInv, TypeOK
<1>4. CASE Replace(r)
  <2>1. /\ pc[r] = "replace" /\ pc' = [pc EXCEPT ![r] = "saved"]
        /\ logs' = [logs EXCEPT ![name[r]] = temp[r]] /\ name' = name
    BY <1>4 DEF Replace, Goto
  <2>2. temp[r].text = "whole" /\ temp[r].by = r
    BY <2>1 DEF IInv, WritersInv, Temps
  <2>3. name[r] \in Names /\ name[r].suffix \in {Plain, r} /\ logs \in [Names -> Reports]
    BY DEF IInv, WritersInv, Picked, TypeOK
  <2>4. name[r].suffix = Plain => name[r] = asked(r)
    BY <2>3 DEF Names
  <2>5. asked(r) \in Names
    BY <2>3 DEF Names
  <2>6. name[r].suffix = r => name[r] = [asked(r) EXCEPT !.suffix = r]
    BY <2>3 DEF Names
  <2>7. name[r].suffix = r => By(logs[name[r]]) = Plain
    <3> SUFFICES ASSUME name[r].suffix = r, Exists(name[r]) PROVE FALSE
      BY DEF Exists, By
    <3>1. PICK q \in Runs : pc[q] = "saved" /\ name[q] = name[r]
      BY <2>3 DEF IInv, WritersInv, PublishedWhole, Existing
    <3>2. q # r /\ name[q].suffix \in {Plain, q}
      BY <2>1, <3>1 DEF IInv, WritersInv, Picked
    <3> QED
      BY <3>1, <3>2, ReportLogAssumption
  <2>8. By(temp[r]) = r
    BY <2>2 DEF By
  <2>9. [n \in Names |-> By(logs'[n])]
          = [[n \in Names |-> By(logs[n])] EXCEPT ![name[r]] = r]
    BY <2>1, <2>3, <2>8
  <2>10. /\ {q \in Runs : pc'[q] = "saved"} = {q \in Runs : pc[q] = "saved"} \cup {r}
         /\ r \notin {q \in Runs : pc[q] = "saved"}
    BY <1>3, <2>1
  <2>11. [q \in Runs |-> asked(q)'] = [q \in Runs |-> asked(q)]
    BY <1>1
  <2> HIDE DEF asked
  <2>12. Store!Save(r)
    BY <1>2, <2>1, <2>3, <2>4, <2>5, <2>6, <2>7, <2>9, <2>10, <2>11 DEF Store!Save, asked
  <2> QED
    BY <2>12 DEF Store!Next
<1>5. CASE ~Replace(r)
  <2>1. logs' = logs
    BY <1>5 DEF Writer, Pick, PickFails, MakeTemp, MakeTempFails, Write, WriteUnencodable,
                WriteFails, UnlinkFails, Killed
  <2>2. pc[r] # "saved" /\ pc'[r] # "saved" /\ \A q \in Runs \ {r} : pc'[q] = pc[q]
    BY <1>3, <1>5 DEF Writer, Pick, PickFails, MakeTemp, MakeTempFails, Write, WriteUnencodable,
                      WriteFails, UnlinkFails, Killed, Goto
  <2>3. {q \in Runs : pc'[q] = "saved"} = {q \in Runs : pc[q] = "saved"}
    BY <2>2
  <2> QED
    BY <1>1, <1>2, <2>1, <2>3 DEF Store!vars
<1> QED
  BY <1>4, <1>5

LEMMA ReaderStores ==
  ASSUME IInv, Loads, Reader
  PROVE  Store!Next \/ UNCHANGED Store!vars
<1>1. UNCHANGED <<pc, name, logs>>
  BY DEF Reader, Resolve, Load, writers
<1>2. CASE loaded' = loaded
  BY <1>1, <1>2 DEF Store!vars
<1>3. CASE loaded' # loaded
  <2>1. LoadBoth /\ at' # "error"
    BY <1>3 DEF Reader, Resolve, Load, LoadBoth
  <2>2. PICK side \in Sides :
           /\ at = IF side = "from" THEN "load from" ELSE "load to"
           /\ path[side] \in Existing
           /\ loaded' = [loaded EXCEPT ![side] = logs[path[side]]]
           /\ logs[path[side]].text = "whole" /\ logs[path[side]].by \in Runs
    BY <2>1, LoadedIsSaved
  <2>3. loaded \in [Sides -> Reports]
    BY DEF IInv, WritersInv, TypeOK
  <2>4. By(logs[path[side]]) = logs[path[side]].by /\ By(logs[path[side]]) # Plain
    BY <2>2, ReportLogAssumption DEF By
  <2>5. By(loaded[side]) = Plain
    BY <2>2 DEF Loads, By, Sides
  <2>6. side = "to" => By(loaded["from"]) # Plain
    BY <2>2 DEF Loads, By, Sides
  <2>7. [s \in Sides |-> By(loaded'[s])]
          = [[s \in Sides |-> By(loaded[s])] EXCEPT ![side] = By(logs[path[side]])]
    BY <2>2, <2>3
  <2>8. path[side] \in Names
    BY <2>2 DEF Existing
  <2>9. Store!Read(side)
    BY <1>1, <2>4, <2>5, <2>6, <2>7, <2>8 DEF Store!Read, Sides
  <2> QED
    BY <2>9 DEF Store!Next, Sides
<1> QED
  BY <1>2, <1>3

(* With its temporary files, failed writes and killed runs, the log        *)
(* directory is a store: a report is there whole or not at all from one    *)
(* step to the next, none is taken out, only one of the very same start    *)
(* time may be written over, and a diff reads stored reports               *)
(* (write_report, _write_auto_log, diff_reports).                          *)
THEOREM LogImplementsStore == Spec => ImplementsReportStore
<1>1. IInv /\ Loads /\ [Next]_vars => [Store!Next]_(Store!vars)
  <2> SUFFICES ASSUME IInv, Loads, [Next]_vars PROVE Store!Next \/ UNCHANGED Store!vars
    OBVIOUS
  <2>1. CASE UNCHANGED vars
    BY <2>1 DEF vars, writers, reader, Store!vars
  <2> QED
    BY <2>1, WriterStores, ReaderStores DEF Next, Terminated
<1> QED
  BY <1>1, InitStores, LoadsInvariant, PTL DEF Spec, ImplementsReportStore, Store!Spec
=============================================================================
