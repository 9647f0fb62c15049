--------------------------- MODULE PathProbe_proofs ---------------------------
(***************************************************************************)
(* Theorems about PathCheck, for every list of backup suffixes and every   *)
(* number of changes made while a path is being checked, and about         *)
(* PathProbe, resting on them.                                             *)
(***************************************************************************)
EXTENDS PathProbe, SequenceTheorems, TLAPS

Entry == [name : Names, verdict : PathStatus]

LEMMA BackupsType ==
  ASSUME NEW stem \in Stems
  PROVE  Backups(stem) \in Seq(Entry)
<1>1. Len(BackupSuffixes) \in Nat /\ DOMAIN BackupSuffixes = 1..Len(BackupSuffixes)
  BY PathCheckAssumption, LenProperties
<1>2. \A k \in 1..Len(BackupSuffixes) : BackupSuffixes[k] \in ToSet(BackupSuffixes)
  BY <1>1 DEF ToSet
<1>3. \A k \in 1..Len(BackupSuffixes) : Backups(stem)[k] \in Entry
  BY <1>2 DEF Backups, Probe, Names, PathStatus, Stems, Entry
<1> QED
  BY <1>1, <1>3 DEF Backups

LEMMA TwoFirst ==
  ASSUME NEW S, NEW a \in S, NEW b \in S, NEW s \in Seq(S), NEW t \in Seq(S)
  PROVE  /\ (<<a, b>> \o s) \o t \in Seq(S)
         /\ Len((<<a, b>> \o s) \o t) >= 2
         /\ ((<<a, b>> \o s) \o t)[1] = a
         /\ ((<<a, b>> \o s) \o t)[2] = b
<1> DEFINE two == <<a, b>>
<1>1. two \in Seq(S) /\ Len(two) = 2 /\ two[1] = a /\ two[2] = b
  OBVIOUS
<1>2. Len(s) \in Nat /\ Len(t) \in Nat
  BY LenProperties
<1> HIDE DEF two
<1>3. \A u \in Seq(S), v \in Seq(S) : Len(u) >= 2 =>
        /\ u \o v \in Seq(S) /\ Len(u \o v) >= 2
        /\ (u \o v)[1] = u[1] /\ (u \o v)[2] = u[2]
  <2> SUFFICES ASSUME NEW u \in Seq(S), NEW v \in Seq(S), Len(u) >= 2
               PROVE  /\ u \o v \in Seq(S) /\ Len(u \o v) >= 2
                      /\ (u \o v)[1] = u[1] /\ (u \o v)[2] = u[2]
    OBVIOUS
  <2>1. Len(u) \in Nat /\ Len(v) \in Nat
    BY LenProperties
  <2>2. u \o v \in Seq(S) /\ Len(u \o v) = Len(u) + Len(v)
    BY ConcatProperties
  <2>3. 1 \in 1..Len(u) + Len(v) /\ 2 \in 1..Len(u) + Len(v)
    BY <2>1
  <2>4. (u \o v)[1] = u[1] /\ (u \o v)[2] = u[2]
    BY <2>1, <2>3, ConcatProperties
  <2> QED
    BY <2>1, <2>2, <2>4
<1>4. /\ two \o s \in Seq(S) /\ Len(two \o s) >= 2
      /\ (two \o s)[1] = two[1] /\ (two \o s)[2] = two[2]
  <2>1. Len(two) >= 2
    BY <1>1
  <2> QED
    BY <1>1, <1>3, <2>1, Zenon
<1> QED
  BY <1>1, <1>3, <1>4 DEF two

(* The first two probes are the recorded name and its other form.          *)
LEMMA FirstProbes ==
  ASSUME recorded \in Stems
  PROVE  /\ Probes \in Seq(Entry)
         /\ Len(Probes) >= 2
         /\ Probes[1] = Probe(<<recorded, "itself">>, Verdict(recorded))
         /\ Probes[2] = Probe(<<Other(recorded), "itself">>, Verdict(Other(recorded)))
<1> DEFINE a == Probe(<<recorded, "itself">>, Verdict(recorded))
           b == Probe(<<Other(recorded), "itself">>, Verdict(Other(recorded)))
           s == IF recorded = "new" THEN Backups("new") ELSE << >>
           t == Backups("base")
<1>1. a \in Entry /\ b \in Entry
  BY DEF Probe, Names, Stems, Verdict, Other, PathStatus, Entry
<1>2. s \in Seq(Entry) /\ t \in Seq(Entry)
  BY BackupsType DEF Stems
<1>3. Probes = (<<a, b>> \o s) \o t
  BY DEF Probes
<1> HIDE DEF a, b, s, t
<1>4. Probes \in Seq(Entry) /\ Len(Probes) >= 2 /\ Probes[1] = a /\ Probes[2] = b
  BY <1>1, <1>2, <1>3, TwoFirst
<1> QED
  BY <1>4 DEF a, b

-----------------------------------------------------------------------------

IInv == TypeOK /\ FalseAlarmInv

LEMMA InitIInv == Init => IInv
<1> SUFFICES ASSUME Init PROVE IInv
  OBVIOUS
<1>1. Len(Probes) \in Nat /\ Len(Probes) >= 2
  BY FirstProbes, LenProperties DEF Init
<1>2. ~(at > 1) /\ ~(at > 2) /\ status = "none"
  BY DEF Init
<1>5. unread \in BOOLEAN
  BY Zenon DEF Init
<1>3. TypeOK
  BY <1>1, <1>5, PathCheckAssumption DEF Init, TypeOK, FateWith
<1>4. FalseAlarmInv
  BY <1>2 DEF Init, FalseAlarmInv, FateWith
<1> QED
  BY <1>3, <1>4 DEF IInv

(* A step of check_path: what a probe that finds nothing tells, and that   *)
(* only the third probe and later ones answer BACKUP.                      *)
LEMMA CheckKeepsIInv ==
  ASSUME IInv, CheckStep
  PROVE  IInv'
<1> USE DEF IInv, Probing, env
<1>1. /\ recorded \in Stems /\ Len(Probes) \in Nat /\ Len(Probes) >= 2
      /\ Probes[1] = Probe(<<recorded, "itself">>, Verdict(recorded))
      /\ Probes[2] = Probe(<<Other(recorded), "itself">>, Verdict(Other(recorded)))
  BY FirstProbes, LenProperties DEF TypeOK
<1>2. recorded' = recorded /\ Probes' = Probes /\ UNCHANGED env
  BY DEF CheckStep, Found, NotFound, Denied, Unreadable, NothingLeft, Probes
<1>3. CASE Found
  <2>1. Probes[at] \in Entry
    BY <1>1, <1>3, FirstProbes, ElementOfSeq DEF Found, TypeOK
  <2>2. Probes[at].verdict = "backup" => at > 2
    BY <1>1, <1>3 DEF Found, TypeOK, Probe, Verdict
  <2>3. Probes[at].verdict \in PathStatus /\ Probes[at].verdict = "missing" => at > 2
    BY <1>1, <1>3, <2>1 DEF Found, TypeOK, Probe, Verdict, Entry
  <2> QED
    BY <1>1, <1>2, <1>3, <2>1, <2>2, <2>3
    DEF Found, TypeOK, FalseAlarmInv, FateWith, Kept, Present, Entry
<1>4. CASE NotFound
  <2>1. at = 1 => Probes[at].name = <<recorded, "itself">>
    BY <1>1 DEF Probe
  <2>2. at = 2 => Probes[at].name = <<Other(recorded), "itself">>
    BY <1>1 DEF Probe
  <2>3. {<<"base", "itself">>, <<"new", "itself">>} = {<<recorded, "itself">>, <<Other(recorded), "itself">>}
    BY <1>1 DEF Stems, Other
  <2>4. TypeOK'
    BY <1>1, <1>2, <1>4 DEF NotFound, TypeOK
  <2>5. /\ at' = at + 1 /\ at \in Nat /\ at >= 1 /\ status' = "none"
        /\ unread' = (unread \/ dir = "broken") /\ (at = 1 => dir = "ok")
    BY <1>1, <1>4 DEF NotFound, TypeOK
  <2>6. at = 1 /\ fate = "kept" => ~Present(recorded)
    BY <1>4, <2>1 DEF NotFound, Present, FalseAlarmInv, FateWith, Kept
  <2>7. at = 2 /\ fate = "kept" /\ dir # "broken" => Present(recorded)
    BY <1>4, <2>2, <2>3 DEF NotFound, Present, FalseAlarmInv, FateWith, Kept
  <2>8. UNCHANGED <<recorded, disk, dir, fate, appeared>>
    BY <1>2
  <2>9. FalseAlarmInv'
    <3>1. at' > 1 /\ fate' = "kept" /\ Present(recorded)' => <<recorded, "itself">>' \in appeared'
      BY <2>5, <2>6, <2>8 DEF FalseAlarmInv, Present
    <3>2. ASSUME at' > 2, fate' = "kept"
          PROVE  <<recorded, "itself">>' \in appeared' \/ unread'
      <4>1. CASE dir = "broken"
        <5>1. unread'
          BY <2>5, <4>1, Zenon
        <5> QED
          BY <5>1
      <4>2. CASE dir # "broken" /\ at > 2
        <5>1. <<recorded, "itself">> \in appeared \/ unread
          BY <2>8, <3>2, <4>2 DEF FalseAlarmInv
        <5> QED
          BY <2>5, <2>8, <5>1, Zenon
      <4>3. CASE dir # "broken" /\ at = 2
        <5>1. <<recorded, "itself">> \in appeared
          BY <2>7, <2>8, <3>2, <4>3 DEF FalseAlarmInv
        <5> QED
          BY <2>8, <5>1
      <4> QED
        BY <2>5, <3>2, <4>1, <4>2, <4>3
    <3>3. ~(status' \in {"missing", "backup"}) /\ (fate' = "kept" => Kept(disk)')
      BY <2>5, <2>8 DEF FalseAlarmInv, Kept
    <3> QED
      BY <3>1, <3>2, <3>3 DEF FalseAlarmInv
  <2> QED
    BY <2>4, <2>9
<1>5. CASE Denied \/ Unreadable
  BY <1>1, <1>2, <1>5
  DEF Denied, Unreadable, TypeOK, FalseAlarmInv, FateWith, Kept, Present, PathStatus
<1>6. CASE NothingLeft
  <2>1. TypeOK'
    BY <1>1, <1>2, <1>6 DEF NothingLeft, TypeOK, PathStatus
  <2>2. at' > 2 /\ UNCHANGED <<recorded, at, unread, disk, dir, fate, appeared>>
    BY <1>1, <1>2, <1>6 DEF NothingLeft, TypeOK
  <2>3. FalseAlarmInv'
    BY <2>2 DEF FalseAlarmInv, FateWith, Kept, Present
  <2> QED
    BY <2>1, <2>3
<1> QED
  BY <1>3, <1>4, <1>5, <1>6 DEF CheckStep

(* A change of the directory: a name that comes back has appeared.         *)
LEMMA ChangeKeepsIInv ==
  ASSUME IInv, NEW d \in SUBSET Names, NEW r \in {"ok", "denied", "broken"}, Change(d, r)
  PROVE  IInv'
<1>1. Probes' = Probes
  BY DEF Change, check, Probes
<1>2. TypeOK'
  <2>1. fate' \in {"kept", "lost"}
    BY DEF IInv, TypeOK, Change, FateWith
  <2>2. changes' \in 0..MaxChanges
    BY PathCheckAssumption DEF IInv, TypeOK, Change
  <2>3. appeared' \subseteq Names /\ disk' \subseteq Names /\ dir' = r
    BY DEF IInv, TypeOK, Change
  <2> QED
    BY <1>1, <2>1, <2>2, <2>3 DEF IInv, TypeOK, Change, check
<1>3. FalseAlarmInv'
  BY DEF IInv, Change, check, TypeOK, FalseAlarmInv, FateWith, Kept, Present
<1> QED
  BY <1>2, <1>3 DEF IInv

LEMMA NextKeepsIInv == IInv /\ [Next]_vars => IInv'
<1> SUFFICES ASSUME IInv, [Next]_vars PROVE IInv'
  OBVIOUS
<1>1. CASE CheckStep
  BY <1>1, CheckKeepsIInv
<1>2. CASE Environment
  <2>1. Len(BackupSuffixes) \in Nat
    BY PathCheckAssumption, LenProperties
  <2>2. \A k \in 1..Len(BackupSuffixes) : BackupSuffixes[k] \in ToSet(BackupSuffixes)
    BY PathCheckAssumption, LenProperties DEF ToSet
  <2>3. disk \subseteq Names /\ dir \in {"ok", "denied", "broken"}
    BY DEF IInv, TypeOK
  <2>4. CASE Accept
    <3>1. (disk \ {<<"new", "itself">>}) \cup {<<"base", "itself">>} \in SUBSET Names
      <4>1. <<"base", "itself">> \in Names
        BY DEF Names, Stems
      <4> QED
        BY <2>3, <4>1
    <3> QED
      BY <2>3, <2>4, <3>1, ChangeKeepsIInv DEF Accept
  <2>5. ASSUME NEW stem \in Stems, NEW k \in 1..Len(BackupSuffixes), SetAside(stem, k)
        PROVE  IInv'
    <3>1. (disk \ {<<stem, "itself">>}) \cup {<<stem, BackupSuffixes[k]>>} \in SUBSET Names
      <4>1. <<stem, BackupSuffixes[k]>> \in Names
        BY <2>2 DEF Names
      <4> QED
        BY <2>3, <4>1
    <3> QED
      BY <2>3, <2>5, <3>1, ChangeKeepsIInv DEF SetAside
  <2>6. ASSUME NEW name \in Names, Create(name) \/ Delete(name) PROVE IInv'
    BY <2>3, <2>6, ChangeKeepsIInv DEF Create, Delete
  <2>7. ASSUME NEW r \in {"ok", "denied", "broken"}, ChangeDir(r) PROVE IInv'
    BY <2>3, <2>7, ChangeKeepsIInv DEF ChangeDir
  <2> QED
    BY <1>2, <2>4, <2>5, <2>6, <2>7 DEF Environment
<1>3. CASE Terminated \/ UNCHANGED vars
  BY <1>3 DEF Terminated, vars, check, env, IInv, TypeOK, FalseAlarmInv, FateWith, Kept, Present, Probes
<1> QED
  BY <1>1, <1>2, <1>3 DEF Next

LEMMA Inductive == Spec => []IInv
BY InitIInv, NextKeepsIInv, PTL DEF Spec

(* check_path's locals keep their types.                                   *)
THEOREM TypeCorrect == Spec => []TypeOK
<1>1. IInv => TypeOK
  BY DEF IInv
<1> QED
  BY <1>1, Inductive, PTL

(* A file is reported lost only if it was, or if its recorded name came    *)
(* into existence after check_path had looked for it, or if a probe failed *)
(* and was taken for an absence: renaming foo.conf.new to foo.conf during  *)
(* the check of foo.conf.new never raises a false alarm.                   *)
THEOREM LostMeansLost == Spec => []NoFalseAlarm
<1>1. IInv => NoFalseAlarm
  BY DEF IInv, FalseAlarmInv, NoFalseAlarm
<1> QED
  BY <1>1, Inductive, PTL

-----------------------------------------------------------------------------
(* The directory at rest.                                                  *)

LEMMA ThreeParts ==
  ASSUME NEW S, NEW two \in Seq(S), Len(two) = 2, NEW s \in Seq(S), NEW t \in Seq(S)
  PROVE  /\ Len((two \o s) \o t) = 2 + Len(s) + Len(t)
         /\ \A k \in 3..2 + Len(s) : ((two \o s) \o t)[k] = s[k - 2]
         /\ \A k \in 3 + Len(s)..2 + Len(s) + Len(t) : ((two \o s) \o t)[k] = t[k - 2 - Len(s)]
<1>1. Len(s) \in Nat /\ Len(t) \in Nat
  BY LenProperties
<1>2. /\ two \o s \in Seq(S) /\ Len(two \o s) = 2 + Len(s)
      /\ \A k \in 1..2 + Len(s) : (two \o s)[k] = IF k <= 2 THEN two[k] ELSE s[k - 2]
  <2>1. /\ two \o s \in Seq(S) /\ Len(two \o s) = Len(two) + Len(s)
        /\ \A k \in 1..Len(two) + Len(s) :
             (two \o s)[k] = IF k <= Len(two) THEN two[k] ELSE s[k - Len(two)]
    BY ConcatProperties
  <2> QED
    BY <2>1, <1>1, Zenon
<1> DEFINE front == two \o s
<1> HIDE DEF front
<1>3. front \in Seq(S) /\ Len(front) = 2 + Len(s)
  BY <1>2 DEF front
<1>4. /\ Len(front \o t) = Len(front) + Len(t)
      /\ \A k \in 1..Len(front) + Len(t) :
           (front \o t)[k] = IF k <= Len(front) THEN front[k] ELSE t[k - Len(front)]
  BY <1>3, ConcatProperties
<1>5. ASSUME NEW k \in 3..2 + Len(s) PROVE (front \o t)[k] = s[k - 2]
  <2>1. k \in 1..Len(front) + Len(t) /\ k <= Len(front) /\ k \in 1..2 + Len(s) /\ ~(k <= 2)
    BY <1>1, <1>3
  <2>2. front[k] = s[k - 2]
    BY <1>2, <2>1 DEF front
  <2> QED
    BY <1>4, <2>1, <2>2
<1>6. ASSUME NEW k \in 3 + Len(s)..2 + Len(s) + Len(t)
      PROVE  (front \o t)[k] = t[k - 2 - Len(s)]
  <2>1. /\ k \in 1..Len(front) + Len(t) /\ ~(k <= Len(front))
        /\ k - Len(front) = k - 2 - Len(s)
    BY <1>1, <1>3
  <2> QED
    BY <1>4, <2>1
<1>7. Len(front \o t) = 2 + Len(s) + Len(t)
  BY <1>1, <1>3, <1>4
<1> QED
  BY <1>5, <1>6, <1>7 DEF front

(* The verdict of the probes, backups of either name taken alike.          *)
BackupNames == IF recorded = "new" THEN Names ELSE {"base"} \X ToSet(BackupSuffixes)
Due(answer) ==
  \/ dir = "denied" /\ answer = "no_access"
  \/ dir = "broken" /\ answer = "error"
  \/ dir = "ok" /\ Present(recorded) /\ answer = Verdict(recorded)
  \/ /\ dir = "ok" /\ ~Present(recorded) /\ Present(Other(recorded))
     /\ answer = Verdict(Other(recorded))
  \/ /\ dir = "ok" /\ ~Present(recorded) /\ ~Present(Other(recorded))
     /\ answer = IF disk \cap BackupNames # {} THEN "backup" ELSE "missing"
DueAtRest == status # "none" /\ changes = 0 => Due(status)

LEMMA DueIsPromised == TypeOK /\ DueAtRest => VerdictAtRest
<1> SUFFICES ASSUME TypeOK, status # "none", changes = 0, Due(status)
             PROVE  IF PendingBackup THEN status = "backup" ELSE Promised(status)
  BY DEF DueAtRest, VerdictAtRest
<1>1. recorded \in Stems /\ disk \subseteq Names
  BY DEF TypeOK
<1>2. Present(recorded) \/ Present(Other(recorded)) <=> Present("base") \/ Present("new")
  BY <1>1 DEF Stems, Other
<1>3. CASE PendingBackup
  <2>1. PICK suffix \in ToSet(BackupSuffixes) : <<"new", suffix>> \in disk
    BY <1>3 DEF PendingBackup, Backup
  <2>2. <<"new", suffix>> \in disk \cap BackupNames
    BY <1>1, <1>3, <2>1 DEF PendingBackup, BackupNames
  <2> QED
    BY <1>2, <1>3, <2>2 DEF PendingBackup, Due
<1>4. CASE ~PendingBackup /\ dir = "ok" /\ ~Present("base") /\ ~Present("new")
  <2>1. Backup("base") => disk \cap BackupNames # {}
    BY <1>1 DEF Backup, BackupNames, Stems
  <2>2. ASSUME NEW name \in disk \cap BackupNames PROVE Backup("base")
    <3>1. PICK stem \in Stems, suffix \in {"itself"} \cup ToSet(BackupSuffixes) :
            name = <<stem, suffix>>
      <4> DEFINE suffixes == {"itself"} \cup ToSet(BackupSuffixes)
      <4>1. name \in Stems \X suffixes
        BY <1>1, <2>2 DEF Names
      <4> HIDE DEF suffixes
      <4>2. \E stem \in Stems, suffix \in suffixes : name = <<stem, suffix>>
        BY <4>1
      <4> QED
        BY <4>2 DEF suffixes
    <3>2. suffix \in ToSet(BackupSuffixes)
      BY <1>4, <2>2, <3>1 DEF Present, Stems
    <3>3. stem = "base"
      BY <1>1, <1>4, <2>2, <3>1, <3>2 DEF Stems, PendingBackup, Backup, BackupNames
    <3> QED
      BY <2>2, <3>1, <3>2, <3>3 DEF Backup
  <2>3. status = IF Backup("base") THEN "backup" ELSE "missing"
    BY <1>2, <1>4, <2>1, <2>2 DEF Due
  <2> QED
    BY <1>4, <2>3 DEF Promised
<1>5. CASE ~PendingBackup /\ ~(dir = "ok" /\ ~Present("base") /\ ~Present("new"))
  BY <1>2, <1>5 DEF Due, Promised
<1> QED
  BY <1>3, <1>4, <1>5

(* From the third on the probes are the backups, all of them.              *)
LEMMA LaterProbes ==
  ASSUME recorded \in Stems
  PROVE  /\ \A k \in 3..Len(Probes) :
              Probes[k].verdict = "backup" /\ Probes[k].name \in BackupNames
         /\ \A stem \in Stems, j \in 1..Len(BackupSuffixes) :
              stem = "base" \/ recorded = "new" =>
                \E k \in 3..Len(Probes) : Probes[k].name = <<stem, BackupSuffixes[j]>>
<1> DEFINE a == Probe(<<recorded, "itself">>, Verdict(recorded))
           b == Probe(<<Other(recorded), "itself">>, Verdict(Other(recorded)))
           s == IF recorded = "new" THEN Backups("new") ELSE << >>
           t == Backups("base")
           two == <<a, b>>
<1>1. a \in Entry /\ b \in Entry
  BY DEF Probe, Names, Stems, Verdict, Other, PathStatus, Entry
<1>2. two \in Seq(Entry) /\ Len(two) = 2
  BY <1>1
<1>3. s \in Seq(Entry) /\ t \in Seq(Entry)
  BY BackupsType DEF Stems
<1>4. Probes = (two \o s) \o t
  BY DEF Probes
<1>5. /\ Len(BackupSuffixes) \in Nat
      /\ \A j \in 1..Len(BackupSuffixes) : BackupSuffixes[j] \in ToSet(BackupSuffixes)
  BY PathCheckAssumption, LenProperties DEF ToSet
<1>6. ASSUME NEW stem \in Stems, stem = "base" \/ recorded = "new"
      PROVE  /\ Len(Backups(stem)) = Len(BackupSuffixes)
             /\ \A j \in 1..Len(BackupSuffixes) :
                  /\ Backups(stem)[j].verdict = "backup" /\ Backups(stem)[j].name \in BackupNames
                  /\ Backups(stem)[j].name = <<stem, BackupSuffixes[j]>>
  <2>1. Len(Backups(stem)) = Len(BackupSuffixes)
    BY <1>5 DEF Backups
  <2>2. ASSUME NEW j \in 1..Len(BackupSuffixes)
        PROVE  /\ Backups(stem)[j].verdict = "backup" /\ Backups(stem)[j].name \in BackupNames
               /\ Backups(stem)[j].name = <<stem, BackupSuffixes[j]>>
    <3>1. Backups(stem)[j] = Probe(<<stem, BackupSuffixes[j]>>, "backup")
      BY DEF Backups
    <3>2. <<stem, BackupSuffixes[j]>> \in BackupNames
      BY <1>5, <1>6 DEF BackupNames, Names, Stems
    <3> QED
      BY <3>1, <3>2 DEF Probe
  <2> QED
    BY <2>1, <2>2
<1>7. /\ Len(t) = Len(BackupSuffixes)
      /\ \A j \in 1..Len(t) : /\ t[j].verdict = "backup" /\ t[j].name \in BackupNames
                              /\ t[j].name = <<"base", BackupSuffixes[j]>>
  <2>1. "base" \in Stems
    BY DEF Stems
  <2> HIDE DEF two, s
  <2> QED
    BY <1>6, <2>1
<1>8. /\ recorded = "new" => Len(s) = Len(BackupSuffixes)
      /\ \A j \in 1..Len(s) : /\ s[j].verdict = "backup" /\ s[j].name \in BackupNames
                              /\ recorded = "new" => s[j].name = <<"new", BackupSuffixes[j]>>
  <2>1. CASE recorded = "new"
    <3>1. s = Backups("new") /\ "new" \in Stems
      BY <2>1 DEF Stems
    <3> HIDE DEF two, s, t
    <3> QED
      BY <1>6, <2>1, <3>1
  <2>2. CASE recorded # "new"
    BY <2>2
  <2> QED
    BY <2>1, <2>2
<1> HIDE DEF two, s, t
<1>9. Len(s) \in Nat /\ Len(t) \in Nat
  BY <1>3, LenProperties
<1>10. /\ Len(Probes) = 2 + Len(s) + Len(t)
       /\ \A k \in 3..2 + Len(s) : Probes[k] = s[k - 2]
       /\ \A k \in 3 + Len(s)..2 + Len(s) + Len(t) : Probes[k] = t[k - 2 - Len(s)]
  <2> DEFINE all == (two \o s) \o t
  <2>1. /\ Len(all) = 2 + Len(s) + Len(t)
        /\ \A k \in 3..2 + Len(s) : all[k] = s[k - 2]
        /\ \A k \in 3 + Len(s)..2 + Len(s) + Len(t) : all[k] = t[k - 2 - Len(s)]
    BY <1>2, <1>3, ThreeParts, SMTT(40)
  <2>2. Probes = all
    BY <1>4
  <2> HIDE DEF all
  <2> QED
    BY <2>1, <2>2
<1>11. ASSUME NEW k \in 3..Len(Probes)
       PROVE  Probes[k].verdict = "backup" /\ Probes[k].name \in BackupNames
  <2>1. CASE k <= 2 + Len(s)
    <3>1. k \in 3..2 + Len(s) /\ k - 2 \in 1..Len(s)
      BY <1>9, <2>1
    <3> QED
      BY <1>8, <1>10, <3>1
  <2>2. CASE k > 2 + Len(s)
    <3>1. k \in 3 + Len(s)..2 + Len(s) + Len(t) /\ k - 2 - Len(s) \in 1..Len(t)
      BY <1>9, <1>10, <2>2
    <3> QED
      BY <1>7, <1>10, <3>1
  <2> QED
    BY <1>9, <2>1, <2>2
<1>12. ASSUME NEW stem \in Stems, NEW j \in 1..Len(BackupSuffixes), stem = "base" \/ recorded = "new"
       PROVE  \E k \in 3..Len(Probes) : Probes[k].name = <<stem, BackupSuffixes[j]>>
  <2>1. CASE stem = "base"
    <3>1. /\ j + 2 + Len(s) \in 3 + Len(s)..2 + Len(s) + Len(t)
          /\ j + 2 + Len(s) \in 3..Len(Probes) /\ (j + 2 + Len(s)) - 2 - Len(s) = j
      BY <1>5, <1>7, <1>9, <1>10
    <3>2. Probes[j + 2 + Len(s)] = t[j]
      BY <1>10, <3>1
    <3> QED
      BY <1>7, <2>1, <3>1, <3>2
  <2>2. CASE stem = "new" /\ recorded = "new"
    <3>1. j + 2 \in 3..2 + Len(s) /\ j + 2 \in 3..Len(Probes) /\ (j + 2) - 2 = j
      BY <1>5, <1>8, <1>9, <1>10, <2>2
    <3>2. Probes[j + 2] = s[j] /\ j \in 1..Len(s)
      BY <1>8, <1>10, <2>2, <3>1
    <3> QED
      BY <1>8, <2>2, <3>1, <3>2
  <2> QED
    BY <1>12, <2>1, <2>2 DEF Stems
<1> QED
  BY <1>11, <1>12

(* What the probes made so far tell if nothing has moved, and the verdict. *)
AtRest ==
  /\ changes = 0 /\ status = "none" /\ at > 1 => dir = "ok"
  /\ changes = 0 /\ status = "none" => \A k \in 1..at - 1 : Probes[k].name \notin disk
  /\ DueAtRest

LEMMA AbsentBoth ==
  ASSUME recorded \in Stems, <<recorded, "itself">> \notin disk, <<Other(recorded), "itself">> \notin disk
  PROVE  ~Present(recorded) /\ ~Present(Other(recorded)) /\ ~Present("base") /\ ~Present("new")
  BY DEF Stems, Other, Present

LEMMA CheckKeepsAtRest ==
  ASSUME TypeOK, AtRest, CheckStep
  PROVE  AtRest'
<1> USE DEF Probing, env
<1>1. /\ recorded \in Stems /\ Len(Probes) \in Nat /\ Len(Probes) >= 2
      /\ Probes[1].name = <<recorded, "itself">> /\ Probes[1].verdict = Verdict(recorded)
      /\ Probes[2].name = <<Other(recorded), "itself">> /\ Probes[2].verdict = Verdict(Other(recorded))
  BY FirstProbes, LenProperties DEF TypeOK, Probe
<1>2. at \in 1..Len(Probes) + 1 /\ at \in Nat
  BY <1>1 DEF TypeOK
<1>3. /\ recorded' = recorded /\ Probes' = Probes /\ UNCHANGED env /\ status = "none"
      /\ \A answer : Due(answer)' <=> Due(answer)
  BY DEF CheckStep, Found, NotFound, Denied, Unreadable, NothingLeft, Probes, Due, Present, BackupNames
<1>4. CASE changes # 0
  BY <1>3, <1>4 DEF AtRest, DueAtRest
<1>5. ASSUME changes = 0, at > 2
      PROVE  ~Present(recorded) /\ ~Present(Other(recorded)) /\ ~Present("base") /\ ~Present("new")
  <2>1. 1 \in 1..at - 1 /\ 2 \in 1..at - 1
    BY <1>2, <1>5
  <2> QED
    BY <1>1, <1>3, <1>5, <2>1, AbsentBoth DEF AtRest
<1>6. CASE Found /\ changes = 0
  <2>1. CASE at = 1
    <3>1. Present(recorded) /\ dir = "ok" /\ status' = Verdict(recorded)
      BY <1>1, <1>6, <2>1 DEF Found, Present
    <3>2. Due(Verdict(recorded))
      BY <3>1 DEF Due
    <3> QED
      BY <1>1, <1>3, <3>1, <3>2 DEF AtRest, DueAtRest, Verdict
  <2>2. CASE at = 2
    <3>1. ~Present(recorded)
      BY <1>1, <1>2, <1>3, <1>6, <2>2 DEF AtRest, Present
    <3>2. Present(Other(recorded)) /\ dir = "ok" /\ status' = Verdict(Other(recorded))
      BY <1>1, <1>6, <2>2 DEF Found, Present
    <3>3. Due(Verdict(Other(recorded)))
      BY <3>1, <3>2 DEF Due
    <3> QED
      BY <1>1, <1>3, <3>2, <3>3 DEF AtRest, DueAtRest, Verdict
  <2>3. CASE at > 2
    <3>1. Probes[at].verdict = "backup" /\ Probes[at].name \in BackupNames
      BY <1>1, <1>2, <1>6, <2>3, LaterProbes DEF Found
    <3>2. disk \cap BackupNames # {} /\ dir = "ok" /\ status' = "backup"
      BY <1>6, <3>1 DEF Found
    <3>3. Due("backup")
      BY <1>5, <1>6, <2>3, <3>2 DEF Due
    <3> QED
      BY <1>1, <1>3, <3>2, <3>3 DEF AtRest, DueAtRest
  <2> QED
    BY <1>2, <2>1, <2>2, <2>3
<1>7. CASE NotFound /\ changes = 0
  <2>1. dir = "ok" /\ Probes[at].name \notin disk /\ at' = at + 1 /\ status' = "none"
    BY <1>2, <1>3, <1>7 DEF NotFound, AtRest
  <2>2. ASSUME NEW k \in 1..at' - 1 PROVE Probes[k].name \notin disk
    <3>1. k = at \/ k \in 1..at - 1
      BY <1>2, <2>1
    <3> QED
      BY <1>3, <1>7, <2>1, <3>1 DEF AtRest
  <2> QED
    BY <1>3, <1>7, <2>1, <2>2 DEF AtRest, DueAtRest
<1>8. CASE Denied \/ Unreadable
  BY <1>3, <1>8 DEF Denied, Unreadable, AtRest, DueAtRest, Due
<1>9. CASE NothingLeft /\ changes = 0
  <2>1. at > 2 /\ \A k \in 1..Len(Probes) : Probes[k].name \notin disk
    BY <1>1, <1>2, <1>3, <1>9 DEF NothingLeft, AtRest
  <2>2. dir = "ok" /\ status' = "missing"
    BY <1>2, <1>3, <1>9, <2>1 DEF NothingLeft, AtRest
  <2>3. ASSUME NEW name \in disk \cap BackupNames PROVE FALSE
    <3>1. PICK stem \in Stems, suffix \in {"itself"} \cup ToSet(BackupSuffixes) :
            name = <<stem, suffix>>
      <4> DEFINE suffixes == {"itself"} \cup ToSet(BackupSuffixes)
      <4>1. name \in Stems \X suffixes
        BY <2>3 DEF TypeOK, Names
      <4> HIDE DEF suffixes
      <4>2. \E stem \in Stems, suffix \in suffixes : name = <<stem, suffix>>
        BY <4>1
      <4> QED
        BY <4>2 DEF suffixes
    <3>2. stem = "base" \/ recorded = "new" \/ stem = recorded
      BY <2>3, <3>1 DEF BackupNames
    <3>3. suffix # "itself"
      BY <1>5, <1>9, <2>1, <2>3, <3>1 DEF Present, Stems
    <3>4. PICK j \in 1..Len(BackupSuffixes) : suffix = BackupSuffixes[j]
      BY <3>1, <3>3, PathCheckAssumption, LenProperties DEF ToSet
    <3>5. PICK k \in 3..Len(Probes) : Probes[k].name = <<stem, BackupSuffixes[j]>>
      BY <1>1, <3>1, <3>2, <3>4, LaterProbes DEF Stems
    <3> QED
      BY <2>1, <2>3, <3>1, <3>4, <3>5
  <2>4. Due("missing")
    BY <1>5, <1>9, <2>1, <2>2, <2>3 DEF Due
  <2> QED
    BY <1>3, <1>9, <2>2, <2>4 DEF AtRest, DueAtRest
<1> QED
  BY <1>4, <1>6, <1>7, <1>8, <1>9 DEF CheckStep

(* On a directory where nothing moves the status follows the priorities of *)
(* the docstring, but for a recorded .new of which a backup is left, which *)
(* is BACKUP: the probes ask for the two names, then for every backup.     *)
THEOREM PrioritiesHold == Spec => []VerdictAtRest
<1>1. Init => AtRest
  BY DEF Init, AtRest, DueAtRest
<1>2. TypeOK /\ AtRest /\ [Next]_vars => AtRest'
  <2> SUFFICES ASSUME TypeOK, AtRest, [Next]_vars
               PROVE  AtRest'
    OBVIOUS
  <2>1. CASE CheckStep
    BY <2>1, CheckKeepsAtRest
  <2>2. CASE Environment
    <3>1. \E newDisk, newDir : Change(newDisk, newDir)
      BY <2>2 DEF Environment, Accept, SetAside, Create, Delete, ChangeDir
    <3>2. changes' # 0
      BY <3>1, PathCheckAssumption DEF Change, TypeOK
    <3> QED
      BY <3>2 DEF AtRest, DueAtRest
  <2>3. CASE UNCHANGED vars
    BY <2>3 DEF vars, check, env, AtRest, DueAtRest, Due, Present, Probes, BackupNames
  <2> QED
    BY <2>1, <2>2, <2>3 DEF Next, Terminated
<1>3. TypeOK /\ AtRest => VerdictAtRest
  BY DueIsPromised DEF AtRest
<1> QED
  BY <1>1, <1>2, <1>3, TypeCorrect, PTL DEF Spec

-----------------------------------------------------------------------------
(* The whole task: PathProbe.                                              *)

Opened == {"inspect", "read", "close"}

(* The descriptor is this task's from the open to the close, and never     *)
(* again; and for good when fdopen failed.                                 *)
Held ==
  /\ step \in {"check", "open"} => descriptor = "none"
  /\ step \in Opened => descriptor = "mine"
  /\ step = "done" /\ failed = "fdopen" => descriptor = "mine"
  /\ step = "done" /\ failed # "fdopen" => descriptor \in {"none", "free", "other"}
  /\ step \in {"check", "open"} => failed = "nothing"
  /\ step # "done" => failed # "fdopen"

(* Before the read, whether the file is ELF is open; what was opened is    *)
(* what the name led to, and what is read is a candidate.                  *)
Flagged ==
  /\ step \in {"check", "open", "inspect", "read"} => ~elf
  /\ step = "open" \/ step \in Opened => status = "exists"
  /\ step # "check" => target \in seen
  /\ step \in Opened => opened \in seen /\ opened \in Openable
  /\ step = "read" => opened \in Candidates
  /\ step \in {"close", "done"} =>
       /\ elf => status = "exists" /\ "binary" \in seen
       /\ status = "exists" /\ seen = {target} /\ failed = "nothing" => (elf <=> target = "binary")

ProbeInv == IInv /\ ProbeTypeOK /\ Held /\ Flagged

LEMMA InitProbeInv == ProbeInit => ProbeInv
<1> SUFFICES ASSUME ProbeInit PROVE ProbeInv
  OBVIOUS
<1>1. IInv
  BY InitIInv DEF ProbeInit
<1> QED
  BY <1>1 DEF ProbeInit, ProbeInv, IInv, ProbeTypeOK, Held, Flagged, Opened, Targets, Openable

(* A step that leaves the state of check_path alone keeps its invariant.   *)
LEMMA CheckUntouched == ASSUME IInv, UNCHANGED vars PROVE IInv'
<1>1. [Next]_vars
  OBVIOUS
<1> QED
  BY <1>1, NextKeepsIInv

LEMMA CheckPhaseKeeps ==
  ASSUME ProbeInv, Check \/ Meanwhile PROVE ProbeInv'
<1>1. [Next]_vars /\ step = "check" /\ UNCHANGED probe
  BY DEF Check, Meanwhile, Next
<1>2. IInv'
  BY <1>1, NextKeepsIInv DEF ProbeInv
<1> QED
  BY <1>1, <1>2 DEF ProbeInv, IInv, ProbeTypeOK, Held, Flagged, Opened, probe

LEMMA CheckReturnsKeeps == ASSUME ProbeInv, CheckReturns PROVE ProbeInv'
<1>1. IInv'
  BY CheckUntouched DEF ProbeInv, CheckReturns
<1>2. target' \in Targets
  BY DEF CheckReturns, LeadsTo, Targets
<1>3. status' = status
  BY DEF CheckReturns, vars, check
<1> QED
  BY <1>1, <1>2, <1>3 DEF CheckReturns, ProbeInv, IInv, ProbeTypeOK, Held, Flagged, Opened

LEMMA ProbePhaseKeeps ==
  ASSUME ProbeInv,
         Open \/ OpenFails \/ Inspect \/ InspectFails \/ Read \/ ReadFails
         \/ FdopenFails \/ Close \/ OtherOpens
  PROVE  ProbeInv'
<1>1. UNCHANGED vars
  BY DEF Open, OpenFails, Inspect, InspectFails, Read, ReadFails, FdopenFails, Close, OtherOpens
<1>2. IInv' /\ status' = status
  BY <1>1, CheckUntouched DEF ProbeInv, vars, check
<1> USE DEF ProbeInv, IInv, ProbeTypeOK, Held, Flagged, Opened
<1>3. CASE Open
  BY <1>2, <1>3 DEF Open
<1>4. CASE OpenFails
  <2>1. step = "open" /\ step' = "done"
        /\ UNCHANGED <<target, opened, descriptor, elf, seen>>
    BY <1>4 DEF OpenFails
  <2>2. /\ failed' \in {"nothing", "open"}
        /\ failed' = "nothing" => target # "binary"
    BY <1>4 DEF OpenFails, Openable
  <2>3. ProbeTypeOK' /\ Held'
    BY <1>2, <2>1, <2>2
  <2>4. Flagged'
    BY <1>2, <2>1, <2>2
  <2> QED
    BY <1>2, <2>3, <2>4
<1>5. CASE Inspect
  BY <1>2, <1>5 DEF Inspect, Candidates
<1>6. CASE InspectFails
  BY <1>2, <1>6 DEF InspectFails
<1>7. CASE Read
  <2>1. elf' = (opened = "binary")
    BY <1>7 DEF Read, Candidates
  <2> QED
    BY <1>2, <1>7, <2>1 DEF Read
<1>8. CASE ReadFails
  BY <1>2, <1>8 DEF ReadFails
<1>11. CASE FdopenFails
  <2>1. ProbeTypeOK' /\ Held'
    BY <1>2, <1>11 DEF FdopenFails
  <2>2. Flagged'
    BY <1>2, <1>11 DEF FdopenFails
  <2> QED
    BY <1>2, <2>1, <2>2
<1>9. CASE Close
  BY <1>2, <1>9 DEF Close
<1>10. CASE OtherOpens
  BY <1>2, <1>10 DEF OtherOpens
<1> QED
  BY <1>3, <1>4, <1>5, <1>6, <1>7, <1>8, <1>9, <1>10, <1>11

LEMMA RetargetKeeps == ASSUME ProbeInv, Retarget PROVE ProbeInv'
<1>1. changes \in Nat /\ changes < MaxChanges /\ changes' = changes + 1
      /\ UNCHANGED <<recorded, at, status, unread, disk, dir, fate, appeared>>
  BY DEF Retarget, check, ProbeInv, IInv, TypeOK
<1>2. TypeOK'
  <2>1. changes' \in 0..MaxChanges
    BY <1>1, PathCheckAssumption
  <2>2. Len(Probes') = Len(Probes)
    BY <1>1 DEF Probes
  <2> QED
    BY <1>1, <2>1, <2>2 DEF TypeOK, ProbeInv, IInv
<1>3. FalseAlarmInv'
  BY <1>1 DEF FalseAlarmInv, Kept, Present, ProbeInv, IInv
<1> QED
  BY <1>1, <1>2, <1>3 DEF Retarget, ProbeInv, IInv, ProbeTypeOK, Held, Flagged, Opened

LEMMA ProbeNextKeeps == ProbeInv /\ [ProbeNext]_pvars => ProbeInv'
<1> SUFFICES ASSUME ProbeInv, [ProbeNext]_pvars PROVE ProbeInv'
  OBVIOUS
<1>1. CASE UNCHANGED pvars
  <2>1. IInv' /\ UNCHANGED status
    BY <1>1, CheckUntouched DEF pvars, ProbeInv, vars, check
  <2> QED
    BY <1>1, <2>1 DEF pvars, probe, ProbeInv, IInv, ProbeTypeOK, Held, Flagged, Opened
<1> QED
  BY <1>1, CheckPhaseKeeps, CheckReturnsKeeps, ProbePhaseKeeps, RetargetKeeps
  DEF ProbeNext, ProbeStep, Returned

LEMMA ProbeInductive == ProbeSpec => []ProbeInv
  BY InitProbeInv, ProbeNextKeeps, PTL DEF ProbeSpec

(* The task keeps its types, those of check_path among them.               *)
THEOREM ProbeTypeCorrect == ProbeSpec => []ProbeTypeOK
<1>1. ProbeInv => ProbeTypeOK
  BY DEF ProbeInv
<1> QED
  BY <1>1, ProbeInductive, PTL

(* What LostMeansLost says of check_path holds of the whole task.          *)
THEOREM ProbeLostMeansLost == ProbeSpec => []NoFalseAlarm
<1>1. ProbeInv => NoFalseAlarm
  BY DEF ProbeInv, IInv, FalseAlarmInv, NoFalseAlarm
<1> QED
  BY <1>1, ProbeInductive, PTL

(* The descriptor is never closed under another worker, and stays open     *)
(* after the task on one path only: when os.fdopen itself raised.          *)
THEOREM ClosedOnce == ProbeSpec => []DescriptorReturned
<1>1. ProbeInv => DescriptorReturned
  BY DEF ProbeInv, Held, DescriptorReturned, ProbeTypeOK, Opened
<1> QED
  BY <1>1, ProbeInductive, PTL

(* The ELF flag is right about the file the path led to.                   *)
THEOREM ElfFlagExact == ProbeSpec => []ElfExact
<1>1. ProbeInv => ElfExact
  BY DEF ProbeInv, Flagged, ElfExact, ProbeTypeOK
<1> QED
  BY <1>1, ProbeInductive, PTL
=============================================================================
