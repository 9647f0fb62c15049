------------------------------ MODULE PathCheck ------------------------------
(***************************************************************************)
(* verifier.check_path on a live system.  The check of one recorded path   *)
(* is a series of lstat calls on the names the path may have now: itself,  *)
(* its `.new` or its renamed variant, their backups.  Between two of them  *)
(* the administrator and the package tools may create, remove and rename   *)
(* those very names.                                                       *)
(*                                                                         *)
(* A name is <<stem, suffix>>: <<"base", "itself">> is foo.conf,           *)
(* <<"new", "itself">> is foo.conf.new, <<"new", ".bak">> its backup.      *)
(***************************************************************************)
EXTENDS Naturals, Sequences, SequencesExt

CONSTANTS
  BackupSuffixes,  (* The backup suffixes looked for, in order.             *)
  MaxChanges       (* Bound: changes to the directory during one call.      *)

ASSUME PathCheckAssumption ==
  /\ BackupSuffixes \in Seq(STRING)
  /\ MaxChanges \in Nat

VARIABLES
  recorded,    (* "base" or "new": which of the two names the package lists.*)
  disk,        (* The names that exist; a broken link exists.               *)
  dir,         (* Whether lstat can answer for the directory: "ok",         *)
               (* "denied" (PermissionError) or "broken" (another OSError). *)
  at,          (* The probe check_path makes next.                          *)
  status,      (* "none" until the call returns a PathStatus.               *)
  unread,      (* History: a probe failed and was taken for an absence.     *)
  fate,        (* History: "lost" since neither foo nor foo.new existed at  *)
               (* some instant of the call, "kept" until then.              *)
  appeared,    (* History: names that came to exist during the call.        *)
  changes      (* Changes made during the call, at most MaxChanges.         *)

check == <<recorded, at, status, unread>>
env   == <<disk, dir, fate, appeared, changes>>
vars  == <<check, env>>

Stems == {"base", "new"}
Names == Stems \X ({"itself"} \cup ToSet(BackupSuffixes))
Other(stem) == IF stem = "base" THEN "new" ELSE "base"

PathStatus == {"exists", "backup", "new_pending", "missing", "no_access", "error"}

(* A file of its own name: in use, or pending review when that is the .new.*)
Verdict(stem) == IF stem = "new" THEN "new_pending" ELSE "exists"

Probe(name, verdict) == [name |-> name, verdict |-> verdict]
Backups(stem) == [k \in 1..Len(BackupSuffixes) |-> Probe(<<stem, BackupSuffixes[k]>>, "backup")]

(* Seeded bug: foo.conf is looked for first whichever name is recorded.    *)
BadProbesBaseFirst ==
  <<Probe(<<"base", "itself">>, "exists"), Probe(<<"new", "itself">>, "new_pending")>>
  \o Backups("new") \o Backups("base")

(* The lstat calls, in order, with the status returned at the first that   *)
(* finds something.  The backups of foo.new are looked for only when the   *)
(* package recorded foo.new.                                               *)
Probes ==
  <<Probe(<<recorded, "itself">>, Verdict(recorded)),
    Probe(<<Other(recorded), "itself">>, Verdict(Other(recorded)))>>
  \o (IF recorded = "new" THEN Backups("new") ELSE << >>)
  \o Backups("base")

Present(stem) == <<stem, "itself">> \in disk

(* Whether foo.conf is there under either of its two names.                *)
Kept(names) == <<"base", "itself">> \in names \/ <<"new", "itself">> \in names
FateWith(names) == IF Kept(names) THEN "kept" ELSE "lost"

Init ==
  /\ recorded \in Stems
  /\ disk \in SUBSET Names
  /\ dir \in {"ok", "denied", "broken"}
  /\ at = 1
  /\ status = "none"
  /\ unread = FALSE
  /\ fate = FateWith(disk)
  /\ appeared = {}
  /\ changes = 0

-----------------------------------------------------------------------------
(* The steps of check_path.                                                *)

Probing == status = "none" /\ at <= Len(Probes)

Found ==
  /\ Probing
  /\ dir = "ok" /\ Probes[at].name \in disk
  /\ status' = Probes[at].verdict
  /\ UNCHANGED <<recorded, at, unread, env>>

(* Seeded bug: candidates are skipped.                                     *)
BadNotFoundSkips ==
  /\ Probing
  /\ \/ dir = "ok" /\ Probes[at].name \notin disk
     \/ dir = "broken" /\ at > 1
  /\ at' = IF at = 1 THEN 2 ELSE at + 2
  /\ unread' = (unread \/ dir = "broken")
  /\ UNCHANGED <<recorded, status, env>>

(* FileNotFoundError; for every name but the recorded one, any other       *)
(* OSError than PermissionError as well (_lexists).                        *)
NotFound ==
  /\ Probing
  /\ \/ dir = "ok" /\ Probes[at].name \notin disk
     \/ dir = "broken" /\ at > 1
  /\ at' = at + 1
  /\ unread' = (unread \/ dir = "broken")
  /\ UNCHANGED <<recorded, status, env>>

Denied ==
  /\ Probing
  /\ dir = "denied"
  /\ status' = "no_access"
  /\ UNCHANGED <<recorded, at, unread, env>>

Unreadable ==
  /\ Probing
  /\ dir = "broken" /\ at = 1
  /\ status' = "error"
  /\ UNCHANGED <<recorded, at, unread, env>>

NothingLeft ==
  /\ status = "none"
  /\ at > Len(Probes)
  /\ status' = "missing"
  /\ UNCHANGED <<recorded, at, unread, env>>

CheckStep == Found \/ NotFound \/ Denied \/ Unreadable \/ NothingLeft

-----------------------------------------------------------------------------
(* What else runs on the system.                                           *)

Change(newDisk, newDir) ==
  /\ status = "none"
  /\ changes < MaxChanges
  /\ changes' = changes + 1
  /\ disk' = newDisk
  /\ dir' = newDir
  /\ fate' = IF fate = "lost" THEN "lost" ELSE FateWith(newDisk)
  /\ appeared' = appeared \cup (newDisk \ disk)
  /\ UNCHANGED check

(* mv foo.conf.new foo.conf: the new version is accepted.                  *)
Accept == Present("new") /\ Change((disk \ {<<"new", "itself">>}) \cup {<<"base", "itself">>}, dir)

(* mv foo.conf foo.conf.bak, or the same for the .new.                     *)
SetAside(stem, k) ==
  /\ Present(stem)
  /\ Change((disk \ {<<stem, "itself">>}) \cup {<<stem, BackupSuffixes[k]>>}, dir)

(* A package is installed, a file is restored.                             *)
Create(name) == name \notin disk /\ Change(disk \cup {name}, dir)
Delete(name) == name \in disk /\ Change(disk \ {name}, dir)

(* chmod of the directory, a file system that goes away or comes back.     *)
ChangeDir(d) == d # dir /\ Change(disk, d)

Environment ==
  \/ Accept
  \/ \E stem \in Stems, k \in 1..Len(BackupSuffixes) : SetAside(stem, k)
  \/ \E name \in Names : Create(name) \/ Delete(name)
  \/ \E d \in {"ok", "denied", "broken"} : ChangeDir(d)

Terminated == status # "none" /\ UNCHANGED vars

Next == CheckStep \/ Environment \/ Terminated

Spec == Init /\ [][Next]_vars

-----------------------------------------------------------------------------
(* Properties.                                                             *)

(* Type invariant of check_path's locals and of its surroundings.          *)
TypeOK ==
  /\ recorded \in Stems
  /\ disk \subseteq Names
  /\ dir \in {"ok", "denied", "broken"}
  /\ at \in 1..Len(Probes) + 1
  /\ status \in PathStatus \cup {"none"}
  /\ unread \in BOOLEAN
  /\ fate \in {"kept", "lost"}
  /\ appeared \subseteq Names
  /\ changes \in 0..MaxChanges

Backup(stem) == \E suffix \in ToSet(BackupSuffixes) : <<stem, suffix>> \in disk

(* What is left of a recorded foo.conf.new is a backup of that .new.       *)
PendingBackup ==
  /\ dir = "ok" /\ recorded = "new"
  /\ ~Present("new") /\ ~Present("base") /\ Backup("new")

(* What the docstring promises when nothing moves: the recorded .new is    *)
(* pending while it is there or a backup of it is, a renamed one exists, a *)
(* path whose .new is there is pending, only backups of foo.conf is        *)
(* BACKUP, nothing is MISSING.                                             *)
Promised(answer) ==
  \/ dir = "denied" /\ answer = "no_access"
  \/ dir = "broken" /\ answer = "error"
  \/ dir = "ok" /\ Present(recorded) /\ answer = Verdict(recorded)
  \/ /\ dir = "ok" /\ ~Present(recorded) /\ Present(Other(recorded))
     /\ answer = Verdict(Other(recorded))
  \/ PendingBackup /\ answer = "new_pending"
  \/ /\ dir = "ok" /\ ~Present("base") /\ ~Present("new") /\ ~PendingBackup
     /\ answer = IF Backup("base") THEN "backup" ELSE "missing"

(* On a system at rest check_path returns the promised status, whichever   *)
(* of the names exist together, in every case but one: for a recorded .new *)
(* of which a backup is left it returns BACKUP, where the docstring says   *)
(* "If `path` ends with `new_suffix` AND a backup variant exists (e.g.,    *)
(* foo.conf.new.bak), report as NEW_PENDING".                              *)
VerdictAtRest ==
  status # "none" /\ changes = 0 =>
    IF PendingBackup THEN status = "backup" ELSE Promised(status)

(* A file reported lost (MISSING or BACKUP) was lost at some instant of    *)
(* the call, however it was renamed meanwhile, but for two cases: the      *)
(* recorded name itself came into existence after check_path had looked    *)
(* for it, as in mv foo.conf.new foo.conf under the check of foo.conf (the *)
(* docstring has a "single low-level call"; there are several); or a later *)
(* probe failed and _lexists took it for an absence, where the first lstat *)
(* gives ERROR.  So accepting or setting aside a recorded .new never       *)
(* raises a false alarm.                                                   *)
NoFalseAlarm ==
  status \in {"missing", "backup"} /\ fate = "kept" =>
    <<recorded, "itself">> \in appeared \/ unread

(* Why NoFalseAlarm holds, at every step: once the recorded name has been  *)
(* looked for in vain it is back only if it appeared since; once the other *)
(* was not found either, one of them has been absent with the other there. *)
FalseAlarmInv ==
  /\ fate = "kept" => Kept(disk)
  /\ at > 1 /\ fate = "kept" /\ Present(recorded) => <<recorded, "itself">> \in appeared
  /\ at > 2 /\ fate = "kept" => <<recorded, "itself">> \in appeared \/ unread
  /\ status \in {"missing", "backup"} => at > 2
=============================================================================
