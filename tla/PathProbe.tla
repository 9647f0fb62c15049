------------------------------ MODULE PathProbe ------------------------------
(***************************************************************************)
(* verifier.check_path_and_elf, the task a worker runs for one path: the   *)
(* check of module PathCheck, then, for a path that exists, whether the    *)
(* file it leads to is an ELF binary or library.                           *)
(*                                                                         *)
(* The file is opened by name, so what is read need not be what the check  *)
(* found; and the workers share one table of descriptors, so that a number *)
(* this one gives back may at once belong to another.                      *)
(***************************************************************************)
EXTENDS PathCheck

VARIABLES
  step,        (* "check", then the step of _is_elf; "done" on return.      *)
  target,      (* What the recorded name leads to, links followed.          *)
  opened,      (* What the open led to; "none" before.                      *)
  descriptor,  (* The number the open returned: whose it is now, "none"     *)
               (* before, "stolen" once closed under another worker.        *)
  elf,         (* The flag returned with the status.                        *)
  seen,        (* History: what the name has led to during the probe.       *)
  failed       (* History: the call that failed on a file that was there.   *)

probe  == <<step, target, opened, descriptor, elf, seen, failed>>
pvars  == <<vars, probe>>

(* "binary": an ELF file that is executable or named as a library;         *)
(* "object": an ELF file that is neither; "script": an executable that is  *)
(* not ELF; "special": no regular file.                                    *)
Openable   == {"binary", "object", "script", "special"}
Targets    == Openable \cup {"gone", "denied"}
Candidates == {"binary", "script"}

(* What the recorded name may lead to; a link, to anything or nothing.     *)
LeadsTo == IF <<recorded, "itself">> \in disk THEN Targets ELSE {"gone"}

ProbeInit ==
  /\ Init
  /\ step = "check" /\ target = "gone" /\ opened = "none" /\ descriptor = "none"
  /\ elf = FALSE /\ seen = {} /\ failed = "nothing"

-----------------------------------------------------------------------------
Check == step = "check" /\ CheckStep /\ UNCHANGED probe

(* Only a path that exists is probed, by its recorded name: a foo.conf.new *)
(* found as foo.conf is not there to be opened.                            *)
CheckReturns ==
  /\ step = "check" /\ status # "none"
  /\ step' = IF status = "exists" THEN "open" ELSE "done"
  /\ target' \in LeadsTo
  /\ seen' = {target'}
  /\ UNCHANGED <<vars, opened, descriptor, elf, failed>>

Open ==
  /\ step = "open" /\ target \in Openable
  /\ opened' = target
  /\ descriptor' = "mine"
  /\ step' = "inspect"
  /\ UNCHANGED <<vars, target, elf, seen, failed>>

(* Nothing there, no permission; or no descriptor left, an I/O error.      *)
OpenFails ==
  /\ step = "open"
  /\ \/ target \notin Openable /\ UNCHANGED failed
     \/ target \in Openable /\ failed' = "open"
  /\ step' = "done"
  /\ UNCHANGED <<vars, target, opened, descriptor, elf, seen>>

(* Seeded bug: every regular file is read, as a candidate or not.          *)
BadInspectAnyRegular ==
  /\ step = "inspect"
  /\ step' = IF opened # "special" THEN "read" ELSE "close"
  /\ UNCHANGED <<vars, target, opened, descriptor, elf, seen, failed>>

(* fstat: anything but a candidate is closed unread.                       *)
Inspect ==
  /\ step = "inspect"
  /\ step' = IF opened \in Candidates THEN "read" ELSE "close"
  /\ UNCHANGED <<vars, target, opened, descriptor, elf, seen, failed>>

InspectFails ==
  /\ step = "inspect"
  /\ failed' = "fstat"
  /\ step' = "close"
  /\ UNCHANGED <<vars, target, opened, descriptor, elf, seen>>

(* The magic number is there in any ELF file.                              *)
Read ==
  /\ step = "read"
  /\ elf' = (opened \in {"binary", "object"})
  /\ step' = "close"
  /\ UNCHANGED <<vars, target, opened, descriptor, seen, failed>>

(* Seeded bug: the error leaves the `with`, which closes, for the outer    *)
(* handler, which closes as well.                                          *)
BadReadFails ==
  /\ step = "read"
  /\ failed' = "read"
  /\ descriptor' = "free"
  /\ step' = "close"
  /\ UNCHANGED <<vars, target, opened, elf, seen>>

ReadFails ==
  /\ step = "read"
  /\ failed' = "read"
  /\ step' = "close"
  /\ UNCHANGED <<vars, target, opened, descriptor, elf, seen>>

(* os.fdopen raises: the descriptor has no handle to close it, and the     *)
(* handler only returns False.                                             *)
FdopenFails ==
  /\ step = "read"
  /\ failed' = "fdopen"
  /\ step' = "done"
  /\ UNCHANGED <<vars, target, opened, descriptor, elf, seen>>

(* Explicitly, or at the end of the `with`; a failing close releases the   *)
(* number all the same.                                                    *)
Close ==
  /\ step = "close"
  /\ descriptor' = IF descriptor = "other" THEN "stolen" ELSE "free"
  /\ step' = "done"
  /\ UNCHANGED <<vars, target, opened, elf, seen, failed>>

ProbeStep ==
  \/ Check \/ CheckReturns
  \/ Open \/ OpenFails \/ Inspect \/ InspectFails
  \/ Read \/ ReadFails \/ FdopenFails \/ Close

-----------------------------------------------------------------------------
(* What else runs: the changes under the check; the name is removed, put   *)
(* back or made to lead elsewhere under the probe; another worker opens a  *)
(* file and is given the number.                                           *)
Meanwhile == step = "check" /\ Environment /\ UNCHANGED probe

Retarget ==
  /\ step \in {"open", "inspect", "read"}
  /\ changes < MaxChanges
  /\ changes' = changes + 1
  /\ target' \in Targets \ {target}
  /\ seen' = seen \cup {target'}
  /\ UNCHANGED <<check, disk, dir, fate, appeared, step, opened, descriptor, elf, failed>>

OtherOpens ==
  /\ descriptor = "free"
  /\ descriptor' = "other"
  /\ UNCHANGED <<vars, step, target, opened, elf, seen, failed>>

Returned == step = "done" /\ UNCHANGED pvars

ProbeNext == ProbeStep \/ Meanwhile \/ Retarget \/ OtherOpens \/ Returned

ProbeSpec == ProbeInit /\ [][ProbeNext]_pvars

-----------------------------------------------------------------------------
(* Properties.                                                             *)

(* Type invariant of the task, those of check_path included.               *)
ProbeTypeOK ==
  /\ TypeOK
  /\ step \in {"check", "open", "inspect", "read", "close", "done"}
  /\ target \in Targets
  /\ opened \in Openable \cup {"none"}
  /\ descriptor \in {"none", "mine", "free", "other", "stolen"}
  /\ elf \in BOOLEAN
  /\ seen \subseteq Targets
  /\ failed \in {"nothing", "open", "fstat", "fdopen", "read"}

(* The descriptor is never closed twice: a second close would close the    *)
(* file of whichever worker has been given the number since.  And it is    *)
(* closed on every path through _is_elf, failing calls included, but for   *)
(* the one where os.fdopen itself raises, which always leaves it open.     *)
DescriptorReturned ==
  /\ descriptor # "stolen"
  /\ step = "done" => (descriptor = "mine" <=> failed = "fdopen")

(* A path flagged as ELF exists, and led to an ELF binary or library at    *)
(* some instant of the probe, whatever it was made to lead to before or    *)
(* after.  One that leads to the same file all along is flagged exactly    *)
(* when that is an ELF binary or library, unless a call failed on it.      *)
ElfExact ==
  step = "done" =>
    /\ elf => status = "exists" /\ "binary" \in seen
    /\ status = "exists" /\ seen = {target} /\ failed = "nothing" => elf = (target = "binary")
=============================================================================
