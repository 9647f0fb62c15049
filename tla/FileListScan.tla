----------------------------- MODULE FileListScan -----------------------------
(***************************************************************************)
(* How scan_package_files turns the lines of one package record, from its  *)
(* FILE LIST: marker on, into registered files and two exclusion counters. *)
(* The scan only sees what a line looks like; the record also has a truth: *)
(* which lines are files and which belong to a later section.  A line is   *)
(* one of these kinds.  Some look the same to the scan: `headerfile` (a    *)
(* file named README:) and `header` (a section title); `topfile` (vmlinuz) *)
(* and `content` (a line of a section); `file` and `slashed` (a line of a  *)
(* section with a slash in it).                                            *)
(***************************************************************************)
EXTENDS Naturals, Sequences, FiniteSets

CONSTANT
  MaxLines     (* Bound: lines after the first marker.                      *)

ASSUME FileListScanAssumption == MaxLines \in Nat

Skipped  == {"dir"}                        (* Empty, or ending in a slash.   *)
Excluded == {"install", "pseudo", "unsafe", "escaped", "topunsafe"}
Files    == {"file", "topfile", "headerfile"}
Section  == {"content", "slashed"}
Kinds    == {"marker", "header"} \cup Skipped \cup Excluded \cup Files \cup Section

(* _SECTION_HEADER matches the line; the marker has that form too.         *)
HeaderLike == {"marker", "header", "headerfile"}
WithSlash  == {"file", "slashed"} \cup (Excluded \ {"topunsafe"})

VARIABLES
  rels,              (* The lines, in order, the first a marker.            *)
  index,             (* Lines handled so far.                               *)
  in_file_list,      (* Whether the scan believes it is in a FILE LIST.     *)
  entries,           (* The lines registered as files of the package.       *)
  excluded_install,  (* Lines counted under install/.                       *)
  excluded_pseudo    (* Lines counted as pseudo, unsafe ones included.      *)

vars == <<rels, index, in_file_list, entries, excluded_install, excluded_pseudo>>

Lines == 1..Len(rels)

(* The first line after k that is neither empty nor a directory is of one  *)
(* of these kinds; false at the end of the record.                         *)
FollowedBy(k, kinds) ==
  \E j \in Lines :
    /\ j > k /\ rels[j] \notin Skipped
    /\ \A i \in k + 1..j - 1 : rels[i] \in Skipped
    /\ rels[j] \in kinds

(* Seeded bug: any line that looks like a header ends the list.            *)
BadIsSectionHeader(k) == rels[k] \in HeaderLike

(* A line that looks like a header ends the list when what follows looks   *)
(* like neither a path nor another header.                                 *)
IsSectionHeader(k) ==
  /\ rels[k] \in HeaderLike
  /\ FollowedBy(k, Kinds \ (WithSlash \cup HeaderLike))

Init ==
  /\ \E n \in 0..MaxLines : \E lines \in [1..n -> Kinds] : rels = <<"marker">> \o lines
  /\ index = 0
  /\ in_file_list = FALSE
  /\ entries = {}
  /\ excluded_install = 0
  /\ excluded_pseudo = 0

-----------------------------------------------------------------------------
(* One turn of the loop over `rels`, on the line after `index`.            *)

Line == rels[index + 1]

Advance == index < Len(rels) /\ index' = index + 1 /\ UNCHANGED rels

Marker ==
  /\ Advance /\ Line = "marker"
  /\ in_file_list' = TRUE
  /\ UNCHANGED <<entries, excluded_install, excluded_pseudo>>

(* Outside the list, or nothing to register.                               *)
Ignore ==
  /\ Advance /\ Line # "marker"
  /\ ~in_file_list \/ Line \in Skipped
  /\ UNCHANGED <<in_file_list, entries, excluded_install, excluded_pseudo>>

InList == Advance /\ in_file_list /\ Line \notin {"marker"} \cup Skipped

EndOfList ==
  /\ InList
  /\ IsSectionHeader(index + 1)
  /\ in_file_list' = FALSE
  /\ UNCHANGED <<entries, excluded_install, excluded_pseudo>>

Listed == InList /\ ~IsSectionHeader(index + 1)

ExcludeInstall ==
  /\ Listed /\ Line = "install"
  /\ excluded_install' = excluded_install + 1
  /\ UNCHANGED <<in_file_list, entries, excluded_pseudo>>

(* Seeded bug: a name that is unsafe once decoded is dropped uncounted.    *)
BadExcludePseudoUncounted ==
  /\ Listed /\ Line \in Excluded \ {"install"}
  /\ excluded_pseudo' = excluded_pseudo + (IF Line = "escaped" THEN 0 ELSE 1)
  /\ UNCHANGED <<in_file_list, entries, excluded_install>>

(* Under a pseudo-filesystem, unsafe as written, or unsafe once its octal  *)
(* escapes are decoded.                                                    *)
ExcludePseudo ==
  /\ Listed /\ Line \in Excluded \ {"install"}
  /\ excluded_pseudo' = excluded_pseudo + 1
  /\ UNCHANGED <<in_file_list, entries, excluded_install>>

(* Seeded bug: the line after is the one registered.                       *)
BadRegisterNext ==
  /\ Listed /\ Line \notin Excluded
  /\ entries' = entries \cup {index + 2}
  /\ UNCHANGED <<in_file_list, excluded_install, excluded_pseudo>>

Register ==
  /\ Listed /\ Line \notin Excluded
  /\ entries' = entries \cup {index + 1}
  /\ UNCHANGED <<in_file_list, excluded_install, excluded_pseudo>>

Done == index = Len(rels)

Terminated == Done /\ UNCHANGED vars

Next ==
  \/ Marker \/ Ignore \/ EndOfList
  \/ ExcludeInstall \/ ExcludePseudo \/ Register
  \/ Terminated

Spec == Init /\ [][Next]_vars

-----------------------------------------------------------------------------
(* Properties.                                                             *)

(* Type invariant of the loop.                                             *)
TypeOK ==
  /\ rels \in Seq(Kinds)
  /\ index \in 0..Len(rels)
  /\ in_file_list \in BOOLEAN
  /\ entries \subseteq 1..index
  /\ excluded_install \in Nat
  /\ excluded_pseudo \in Nat

(* Whether line k belongs to a section that follows the FILE LIST.         *)
InSection(k) ==
  \E h \in 1..k - 1 : rels[h] = "header" /\ \A j \in h + 1..k - 1 : rels[j] # "marker"

(* The records the scan can tell apart: files and content are where they   *)
(* belong, the section that ends a list has content, whose first line has  *)
(* no slash, and no file that looks like a title comes before a name of    *)
(* the root directory.                                                     *)
WellFormed ==
  \A k \in Lines :
    /\ rels[k] \in Files \cup Excluded => ~InSection(k)
    /\ rels[k] \in Section => InSection(k)
    /\ rels[k] = "header" /\ ~InSection(k) =>
         FollowedBy(k, {"content"})
    /\ rels[k] = "headerfile" =>
         ~FollowedBy(k, {"topfile", "topunsafe"})

(* On those records the scan is exact, at every line: what it registers    *)
(* are the files, and the counters are the excluded lines, wherever the    *)
(* sections, second markers and file names that look like titles stand.    *)
WellFormedIsExact ==
  WellFormed =>
    /\ entries = {k \in 1..index : rels[k] \in Files}
    /\ excluded_install = Cardinality({k \in 1..index : rels[k] = "install"})
    /\ excluded_pseudo = Cardinality({k \in 1..index : rels[k] \in Excluded \ {"install"}})

(* On any record each line between a marker and the line that ended its    *)
(* list is registered or counted, once: "keep stats consistent".           *)
InOpenList(k) ==
  \E m \in 1..k - 1 :
    rels[m] = "marker" /\ \A j \in m + 1..k : rels[j] # "marker" => ~IsSectionHeader(j)
EveryLineCountedOnce ==
  Cardinality(entries) + excluded_install + excluded_pseudo =
    Cardinality({k \in 1..index : rels[k] \notin {"marker"} \cup Skipped /\ InOpenList(k)})
=============================================================================
