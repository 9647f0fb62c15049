------------------------------ MODULE OrphanScan ------------------------------
(***************************************************************************)
(* orphans.find_orphans: a walk of the file tree below a root, directory   *)
(* by directory (os.walk), that reports the files no package record names. *)
(* Excluded prefixes prune directories before they are entered.  The tree  *)
(* belongs to a running system: it changes between two listings.           *)
(*                                                                         *)
(* A place is the sequence of names from / on; a prefix such as `var/log/` *)
(* is the place of its directory.                                          *)
(***************************************************************************)
EXTENDS Naturals, Sequences, SequencesExt

CONSTANTS
  Places,      (* The places of the tree that may hold something.           *)
  Roots,       (* The values of --orphans-root.                             *)
  Records,     (* What the package records may name: sets of places.        *)
  Excluded,    (* _ORPHAN_EXCLUDE and the --exclude prefixes.               *)
  MaxChanges   (* Bound: changes of the tree during one walk.               *)

ASSUME OrphanScanAssumption ==
  /\ Places \cup Roots \cup Excluded \subseteq Seq(STRING)
  /\ \A p \in Places : p # << >> /\ \A n \in 1..Len(p) : SubSeq(p, 1, n) \in Places
  /\ Roots \subseteq Places \cup {<< >>}
  /\ MaxChanges \in Nat

VARIABLES
  root,        (* Where the walk starts.                                    *)
  owned,       (* The names in the package records, read before the walk.   *)
  tree,        (* What is at each place; a link is one to a directory.      *)
  pending,     (* Directories to list, in any order; os.walk's depth-first  *)
               (* order is one of them.                                     *)
  orphans,     (* The paths to be reported.                                 *)
  unlisted,    (* History: directories the walk could not list.             *)
  stayed,      (* History: files that have not moved since the walk began.  *)
  existed,     (* History: files seen at some instant of the walk.          *)
  changes

walk == <<root, owned, pending, orphans, unlisted>>
env  == <<tree, stayed, existed, changes>>
vars == <<walk, env>>

Kinds == {"none", "file", "dir", "link"}
FilesOf(t) == {p \in Places : t[p] = "file"}

IsDir(p) == p \in Places => tree[p] = "dir"
ChildrenOf(d) == {p \in Places : Front(p) = d}

(* What is there has directories above it, up to /.                        *)
WellFormed(t) ==
  \A p \in Places : t[p] # "none" => \A n \in 1..(Len(p) - 1) : t[SubSeq(p, 1, n)] = "dir"

Init ==
  /\ root \in Roots
  /\ owned \in Records
  /\ tree \in {t \in [Places -> Kinds] : WellFormed(t)}
  /\ IsDir(root)
  /\ pending = {root}
  /\ orphans = {}
  /\ unlisted = {}
  /\ stayed = FilesOf(tree)
  /\ existed = FilesOf(tree)
  /\ changes = 0

-----------------------------------------------------------------------------
(* The walk.                                                               *)

(* The name relative to the root of the walk, which the code looks for     *)
(* among the names from / that the records have.                           *)
Rel(p) == SubSeq(p, Len(root) + 1, Len(p))

(* Seeded bug: the path is reported relative to the root.                  *)
BadDisplayPath(p) == Rel(p)
DisplayPath(p) == p

(* _is_orphan_excluded on a directory (the name ends in a slash) and on a  *)
(* file.                                                                   *)
IsDirExcluded(rel)  == \E x \in Excluded : IsPrefix(x, rel)
IsFileExcluded(rel) == \E x \in Excluded : IsStrictPrefix(x, rel)

(* Seeded bug: the slash in front of the owned paths is kept.              *)
BadOwnedRels == {}
OwnedRels    == owned

(* Seeded bug: directories above an excluded prefix are pruned as well.    *)
BadSubdirsAbove(d) ==
  {p \in ChildrenOf(d) :
     tree[p] = "dir" /\ ~\E x \in Excluded : IsPrefix(x, Rel(p)) \/ IsPrefix(Rel(p), x)}

(* The directories that stay in dirnames and are no links.                 *)
Subdirs(d) == {p \in ChildrenOf(d) : tree[p] = "dir" /\ ~IsDirExcluded(Rel(p))}

(* One turn of the loop: a directory is listed, its files are compared.    *)
List(d) ==
  /\ d \in pending
  /\ IsDir(d)
  /\ pending' = (pending \ {d}) \cup Subdirs(d)
  /\ orphans' = orphans \cup
       {DisplayPath(p) : p \in {f \in ChildrenOf(d) :
          tree[f] = "file" /\ ~IsFileExcluded(Rel(f)) /\ Rel(f) \notin OwnedRels}}
  /\ UNCHANGED <<root, owned, unlisted, env>>

(* scandir fails: the directory is gone, or may not be read.               *)
Skip(d) ==
  /\ d \in pending
  /\ pending' = pending \ {d}
  /\ unlisted' = unlisted \cup {d}
  /\ UNCHANGED <<root, owned, orphans, env>>

WalkStep == \E d \in pending : List(d) \/ Skip(d)

-----------------------------------------------------------------------------
(* What else runs on the system.                                           *)

(* Something appears, vanishes or is replaced; a directory vanishes empty. *)
Change(p, kind) ==
  /\ pending # {} /\ changes < MaxChanges
  /\ tree' = [tree EXCEPT ![p] = kind]
  /\ tree' # tree /\ WellFormed(tree')
  /\ stayed' = stayed \cap FilesOf(tree')
  /\ existed' = existed \cup FilesOf(tree')
  /\ changes' = changes + 1
  /\ UNCHANGED walk

Terminated == pending = {} /\ UNCHANGED vars

Next ==
  \/ WalkStep
  \/ \E p \in Places, kind \in Kinds : Change(p, kind)
  \/ Terminated

Spec == Init /\ [][Next]_vars

-----------------------------------------------------------------------------
(* Properties.                                                             *)

(* Type invariant of the walk and of the tree.                             *)
TypeOK ==
  /\ root \in Roots
  /\ owned \in Records
  /\ tree \in [Places -> Kinds] /\ WellFormed(tree)
  /\ pending \subseteq Places \cup {<< >>}
  /\ orphans \subseteq Places
  /\ unlisted \subseteq Places \cup {<< >>}
  /\ stayed \subseteq existed /\ existed \subseteq Places
  /\ changes \in 0..MaxChanges

Below(p)   == IsStrictPrefix(root, p)
Hidden(p)  == \E x \in Excluded : IsStrictPrefix(root \o x, p)

(* An untracked file that stays where it is during the walk is reported,   *)
(* whatever is pruned, created, replaced or removed around it, if no       *)
(* excluded prefix holds it and each directory above it could be listed.   *)
(* Below a root other than / a file passes for tracked, too, when its name *)
(* from that root is the recorded name of another file.                    *)
NothingOverlooked ==
  pending = {} =>
    \A f \in stayed :
      \/ ~Below(f) \/ Hidden(f) \/ Rel(f) \in owned
      \/ \E d \in unlisted : IsPrefix(d, f)
      \/ f \in orphans

(* What is reported was there at some instant of the walk and is under no  *)
(* excluded prefix; and a walk from / reports nothing a package owns.  The *)
(* README says so of every --orphans-root; below another root names from   *)
(* that root are compared with names from /, and owned files are reported. *)
NothingInvented ==
  \A f \in orphans :
    /\ f \in existed /\ Below(f) /\ ~Hidden(f)
    /\ root = << >> => f \notin owned
=============================================================================
