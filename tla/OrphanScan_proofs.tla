--------------------------- MODULE OrphanScan_proofs ---------------------------
(***************************************************************************)
(* Theorems about OrphanScan, for any tree, records, excluded prefixes and *)
(* number of changes.                                                      *)
(***************************************************************************)
EXTENDS OrphanScan, SequenceTheorems, TLAPS

-----------------------------------------------------------------------------
(* Prefixes of paths.                                                      *)

Paths == Seq(STRING)

LEMMA CutIs ==
  ASSUME NEW t \in Paths, NEW n \in 0..Len(t)
  PROVE  /\ SubSeq(t, 1, n) \in Paths
         /\ Len(SubSeq(t, 1, n)) = n
         /\ \A i \in 1..n : SubSeq(t, 1, n)[i] = t[i]
<1>1. \A i \in 1..n : t[i] \in STRING
  BY DEF Paths
<1> QED
  BY <1>1, SubSeqProperties DEF Paths

LEMMA PrefixIs ==
  ASSUME NEW s \in Paths, NEW t \in Paths
  PROVE  IsPrefix(s, t) <=> Len(s) <= Len(t) /\ \A i \in 1..Len(s) : s[i] = t[i]
<1>1. Len(s) \in 0..Len(s) /\ Len(s) \in Nat /\ Len(t) \in Nat
  BY DEF Paths
<1>2. /\ SubSeq(s, 1, Len(s)) \in Paths /\ Len(SubSeq(s, 1, Len(s))) = Len(s)
      /\ \A i \in 1..Len(s) : SubSeq(s, 1, Len(s))[i] = s[i]
  BY <1>1, CutIs
<1>3. ASSUME Len(s) <= Len(t)
      PROVE  /\ SubSeq(t, 1, Len(s)) \in Paths /\ Len(SubSeq(t, 1, Len(s))) = Len(s)
             /\ \A i \in 1..Len(s) : SubSeq(t, 1, Len(s))[i] = t[i]
  BY <1>1, <1>3, CutIs
<1>4. ASSUME Len(s) <= Len(t), \A i \in 1..Len(s) : s[i] = t[i]
      PROVE  SubSeq(s, 1, Len(s)) = SubSeq(t, 1, Len(s))
  BY <1>2, <1>3, <1>4, SeqEqual DEF Paths
<1> QED
  BY <1>2, <1>3, <1>4 DEF IsPrefix

LEMMA StrictPrefixIs ==
  ASSUME NEW s \in Paths, NEW t \in Paths
  PROVE  IsStrictPrefix(s, t) <=> IsPrefix(s, t) /\ Len(s) < Len(t)
<1>1. Len(s) \in Nat /\ Len(t) \in Nat
  BY DEF Paths
<1>2. ASSUME IsPrefix(s, t), Len(s) = Len(t) PROVE s = t
  <2>1. \A i \in 1..Len(s) : s[i] = t[i]
    BY <1>2, PrefixIs
  <2> QED
    BY <1>2, <2>1, SeqEqual DEF Paths
<1>3. IsPrefix(s, t) => Len(s) <= Len(t)
  BY PrefixIs
<1> QED
  BY <1>1, <1>2, <1>3 DEF IsStrictPrefix

LEMMA PrefixOfPrefix ==
  ASSUME NEW s \in Paths, NEW t \in Paths, NEW u \in Paths, IsPrefix(s, t), IsPrefix(t, u)
  PROVE  IsPrefix(s, u)
<1>1. Len(s) \in Nat /\ Len(t) \in Nat /\ Len(u) \in Nat
  BY DEF Paths
<1>2. /\ Len(s) <= Len(t) /\ \A i \in 1..Len(s) : s[i] = t[i]
      /\ Len(t) <= Len(u) /\ \A i \in 1..Len(t) : t[i] = u[i]
  BY PrefixIs
<1>3. \A i \in 1..Len(s) : i \in 1..Len(t)
  BY <1>1, <1>2
<1>4. Len(s) <= Len(u) /\ \A i \in 1..Len(s) : s[i] = u[i]
  BY <1>1, <1>2, <1>3
<1> QED
  BY <1>4, PrefixIs

(* The path of f cut one name below d, which is above it.                  *)
LEMMA ChildTowards ==
  ASSUME NEW d \in Paths, NEW f \in Paths, IsStrictPrefix(d, f),
         NEW c, c = SubSeq(f, 1, Len(d) + 1)
  PROVE  /\ c \in Paths /\ Len(c) = Len(d) + 1 /\ Len(d) + 1 \in 1..Len(f)
         /\ Front(c) = d /\ IsPrefix(c, f) /\ IsPrefix(d, c)
         /\ c = f \/ (IsStrictPrefix(c, f) /\ Len(d) + 1 \in 1..(Len(f) - 1))
<1>1. /\ Len(d) \in Nat /\ Len(f) \in Nat /\ Len(d) < Len(f)
      /\ \A i \in 1..Len(d) : d[i] = f[i]
  BY PrefixIs, StrictPrefixIs DEF Paths
<1>2. Len(d) + 1 \in 0..Len(f) /\ Len(d) + 1 \in 1..Len(f)
  BY <1>1
<1>3. c \in Paths /\ Len(c) = Len(d) + 1 /\ \A i \in 1..(Len(d) + 1) : c[i] = f[i]
  BY <1>2, CutIs
<1>4. IsPrefix(c, f)
  <2>1. Len(c) <= Len(f) /\ \A i \in 1..Len(c) : c[i] = f[i]
    BY <1>2, <1>3
  <2> QED
    BY <1>3, <2>1, PrefixIs
<1>5. \A i \in 1..Len(d) : i \in 1..(Len(d) + 1) /\ d[i] = c[i]
  BY <1>1, <1>3
<1>6. IsPrefix(d, c)
  <2>1. Len(d) <= Len(c)
    BY <1>1, <1>3
  <2> QED
    BY <1>3, <1>5, <2>1, PrefixIs
<1>7. Front(c) = d
  <2>1. Len(c) - 1 = Len(d) /\ Len(d) \in 0..Len(c)
    BY <1>1, <1>3
  <2>2. /\ SubSeq(c, 1, Len(d)) \in Paths /\ Len(SubSeq(c, 1, Len(d))) = Len(d)
        /\ \A i \in 1..Len(d) : SubSeq(c, 1, Len(d))[i] = c[i]
    BY <1>3, <2>1, CutIs
  <2>3. SubSeq(c, 1, Len(d)) = d
    BY <1>5, <2>2, SeqEqual DEF Paths
  <2> QED
    BY <2>1, <2>3 DEF Front
<1>8. ASSUME c # f PROVE IsStrictPrefix(c, f) /\ Len(d) + 1 \in 1..(Len(f) - 1)
  <2>1. IsStrictPrefix(c, f)
    BY <1>4, <1>8 DEF IsStrictPrefix
  <2>2. Len(c) < Len(f)
    BY <1>3, <2>1, StrictPrefixIs
  <2> QED
    BY <1>1, <1>3, <2>1, <2>2
<1> QED
  BY <1>2, <1>3, <1>4, <1>6, <1>7, <1>8

(* The name below r of a path p.                                           *)
NameBelow(r, p) == SubSeq(p, Len(r) + 1, Len(p))

(* A prefix of the name below r is one of the path, with r in front.       *)
LEMMA BelowRoot ==
  ASSUME NEW r \in Paths, NEW x \in Paths, NEW p \in Paths, IsPrefix(r, p)
  PROVE  /\ IsPrefix(x, NameBelow(r, p)) <=> IsPrefix(r \o x, p)
         /\ IsStrictPrefix(x, NameBelow(r, p)) <=> IsStrictPrefix(r \o x, p)
<1> DEFINE rel == NameBelow(r, p)
<1>1. /\ Len(r) \in Nat /\ Len(p) \in Nat /\ Len(x) \in Nat
      /\ Len(r) <= Len(p) /\ \A i \in 1..Len(r) : r[i] = p[i]
  BY PrefixIs DEF Paths
<1>2. /\ rel \in Paths /\ Len(rel) = Len(p) - Len(r)
      /\ \A i \in 1..(Len(p) - Len(r)) : rel[i] = p[Len(r) + i]
  <2>1. \A i \in (Len(r) + 1)..Len(p) : p[i] \in STRING
    BY <1>1 DEF Paths
  <2>2. /\ SubSeq(p, Len(r) + 1, Len(p)) \in Seq(STRING)
        /\ Len(SubSeq(p, Len(r) + 1, Len(p)))
             = IF Len(r) + 1 <= Len(p) THEN Len(p) - (Len(r) + 1) + 1 ELSE 0
        /\ \A i \in 1..(Len(p) - (Len(r) + 1) + 1) :
             SubSeq(p, Len(r) + 1, Len(p))[i] = p[Len(r) + 1 + i - 1]
    BY <1>1, <2>1, SubSeqProperties
  <2>3. rel \in Paths
    BY <2>2 DEF Paths, NameBelow
  <2>4. Len(rel) = Len(p) - Len(r)
    BY <1>1, <2>2 DEF NameBelow
  <2>5. ASSUME NEW i \in 1..(Len(p) - Len(r)) PROVE rel[i] = p[Len(r) + i]
    <3>1. i \in 1..(Len(p) - (Len(r) + 1) + 1) /\ Len(r) + 1 + i - 1 = Len(r) + i
      BY <1>1
    <3> QED
      BY <2>2, <3>1 DEF NameBelow
  <2> QED
    BY <2>3, <2>4, <2>5
<1> HIDE DEF rel
<1>3. /\ r \o x \in Paths /\ Len(r \o x) = Len(r) + Len(x)
      /\ \A i \in 1..(Len(r) + Len(x)) : (r \o x)[i] = IF i <= Len(r) THEN r[i] ELSE x[i - Len(r)]
  BY ConcatProperties DEF Paths
<1>4. ASSUME IsPrefix(x, rel) PROVE IsPrefix(r \o x, p)
  <2>1. Len(x) <= Len(rel) /\ \A i \in 1..Len(x) : x[i] = rel[i]
    BY <1>2, <1>4, PrefixIs
  <2>2. ASSUME NEW i \in 1..(Len(r) + Len(x)) PROVE (r \o x)[i] = p[i]
    <3>1. CASE i <= Len(r)
      BY <1>1, <1>3, <3>1
    <3>2. CASE i > Len(r)
      <4>1. i - Len(r) \in 1..Len(x) /\ i - Len(r) \in 1..(Len(p) - Len(r))
        BY <1>1, <1>2, <2>1, <3>2
      <4>2. (r \o x)[i] = x[i - Len(r)]
        BY <1>1, <1>3, <3>2
      <4>3. rel[i - Len(r)] = p[Len(r) + (i - Len(r))] /\ Len(r) + (i - Len(r)) = i
        BY <1>1, <1>2, <4>1
      <4> QED
        BY <2>1, <4>1, <4>2, <4>3
    <3> QED
      BY <1>1, <3>1, <3>2
  <2>3. Len(r \o x) <= Len(p) /\ \A i \in 1..Len(r \o x) : (r \o x)[i] = p[i]
    BY <1>1, <1>2, <1>3, <2>1, <2>2
  <2> QED
    BY <1>3, <2>3, PrefixIs
<1>5. ASSUME IsPrefix(r \o x, p) PROVE IsPrefix(x, rel)
  <2>1. Len(r) + Len(x) <= Len(p) /\ \A i \in 1..(Len(r) + Len(x)) : (r \o x)[i] = p[i]
    <3> DEFINE rx == r \o x
    <3>1. rx \in Paths /\ Len(rx) = Len(r) + Len(x) /\ IsPrefix(rx, p)
      BY <1>3, <1>5
    <3> HIDE DEF rx
    <3>2. Len(rx) <= Len(p) /\ \A i \in 1..Len(rx) : rx[i] = p[i]
      BY <3>1, PrefixIs
    <3>3. Len(r) + Len(x) <= Len(p) /\ \A i \in 1..(Len(r) + Len(x)) : rx[i] = p[i]
      BY <3>1, <3>2, Zenon
    <3> QED
      BY <3>3 DEF rx
  <2>2. ASSUME NEW i \in 1..Len(x) PROVE x[i] = rel[i]
    <3>1. /\ Len(r) + i \in 1..(Len(r) + Len(x)) /\ ~(Len(r) + i <= Len(r))
          /\ i \in 1..(Len(p) - Len(r)) /\ (Len(r) + i) - Len(r) = i
      BY <1>1, <2>1
    <3>2. (r \o x)[Len(r) + i] = x[(Len(r) + i) - Len(r)]
      BY <1>3, <3>1
    <3> QED
      BY <1>2, <2>1, <3>1, <3>2
  <2>3. Len(x) <= Len(rel)
    BY <1>1, <1>2, <2>1
  <2> QED
    BY <1>2, <2>2, <2>3, PrefixIs
<1>6. Len(x) < Len(rel) <=> Len(r \o x) < Len(p)
  BY <1>1, <1>2, <1>3
<1> QED
  BY <1>2, <1>3, <1>4, <1>5, <1>6, StrictPrefixIs DEF rel

-----------------------------------------------------------------------------
(* The invariant: what becomes of a file that stays where it is.  Until it *)
(* is settled, a directory above it is still to be listed.                 *)

Rooted == \A d \in pending : IsPrefix(root, d)
Still  == stayed \subseteq FilesOf(tree) /\ FilesOf(tree) \subseteq existed

Settled(f) ==
  \/ Hidden(f) \/ Rel(f) \in owned
  \/ \E d \in unlisted : IsPrefix(d, f)
  \/ f \in orphans

Ahead(f) == \E d \in pending : IsStrictPrefix(d, f)

IInv ==
  /\ TypeOK /\ Rooted /\ Still
  /\ \A f \in stayed : Below(f) => Settled(f) \/ Ahead(f)
  /\ NothingInvented

LEMMA PlacesArePaths == Places \subseteq Paths /\ Roots \subseteq Paths /\ Excluded \subseteq Paths
  BY OrphanScanAssumption DEF Paths

LEMMA StateIsPaths == TypeOK => root \in Paths /\ pending \subseteq Paths
<1>1. << >> \in Paths
  BY DEF Paths
<1> QED
  BY <1>1, PlacesArePaths DEF TypeOK

LEMMA InitInv == Init => IInv
<1> SUFFICES ASSUME Init PROVE IInv
  OBVIOUS
<1>1. /\ root \in Roots /\ owned \in Records /\ pending = {root} /\ orphans = {} /\ unlisted = {}
      /\ tree \in [Places -> Kinds] /\ WellFormed(tree)
      /\ stayed = FilesOf(tree) /\ existed = FilesOf(tree) /\ changes = 0
  BY DEF Init
<1>2. changes \in 0..MaxChanges
  BY <1>1, OrphanScanAssumption
<1>3. TypeOK
  BY <1>1, <1>2, OrphanScanAssumption DEF TypeOK, FilesOf
<1>4. Rooted
  <2>1. root \in Paths /\ Len(root) \in Nat
    BY <1>1, PlacesArePaths DEF Paths
  <2> QED
    BY <1>1, <2>1, PrefixIs DEF Rooted
<1> QED
  BY <1>1, <1>3, <1>4 DEF IInv, Still, Ahead, Below, NothingInvented

(* The exclusion of a name below the root is that of the whole path.       *)
LEMMA ExcludedBelow ==
  ASSUME root \in Paths, NEW p \in Paths, IsPrefix(root, p)
  PROVE  /\ \A x \in Excluded : IsPrefix(x, Rel(p)) <=> IsPrefix(root \o x, p)
         /\ IsFileExcluded(Rel(p)) <=> Hidden(p)
<1>1. Rel(p) = NameBelow(root, p)
  BY DEF Rel, NameBelow
<1>2. ASSUME NEW x \in Excluded
      PROVE  /\ IsPrefix(x, Rel(p)) <=> IsPrefix(root \o x, p)
             /\ IsStrictPrefix(x, Rel(p)) <=> IsStrictPrefix(root \o x, p)
  <2>1. x \in Paths
    BY PlacesArePaths
  <2> QED
    BY <1>1, <2>1, BelowRoot
<1> QED
  BY <1>2 DEF IsFileExcluded, Hidden

(* A file and the directory listed: d is its directory, or the next one on *)
(* the way to it is to be listed, unless an excluded prefix is in between. *)
LEMMA OneStepDown ==
  ASSUME IInv, NEW d \in pending, NEW f \in Places, tree[f] = "file", IsStrictPrefix(d, f),
         ~Hidden(f)
  PROVE  \/ f \in ChildrenOf(d) /\ ~IsFileExcluded(Rel(f))
         \/ \E c \in Subdirs(d) : IsStrictPrefix(c, f)
<1>1. /\ root \in Paths /\ d \in Paths /\ f \in Paths /\ IsPrefix(root, d) /\ TypeOK
      /\ \A x \in Excluded : x \in Paths
  BY PlacesArePaths, StateIsPaths DEF IInv, Rooted
<1>0. PICK c : c = SubSeq(f, 1, Len(d) + 1)
  OBVIOUS
<1>2. /\ c \in Paths /\ Len(d) + 1 \in 1..Len(f)
      /\ Front(c) = d /\ IsPrefix(c, f) /\ IsPrefix(d, c)
      /\ c = f \/ (IsStrictPrefix(c, f) /\ Len(d) + 1 \in 1..(Len(f) - 1))
  <2>1. d \in Paths /\ f \in Paths /\ IsStrictPrefix(d, f)
    BY <1>1
  <2> QED
    BY <2>1, <1>0, ChildTowards, ZenonT(40)
<1>3. c \in Places
  BY <1>2, <1>0, OrphanScanAssumption
<1>4. CASE c # f
  <2>1. tree[c] = "dir"
    <3>1. WellFormed(tree) /\ tree[f] # "none"
      BY <1>1 DEF TypeOK
    <3> QED
      BY <1>2, <1>4, <1>0, <3>1 DEF WellFormed
  <2>2. IsPrefix(root, c)
    BY <1>1, <1>2, PrefixOfPrefix
  <2>3. ~IsDirExcluded(Rel(c))
    <3> SUFFICES ASSUME NEW x \in Excluded, IsPrefix(x, Rel(c)) PROVE FALSE
      BY DEF IsDirExcluded
    <3>1. IsPrefix(root \o x, c)
      BY <1>1, <1>2, <2>2, ExcludedBelow
    <3>2. root \o x \in Paths
      BY <1>1, ConcatProperties DEF Paths
    <3>3. IsPrefix(root \o x, f) /\ Len(c) < Len(f) /\ Len(root \o x) <= Len(c)
      BY <1>1, <1>2, <1>4, <3>1, <3>2, PrefixOfPrefix, PrefixIs, StrictPrefixIs
    <3>4. Len(root \o x) \in Nat /\ Len(c) \in Nat /\ Len(f) \in Nat
      BY <1>1, <1>2, <3>2 DEF Paths
    <3>5. Len(root \o x) < Len(f)
      BY <3>3, <3>4
    <3>6. IsStrictPrefix(root \o x, f)
      BY <1>1, <3>2, <3>3, <3>5, StrictPrefixIs
    <3> QED
      BY <3>6 DEF Hidden
  <2>4. c \in Subdirs(d)
    BY <1>2, <1>3, <2>1, <2>3 DEF Subdirs, ChildrenOf
  <2> QED
    BY <1>2, <1>4, <2>4
<1>5. CASE c = f
  <2>1. f \in ChildrenOf(d)
    BY <1>2, <1>5 DEF ChildrenOf
  <2>2. IsPrefix(root, f)
    BY <1>1, <1>2, <1>5, PrefixOfPrefix
  <2>3. ~IsFileExcluded(Rel(f))
    BY <1>1, <2>2, ExcludedBelow
  <2> QED
    BY <2>1, <2>3
<1> QED
  BY <1>4, <1>5

(* A path in a directory that the walk lists is below its root.            *)
LEMMA ChildIsBelow ==
  ASSUME IInv, NEW d \in pending, NEW p \in ChildrenOf(d)
  PROVE  p \in Places /\ p \in Paths /\ root \in Paths /\ IsPrefix(root, p) /\ Below(p)
<1>1. /\ p \in Places /\ Front(p) = d /\ p # << >>
      /\ p \in Paths /\ d \in Paths /\ root \in Paths /\ IsPrefix(root, d)
  BY PlacesArePaths, StateIsPaths, OrphanScanAssumption DEF IInv, Rooted, ChildrenOf
<1>2. /\ Len(p) \in Nat /\ Len(p) > 0 /\ Len(root) \in Nat /\ Len(d) \in Nat
  <2>1. Len(p) # 0
    BY <1>1, EmptySeq DEF Paths
  <2> QED
    BY <1>1, <2>1 DEF Paths
<1>3. Len(p) - 1 \in 0..Len(p)
  BY <1>2
<1>4. Len(d) = Len(p) - 1 /\ \A i \in 1..Len(d) : d[i] = p[i]
  <2> DEFINE n == Len(p) - 1
  <2>1. d = SubSeq(p, 1, n) /\ n \in 0..Len(p) /\ p \in Paths
    BY <1>1, <1>3 DEF Front
  <2> HIDE DEF n
  <2>2. Len(SubSeq(p, 1, n)) = n /\ \A i \in 1..n : SubSeq(p, 1, n)[i] = p[i]
    BY <2>1, CutIs
  <2>3. Len(d) = n /\ \A i \in 1..n : d[i] = p[i]
    BY <2>1, <2>2, Zenon
  <2> QED
    BY <2>3 DEF n
<1>5. IsPrefix(d, p)
  <2>1. Len(d) <= Len(p)
    BY <1>2, <1>4
  <2> QED
    BY <1>1, <1>4, <2>1, PrefixIs
<1>6. IsPrefix(root, p) /\ Len(root) <= Len(d)
  BY <1>1, <1>5, PrefixIs, PrefixOfPrefix
<1>7. Len(root) < Len(p)
  BY <1>2, <1>4, <1>6
<1> QED
  BY <1>1, <1>6, <1>7, StrictPrefixIs DEF Below

(* From / the name below the root is the path itself.                      *)
LEMMA NameFromSlash ==
  ASSUME root = << >>, NEW p \in Paths
  PROVE  Rel(p) = p
<1>1. Len(p) \in 0..Len(p) /\ Len(root) + 1 = 1 /\ Len(p) \in Nat
  BY DEF Paths
<1>2. SubSeq(p, 1, Len(p)) = p
  <2>1. /\ SubSeq(p, 1, Len(p)) \in Paths /\ Len(SubSeq(p, 1, Len(p))) = Len(p)
        /\ \A i \in 1..Len(p) : SubSeq(p, 1, Len(p))[i] = p[i]
    BY <1>1, CutIs
  <2> QED
    BY <2>1, SeqEqual DEF Paths
<1> QED
  BY <1>1, <1>2 DEF Rel

LEMMA ListKeeps ==
  ASSUME IInv, NEW d \in pending, List(d)
  PROVE  IInv'
<1>1. /\ TypeOK /\ Rooted /\ Still /\ NothingInvented
      /\ UNCHANGED <<root, owned, unlisted, tree, stayed, existed, changes>>
      /\ pending' = (pending \ {d}) \cup Subdirs(d)
      /\ orphans' = orphans \cup
           {p \in ChildrenOf(d) :
              tree[p] = "file" /\ ~IsFileExcluded(Rel(p)) /\ Rel(p) \notin owned}
  BY DEF IInv, List, env, DisplayPath, OwnedRels
<1>2. ChildrenOf(d) \subseteq Places /\ Subdirs(d) \subseteq ChildrenOf(d)
  BY DEF ChildrenOf, Subdirs
<1>3. TypeOK'
  BY <1>1, <1>2 DEF TypeOK, WellFormed
<1>4. Rooted' /\ Still'
  BY <1>1, <1>2, ChildIsBelow DEF Rooted, Still, FilesOf
<1>5. ASSUME NEW f \in stayed, Below(f) PROVE (Settled(f) \/ Ahead(f))'
  <2>1. Settled(f) \/ Ahead(f)
    BY <1>5 DEF IInv
  <2>2. Settled(f) => Settled(f)'
    BY <1>1 DEF Settled, Hidden, Rel
  <2>3. ASSUME NEW e \in pending \ {d}, IsStrictPrefix(e, f) PROVE Ahead(f)'
    BY <1>1, <2>3 DEF Ahead
  <2>4. ASSUME IsStrictPrefix(d, f), ~Settled(f) PROVE (Settled(f) \/ Ahead(f))'
    <3>1. f \in Places /\ tree[f] = "file" /\ ~Hidden(f) /\ Rel(f) \notin owned
      BY <1>1, <2>4 DEF Still, FilesOf, Settled
    <3>2. CASE f \in ChildrenOf(d) /\ ~IsFileExcluded(Rel(f))
      BY <1>1, <3>1, <3>2 DEF Settled
    <3>3. CASE \E c \in Subdirs(d) : IsStrictPrefix(c, f)
      BY <1>1, <3>3 DEF Ahead
    <3> QED
      BY <2>4, <3>1, <3>2, <3>3, OneStepDown
  <2> QED
    BY <2>1, <2>2, <2>3, <2>4 DEF Ahead
<1>6. NothingInvented'
  <2> SUFFICES ASSUME NEW f \in orphans'
               PROVE  /\ f \in existed /\ Below(f) /\ ~Hidden(f)
                      /\ root = << >> => f \notin owned
    BY <1>1 DEF NothingInvented, Below, Hidden, Rel
  <2>1. CASE f \in orphans
    BY <1>1, <2>1 DEF NothingInvented
  <2>2. CASE f \in ChildrenOf(d) /\ tree[f] = "file" /\ ~IsFileExcluded(Rel(f)) /\ Rel(f) \notin owned
    <3>1. f \in Places /\ f \in Paths /\ root \in Paths /\ IsPrefix(root, f) /\ Below(f)
      BY <2>2, ChildIsBelow
    <3>2. ~Hidden(f)
      BY <2>2, <3>1, ExcludedBelow
    <3>3. root = << >> => f \notin owned
      BY <2>2, <3>1, NameFromSlash
    <3> QED
      BY <1>1, <2>2, <3>1, <3>2, <3>3 DEF Still, FilesOf
  <2> QED
    BY <1>1, <2>1, <2>2
<1>7. \A f \in stayed' : Below(f)' => (Settled(f) \/ Ahead(f))'
  BY <1>1, <1>5 DEF Below
<1> QED
  BY <1>3, <1>4, <1>6, <1>7 DEF IInv

LEMMA SkipKeeps ==
  ASSUME IInv, NEW d \in pending, Skip(d)
  PROVE  IInv'
<1>1. /\ TypeOK /\ Rooted /\ Still /\ NothingInvented
      /\ UNCHANGED <<root, owned, orphans, tree, stayed, existed, changes>>
      /\ pending' = pending \ {d}
      /\ unlisted' = unlisted \cup {d}
  BY DEF IInv, Skip, env
<1>2. TypeOK' /\ Rooted' /\ Still'
  BY <1>1 DEF TypeOK, WellFormed, Rooted, Still, FilesOf
<1>3. \A f \in stayed : Below(f) => (Settled(f) \/ Ahead(f))'
  BY <1>1 DEF IInv, Settled, Ahead, Hidden, Rel, IsStrictPrefix
<1>4. NothingInvented'
  BY <1>1 DEF NothingInvented, Below, Hidden, Rel
<1>5. \A f \in stayed' : Below(f)' => (Settled(f) \/ Ahead(f))'
  BY <1>1, <1>3 DEF Below
<1> QED
  BY <1>2, <1>4, <1>5 DEF IInv

LEMMA ChangeKeeps ==
  ASSUME IInv, NEW p \in Places, NEW kind \in Kinds, Change(p, kind)
  PROVE  IInv'
<1>1. /\ TypeOK /\ Rooted /\ Still /\ NothingInvented
      /\ UNCHANGED <<root, owned, pending, orphans, unlisted>>
      /\ tree' = [tree EXCEPT ![p] = kind] /\ WellFormed(tree')
      /\ stayed' = stayed \cap FilesOf(tree')
      /\ existed' = existed \cup FilesOf(tree')
      /\ changes < MaxChanges /\ changes' = changes + 1
  BY DEF IInv, Change, walk
<1>2. TypeOK'
  <2>1. tree' \in [Places -> Kinds]
    BY <1>1 DEF TypeOK
  <2>2. changes' \in 0..MaxChanges
    BY <1>1, OrphanScanAssumption DEF TypeOK
  <2>3. stayed' \subseteq existed' /\ existed' \subseteq Places
    BY <1>1 DEF TypeOK, FilesOf
  <2> QED
    BY <1>1, <2>1, <2>2, <2>3 DEF TypeOK
<1>3. Rooted' /\ Still'
  BY <1>1 DEF Rooted, Still
<1>4. \A f \in stayed' : Below(f)' => (Settled(f) \/ Ahead(f))'
  BY <1>1 DEF IInv, Below, Settled, Ahead, Hidden, Rel
<1>5. NothingInvented'
  BY <1>1 DEF NothingInvented, Below, Hidden, Rel
<1> QED
  BY <1>2, <1>3, <1>4, <1>5 DEF IInv

LEMMA NextInv == IInv /\ [Next]_vars => IInv'
<1> SUFFICES ASSUME IInv, [Next]_vars PROVE IInv'
  OBVIOUS
<1>1. CASE WalkStep
  BY <1>1, ListKeeps, SkipKeeps DEF WalkStep
<1>2. CASE \E p \in Places, kind \in Kinds : Change(p, kind)
  BY <1>2, ChangeKeeps
<1>3. CASE UNCHANGED vars
  BY <1>3 DEF vars, walk, env, IInv, TypeOK, WellFormed, Rooted, Still, FilesOf, Below, Settled,
              Ahead, Hidden, Rel, NothingInvented
<1> QED
  BY <1>1, <1>2, <1>3 DEF Next, Terminated

LEMMA Inductive == Spec => []IInv
  BY InitInv, NextInv, PTL DEF Spec

(* The walk and the tree below it stay within their types (find_orphans).  *)
THEOREM TypeCorrect == Spec => []TypeOK
<1>1. IInv => TypeOK
  BY DEF IInv
<1> QED
  BY <1>1, Inductive, PTL

(* The list of orphans is complete: of the files that stay in place during *)
(* the walk it lacks only those that are recorded, below an excluded       *)
(* prefix, or below a directory that could not be listed (find_orphans).   *)
THEOREM NoOrphanOverlooked == Spec => []NothingOverlooked
<1>1. IInv => NothingOverlooked
  BY DEF IInv, NothingOverlooked, Settled, Ahead
<1> QED
  BY <1>1, Inductive, PTL

(* The list of orphans is correct: each of them was a file below the root  *)
(* during the walk and is not excluded; in a walk from / no package owns   *)
(* it (find_orphans).                                                      *)
THEOREM NoOrphanInvented == Spec => []NothingInvented
<1>1. IInv => NothingInvented
  BY DEF IInv
<1> QED
  BY <1>1, Inductive, PTL
=============================================================================
