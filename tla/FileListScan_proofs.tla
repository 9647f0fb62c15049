-------------------------- MODULE FileListScan_proofs --------------------------
(***************************************************************************)
(* Theorems about FileListScan, for records of any length.                 *)
(***************************************************************************)
EXTENDS FileListScan, SequenceTheorems, FiniteSetTheorems, TLAPS

(* Whether the list is open once line k is behind.                         *)
OpenAfter(k) ==
  \E m \in 1..k :
    rels[m] = "marker" /\ \A j \in m + 1..k : rels[j] # "marker" => ~IsSectionHeader(j)

(* The lines the scan takes, and what it makes of them.                    *)
Taken(k)   == rels[k] \notin {"marker"} \cup Skipped /\ InOpenList(k)
Registered == {k \in Lines : Taken(k) /\ rels[k] \notin Excluded}
Installs   == {k \in Lines : Taken(k) /\ rels[k] = "install"}
Pseudos    == {k \in Lines : Taken(k) /\ rels[k] \in Excluded \ {"install"}}

Tallied ==
  /\ in_file_list <=> OpenAfter(index)
  /\ entries = Registered \cap (1..index)
  /\ excluded_install = Cardinality(Installs \cap (1..index))
  /\ excluded_pseudo = Cardinality(Pseudos \cap (1..index))

(* On a well-formed record the scan follows the sections.                  *)
Follows ==
  WellFormed =>
    /\ index > 0 => (in_file_list <=> ~InSection(index + 1))
    /\ \A k \in 1..index : Taken(k) <=> rels[k] \in Files \cup Excluded

IInv == TypeOK /\ rels # << >> /\ rels[1] = "marker" /\ Tallied /\ Follows

-----------------------------------------------------------------------------
(* Facts about a record.                                                   *)

LEMMA LinesAre ==
  ASSUME rels \in Seq(Kinds)
  PROVE  Len(rels) \in Nat /\ Lines = 1..Len(rels) /\ \A k \in Lines : rels[k] \in Kinds
  BY DEF Lines

LEMMA NotAHeader ==
  ASSUME NEW k, rels[k] \notin HeaderLike
  PROVE  ~IsSectionHeader(k)
  BY DEF IsSectionHeader

LEMMA OpenNext ==
  ASSUME NEW k \in Nat
  PROVE  /\ rels[k + 1] = "marker" => OpenAfter(k + 1)
         /\ rels[k + 1] # "marker" => (OpenAfter(k + 1) <=> OpenAfter(k) /\ ~IsSectionHeader(k + 1))
         /\ rels[k + 1] # "marker" => (InOpenList(k + 1) <=> OpenAfter(k) /\ ~IsSectionHeader(k + 1))
<1>1. ASSUME rels[k + 1] = "marker" PROVE OpenAfter(k + 1)
  <2>1. k + 1 \in 1..(k + 1) /\ (k + 1) + 1..k + 1 = {}
    OBVIOUS
  <2> QED
    BY <1>1, <2>1 DEF OpenAfter
<1>2. ASSUME rels[k + 1] # "marker", OpenAfter(k), ~IsSectionHeader(k + 1)
      PROVE  OpenAfter(k + 1) /\ InOpenList(k + 1)
  <2>1. PICK m \in 1..k :
          rels[m] = "marker" /\ \A j \in m + 1..k : rels[j] # "marker" => ~IsSectionHeader(j)
    BY <1>2 DEF OpenAfter
  <2>2. m \in 1..(k + 1) /\ m \in 1..(k + 1) - 1
    BY <2>1
  <2>3. \A j \in m + 1..k + 1 : j \in m + 1..k \/ j = k + 1
    BY <2>1
  <2>4. \A j \in m + 1..k + 1 : rels[j] # "marker" => ~IsSectionHeader(j)
    BY <1>2, <2>1, <2>3
  <2> QED
    BY <2>1, <2>2, <2>4 DEF OpenAfter, InOpenList
<1>3. ASSUME rels[k + 1] # "marker", OpenAfter(k + 1) \/ InOpenList(k + 1)
      PROVE  OpenAfter(k) /\ ~IsSectionHeader(k + 1)
  <2>1. PICK m \in 1..(k + 1) :
          rels[m] = "marker" /\ \A j \in m + 1..k + 1 : rels[j] # "marker" => ~IsSectionHeader(j)
    <3>1. 1..(k + 1) - 1 \subseteq 1..(k + 1)
      OBVIOUS
    <3> QED
      BY <1>3, <3>1 DEF OpenAfter, InOpenList
  <2>2. m # k + 1
    BY <1>3, <2>1
  <2>3. m \in 1..k /\ k + 1 \in m + 1..k + 1 /\ \A j \in m + 1..k : j \in m + 1..k + 1
    BY <2>1, <2>2
  <2> QED
    BY <1>3, <2>1, <2>3 DEF OpenAfter
<1> QED
  BY <1>1, <1>2, <1>3

LEMMA SectionNext ==
  ASSUME NEW k \in Nat \ {0}
  PROVE  InSection(k + 1) <=> \/ rels[k] = "header"
                              \/ InSection(k) /\ rels[k] # "marker"
<1>1. ASSUME rels[k] = "header" PROVE InSection(k + 1)
  <2>1. k \in 1..(k + 1) - 1 /\ k + 1..(k + 1) - 1 = {}
    OBVIOUS
  <2> QED
    BY <1>1, <2>1 DEF InSection
<1>2. ASSUME InSection(k), rels[k] # "marker" PROVE InSection(k + 1)
  <2>1. PICK h \in 1..k - 1 : rels[h] = "header" /\ \A j \in h + 1..k - 1 : rels[j] # "marker"
    BY <1>2 DEF InSection
  <2>2. h \in 1..(k + 1) - 1 /\ \A j \in h + 1..(k + 1) - 1 : j \in h + 1..k - 1 \/ j = k
    BY <2>1
  <2> QED
    BY <1>2, <2>1, <2>2 DEF InSection
<1>3. ASSUME InSection(k + 1), rels[k] # "header" PROVE InSection(k) /\ rels[k] # "marker"
  <2>1. PICK h \in 1..(k + 1) - 1 :
          rels[h] = "header" /\ \A j \in h + 1..(k + 1) - 1 : rels[j] # "marker"
    BY <1>3 DEF InSection
  <2>2. h # k
    BY <1>3, <2>1
  <2>3. /\ h \in 1..k - 1 /\ k \in h + 1..(k + 1) - 1
        /\ \A j \in h + 1..k - 1 : j \in h + 1..(k + 1) - 1
    BY <2>1, <2>2
  <2> QED
    BY <2>1, <2>3 DEF InSection
<1> QED
  BY <1>1, <1>2, <1>3

(* Where the list is open, a well-formed record has a line the scan takes  *)
(* for a title exactly at a title.                                         *)
LEMMA TitlesEnd ==
  ASSUME rels \in Seq(Kinds), WellFormed, NEW k \in Lines, rels[k] # "marker", ~InSection(k)
  PROVE  IsSectionHeader(k) <=> rels[k] = "header"
<1>1. k \in Nat \ {0} /\ Len(rels) \in Nat /\ Lines = 1..Len(rels)
  BY LinesAre
<1>2. ASSUME rels[k] = "header" PROVE IsSectionHeader(k)
  <2>1. FollowedBy(k, {"content"})
    BY <1>2 DEF WellFormed
  <2>2. "content" \in Kinds \ (WithSlash \cup HeaderLike)
    BY DEF Kinds, Section, WithSlash, HeaderLike, Excluded
  <2>3. FollowedBy(k, Kinds \ (WithSlash \cup HeaderLike))
    BY <2>1, <2>2 DEF FollowedBy
  <2> QED
    BY <1>2, <2>3 DEF IsSectionHeader, HeaderLike
<1>3. ASSUME IsSectionHeader(k), rels[k] # "header" PROVE FALSE
  <2>1. rels[k] = "headerfile"
    BY <1>3 DEF IsSectionHeader, HeaderLike
  <2>2. PICK j \in Lines : /\ j > k /\ rels[j] \notin Skipped
                           /\ \A i \in k + 1..j - 1 : rels[i] \in Skipped
                           /\ rels[j] \in Kinds \ (WithSlash \cup HeaderLike)
    BY <1>3 DEF IsSectionHeader, FollowedBy
  <2>3. rels[j] \in {"topfile", "topunsafe", "content"}
    BY <2>2 DEF Kinds, WithSlash, HeaderLike, Excluded, Files, Section
  <2>4. CASE rels[j] # "content"
    <3>1. FollowedBy(k, {"topfile", "topunsafe"})
      BY <2>2, <2>3, <2>4 DEF FollowedBy
    <3> QED
      BY <2>1, <3>1 DEF WellFormed
  <2>5. CASE rels[j] = "content"
    <3>1. InSection(j)
      BY <2>2, <2>5 DEF WellFormed, Section
    <3>2. PICK h \in 1..j - 1 : rels[h] = "header" /\ \A i \in h + 1..j - 1 : rels[i] # "marker"
      BY <3>1 DEF InSection
    <3>3. ~(h > k)
      <4>1. h > k => h \in k + 1..j - 1
        BY <1>1, <2>2, <3>2
      <4> QED
        BY <2>2, <3>2, <4>1 DEF Skipped
    <3>4. h \in 1..k - 1
      BY <1>1, <2>1, <3>2, <3>3
    <3>5. \A i \in h + 1..k - 1 : i \in h + 1..j - 1
      BY <1>1, <2>2, <3>2
    <3>6. InSection(k)
      BY <3>2, <3>4, <3>5 DEF InSection
    <3> QED
      BY <3>6
  <2> QED
    BY <2>4, <2>5
<1> QED
  BY <1>2, <1>3

(* A set of lines, seen up to one line more.                               *)
LEMMA OneLineMore ==
  ASSUME NEW T, NEW n \in Nat
  PROVE  /\ IsFiniteSet(T \cap (1..n)) /\ Cardinality(T \cap (1..n)) \in Nat
         /\ n + 1 \in T => /\ T \cap (1..n + 1) = (T \cap (1..n)) \cup {n + 1}
                           /\ Cardinality(T \cap (1..n + 1)) = Cardinality(T \cap (1..n)) + 1
         /\ n + 1 \notin T => T \cap (1..n + 1) = T \cap (1..n)
<1>1. 1..n + 1 = (1..n) \cup {n + 1} /\ n + 1 \notin 1..n
  OBVIOUS
<1>2. IsFiniteSet(1..n)
  BY FS_Interval
<1>3. T \cap (1..n) \in SUBSET (1..n)
  OBVIOUS
<1> DEFINE S == T \cap (1..n)
<1>4. IsFiniteSet(S) /\ n + 1 \notin S /\ Cardinality(S) \in Nat
  BY <1>1, <1>2, <1>3, FS_Subset, FS_CardinalityType
<1>5. n + 1 \in T => T \cap (1..n + 1) = S \cup {n + 1}
  BY <1>1
<1>6. n + 1 \notin T => T \cap (1..n + 1) = S
  BY <1>1
<1> HIDE DEF S
<1>7. Cardinality(S \cup {n + 1}) = Cardinality(S) + 1
  BY <1>4, FS_AddElement
<1> QED
  BY <1>4, <1>5, <1>6, <1>7 DEF S

LEMMA DisjointSum ==
  ASSUME NEW S, IsFiniteSet(S), NEW T, IsFiniteSet(T), S \cap T = {}
  PROVE  IsFiniteSet(S \cup T) /\ Cardinality(S \cup T) = Cardinality(S) + Cardinality(T)
<1>1. /\ IsFiniteSet(S \cup T)
      /\ Cardinality(S \cup T) = Cardinality(S) + Cardinality(T) - Cardinality(S \cap T)
  BY FS_Union
<1>2. Cardinality(S \cap T) = 0 /\ Cardinality(S) \in Nat /\ Cardinality(T) \in Nat
  BY FS_EmptySet, FS_CardinalityType
<1> QED
  BY <1>1, <1>2

-----------------------------------------------------------------------------
(* The loop.                                                               *)

Turn == Marker \/ Ignore \/ EndOfList \/ ExcludeInstall \/ ExcludePseudo \/ Register

LEMMA SameRecord ==
  ASSUME UNCHANGED rels
  PROVE  /\ Registered' = Registered /\ Installs' = Installs /\ Pseudos' = Pseudos
         /\ \A k : OpenAfter(k)' = OpenAfter(k)
         /\ \A k : InSection(k)' = InSection(k)
         /\ \A k : Taken(k)' = Taken(k)
         /\ WellFormed' = WellFormed
  BY DEF Registered, Installs, Pseudos, Lines, OpenAfter, Taken, InOpenList, IsSectionHeader,
         FollowedBy, InSection, WellFormed

(* The line a turn handles, and the part of the state it depends on.       *)
LEMMA AtLine ==
  ASSUME IInv, Turn, NEW k, k = index + 1
  PROVE  /\ k \in Lines /\ k \in Nat \ {0} /\ index' = k /\ rels' = rels /\ rels[k] \in Kinds
         /\ OpenAfter(k) <=> rels[k] = "marker" \/ (in_file_list /\ ~IsSectionHeader(k))
         /\ Taken(k) <=> /\ rels[k] \notin {"marker"} \cup Skipped
                         /\ in_file_list /\ ~IsSectionHeader(k)
<1>1. index \in Nat /\ index < Len(rels) /\ index' = index + 1 /\ rels' = rels /\ rels \in Seq(Kinds)
  BY LinesAre DEF IInv, TypeOK, Turn, Marker, Ignore, EndOfList, ExcludeInstall, ExcludePseudo,
                  Register, Listed, InList, Advance
<1>2. k \in Lines /\ k \in Nat \ {0} /\ rels[k] \in Kinds
  BY <1>1, LinesAre
<1>3. in_file_list <=> OpenAfter(index)
  BY DEF IInv, Tallied
<1> QED
  BY <1>1, <1>2, <1>3, OpenNext DEF Taken

LEMMA TurnTypes == ASSUME IInv, Turn PROVE TypeOK' /\ rels' # << >> /\ rels'[1] = "marker"
<1>1. PICK k : k = index + 1
  OBVIOUS
<1>2. k \in Lines /\ index' = k /\ rels' = rels /\ index \in Nat
  BY <1>1, AtLine DEF IInv, TypeOK
<1>3. index' \in 0..Len(rels') /\ 1..index \subseteq 1..index' /\ index' \in 1..index'
  BY <1>1, <1>2 DEF Lines
<1>4. /\ in_file_list' \in BOOLEAN
      /\ excluded_install' \in Nat /\ excluded_pseudo' \in Nat
      /\ entries' \subseteq entries \cup {index'}
  <2>1. in_file_list \in BOOLEAN /\ excluded_install \in Nat /\ excluded_pseudo \in Nat
    BY DEF IInv, TypeOK
  <2>2. CASE Marker \/ Ignore \/ EndOfList
    BY <2>1, <2>2 DEF Marker, Ignore, EndOfList
  <2>3. CASE ExcludeInstall \/ ExcludePseudo
    BY <2>1, <2>3 DEF ExcludeInstall, ExcludePseudo
  <2>4. CASE Register
    BY <1>1, <1>2, <2>1, <2>4 DEF Register
  <2> QED
    BY <2>2, <2>3, <2>4 DEF Turn
<1> QED
  BY <1>2, <1>3, <1>4 DEF IInv, TypeOK

LEMMA TurnTallies == ASSUME IInv, Turn PROVE Tallied'
<1>1. PICK k : k = index + 1
  OBVIOUS
<1>2. /\ k \in Lines /\ index' = k /\ rels' = rels /\ index \in Nat /\ rels[k] = Line
      /\ OpenAfter(k) <=> rels[k] = "marker" \/ (in_file_list /\ ~IsSectionHeader(k))
      /\ Taken(k) <=> /\ rels[k] \notin {"marker"} \cup Skipped
                      /\ in_file_list /\ ~IsSectionHeader(k)
  BY <1>1, AtLine DEF IInv, TypeOK, Line
<1>3. /\ Registered' = Registered /\ Installs' = Installs /\ Pseudos' = Pseudos
      /\ OpenAfter(k)' = OpenAfter(k)
  BY <1>2, SameRecord
<1>4. in_file_list' <=> OpenAfter(k)
  <2>1. rels[k] \in Skipped => ~IsSectionHeader(k)
    BY NotAHeader DEF Skipped, HeaderLike
  <2>2. rels[k] \in Excluded => rels[k] # "marker"
    BY DEF Excluded
  <2> QED
    BY <1>1, <1>2, <2>1, <2>2 DEF Turn, Marker, Ignore, EndOfList, ExcludeInstall, ExcludePseudo,
                           Register, Listed, InList
<1>5. /\ k \in Registered <=> Taken(k) /\ rels[k] \notin Excluded
      /\ k \in Installs <=> Taken(k) /\ rels[k] = "install"
      /\ k \in Pseudos <=> Taken(k) /\ rels[k] \in Excluded \ {"install"}
  BY <1>2 DEF Registered, Installs, Pseudos
<1>6. /\ entries' = IF k \in Registered THEN entries \cup {k} ELSE entries
      /\ excluded_install' = IF k \in Installs THEN excluded_install + 1 ELSE excluded_install
      /\ excluded_pseudo' = IF k \in Pseudos THEN excluded_pseudo + 1 ELSE excluded_pseudo
  <2>1. "install" \in Excluded
    BY DEF Excluded
  <2>2. CASE Marker \/ Ignore \/ EndOfList
    BY <1>1, <1>2, <1>5, <2>2 DEF Marker, Ignore, EndOfList, InList
  <2>3. CASE ExcludeInstall
    BY <1>1, <1>2, <1>5, <2>1, <2>3 DEF ExcludeInstall, Listed, InList
  <2>4. CASE ExcludePseudo
    BY <1>1, <1>2, <1>5, <2>1, <2>4 DEF ExcludePseudo, Listed, InList
  <2>5. CASE Register
    BY <1>1, <1>2, <1>5, <2>1, <2>5 DEF Register, Listed, InList
  <2> QED
    BY <2>2, <2>3, <2>4, <2>5 DEF Turn
<1>7. /\ entries = Registered \cap (1..index)
      /\ excluded_install = Cardinality(Installs \cap (1..index))
      /\ excluded_pseudo = Cardinality(Pseudos \cap (1..index))
  BY DEF IInv, Tallied
<1>8. /\ entries' = Registered \cap (1..k)
      /\ excluded_install' = Cardinality(Installs \cap (1..k))
      /\ excluded_pseudo' = Cardinality(Pseudos \cap (1..k))
  BY <1>1, <1>2, <1>6, <1>7, OneLineMore
<1> QED
  BY <1>2, <1>3, <1>4, <1>8 DEF Tallied

LEMMA TurnFollows == ASSUME IInv, Turn, Tallied' PROVE Follows'
<1>1. PICK k : k = index + 1
  OBVIOUS
<1>2. /\ k \in Lines /\ k \in Nat \ {0} /\ index' = k /\ rels' = rels /\ index \in Nat
      /\ rels[k] \in Kinds
      /\ OpenAfter(k) <=> rels[k] = "marker" \/ (in_file_list /\ ~IsSectionHeader(k))
      /\ Taken(k) <=> /\ rels[k] \notin {"marker"} \cup Skipped
                      /\ in_file_list /\ ~IsSectionHeader(k)
  BY <1>1, AtLine DEF IInv, TypeOK
<1>3. /\ OpenAfter(k)' = OpenAfter(k) /\ WellFormed' = WellFormed
      /\ \A j : InSection(j)' = InSection(j)
      /\ \A j : Taken(j)' = Taken(j)
  BY <1>2, SameRecord
<1>4. in_file_list' <=> OpenAfter(k)
  BY <1>2, <1>3 DEF Tallied
<1>5. ASSUME WellFormed
      PROVE  /\ OpenAfter(k) <=> ~InSection(k + 1)
             /\ Taken(k) <=> rels[k] \in Files \cup Excluded
  <2>1. InSection(k + 1) <=> rels[k] = "header" \/ (InSection(k) /\ rels[k] # "marker")
    BY <1>2, SectionNext
  <2>2. CASE rels[k] = "marker"
    <3>1. "marker" \notin Files \cup Excluded
      BY DEF Files, Excluded
    <3> QED
      BY <1>2, <2>1, <2>2, <3>1
  <2>3. CASE rels[k] # "marker"
    <3>1. in_file_list <=> ~InSection(k)
      <4>1. index > 0
        BY <1>1, <1>2, <2>3 DEF IInv
      <4> QED
        BY <1>1, <1>5, <4>1 DEF IInv, Follows
    <3>2. rels \in Seq(Kinds)
      BY DEF IInv, TypeOK
    <3>3. ~InSection(k) => (IsSectionHeader(k) <=> rels[k] = "header")
      BY <1>2, <1>5, <2>3, <3>2, TitlesEnd
    <3>4. /\ rels[k] \in Files \cup Excluded => ~InSection(k)
          /\ rels[k] \in Section => InSection(k)
      BY <1>2, <1>5 DEF WellFormed
    <3>5. /\ rels[k] \in Files \cup Excluded => rels[k] \notin {"marker", "header"} \cup Skipped
          /\ rels[k] \notin {"marker", "header"} \cup Skipped \cup Section =>
               rels[k] \in Files \cup Excluded
      BY <1>2 DEF Kinds, Files, Excluded, Section, Skipped
    <3> QED
      BY <1>2, <2>1, <2>3, <3>1, <3>3, <3>4, <3>5
  <2> QED
    BY <2>2, <2>3
<1>6. ASSUME WellFormed, NEW j \in 1..k PROVE Taken(j) <=> rels[j] \in Files \cup Excluded
  <2>1. j = k \/ j \in 1..index
    BY <1>1, <1>2
  <2> QED
    BY <1>5, <1>6, <2>1 DEF IInv, Follows
<1> QED
  BY <1>2, <1>3, <1>4, <1>5, <1>6 DEF Follows

LEMMA InitInv == Init => IInv
<1> SUFFICES ASSUME Init PROVE IInv
  OBVIOUS
<1>1. /\ index = 0 /\ in_file_list = FALSE /\ entries = {}
      /\ excluded_install = 0 /\ excluded_pseudo = 0
  BY DEF Init
<1>2. PICK n \in Nat : \E lines \in [1..n -> Kinds] : rels = <<"marker">> \o lines
  BY FileListScanAssumption DEF Init
<1>3. PICK lines \in [1..n -> Kinds] : rels = <<"marker">> \o lines
  BY <1>2
<1>4. <<"marker">> \in Seq(Kinds) /\ lines \in Seq(Kinds)
  BY <1>2 DEF Kinds
<1>5. rels \in Seq(Kinds) /\ Len(rels) = 1 + n /\ rels[1] = "marker"
  BY <1>3, <1>4, ConcatProperties
<1>6. rels # << >> /\ TypeOK
  <2>1. rels # << >>
    BY <1>2, <1>5, EmptySeq
  <2>2. index \in 0..Len(rels) /\ entries \subseteq 1..index
    BY <1>1, <1>2, <1>5
  <2> QED
    BY <1>1, <1>5, <2>1, <2>2 DEF TypeOK
<1>7. ~OpenAfter(0) /\ \A T : T \cap (1..0) = {}
  BY DEF OpenAfter
<1>8. Tallied
  <2>1. Cardinality({}) = 0
    BY FS_EmptySet
  <2> QED
    BY <1>1, <1>7, <2>1 DEF Tallied
<1> QED
  BY <1>1, <1>5, <1>6, <1>8 DEF IInv, Follows

LEMMA NextInv == IInv /\ [Next]_vars => IInv'
<1> SUFFICES ASSUME IInv, [Next]_vars PROVE IInv'
  OBVIOUS
<1>1. CASE Turn
  BY <1>1, TurnTypes, TurnTallies, TurnFollows DEF IInv
<1>2. CASE UNCHANGED vars
  <2>1. UNCHANGED <<rels, index, in_file_list, entries, excluded_install, excluded_pseudo>>
    BY <1>2 DEF vars
  <2>2. Tallied' /\ Follows'
    BY <2>1, SameRecord DEF IInv, Tallied, Follows
  <2> QED
    BY <2>1, <2>2 DEF IInv, TypeOK
<1> QED
  BY <1>1, <1>2 DEF Next, Turn, Terminated

LEMMA Inductive == Spec => []IInv
  BY InitInv, NextInv, PTL DEF Spec

(* The loop's locals stay within their types, for records of any length    *)
(* (scan_package_files).                                                   *)
THEOREM TypeCorrect == Spec => []TypeOK
<1>1. IInv => TypeOK
  BY DEF IInv
<1> QED
  BY <1>1, Inductive, PTL

(* On a record whose titles can be told from its files, of whatever        *)
(* length, the scan registers the files and counts the excluded lines, and *)
(* nothing else (scan_package_files, _is_section_header).                  *)
THEOREM ScanIsExact == Spec => []WellFormedIsExact
<1>1. IInv => WellFormedIsExact
  <2> SUFFICES ASSUME IInv, WellFormed
               PROVE  /\ entries = {k \in 1..index : rels[k] \in Files}
                      /\ excluded_install = Cardinality({k \in 1..index : rels[k] = "install"})
                      /\ excluded_pseudo =
                           Cardinality({k \in 1..index : rels[k] \in Excluded \ {"install"}})
    BY DEF WellFormedIsExact
  <2>1. \A k \in 1..index : k \in Lines /\ (Taken(k) <=> rels[k] \in Files \cup Excluded)
    BY DEF IInv, Follows, TypeOK, Lines
  <2>2. "install" \in Excluded /\ Files \cap Excluded = {}
    BY DEF Files, Excluded
  <2>3. /\ Registered \cap (1..index) = {k \in 1..index : rels[k] \in Files}
        /\ Installs \cap (1..index) = {k \in 1..index : rels[k] = "install"}
        /\ Pseudos \cap (1..index) = {k \in 1..index : rels[k] \in Excluded \ {"install"}}
    BY <2>1, <2>2 DEF Registered, Installs, Pseudos
  <2> QED
    BY <2>3 DEF IInv, Tallied
<1> QED
  BY <1>1, Inductive, PTL

(* On any record at all, each line of an open list is registered or        *)
(* counted, and no line twice (the counters of scan_package_files).        *)
THEOREM LinesCountedOnce == Spec => []EveryLineCountedOnce
<1>1. IInv => EveryLineCountedOnce
  <2> SUFFICES ASSUME IInv PROVE EveryLineCountedOnce
    OBVIOUS
  <2> DEFINE R == Registered \cap (1..index)
             I == Installs \cap (1..index)
             P == Pseudos \cap (1..index)
  <2>1. index \in Nat /\ index <= Len(rels) /\ Len(rels) \in Nat
    BY LinesAre DEF IInv, TypeOK
  <2>2. /\ IsFiniteSet(R) /\ IsFiniteSet(I) /\ IsFiniteSet(P)
    BY <2>1, OneLineMore
  <2>3. "install" \in Excluded
    BY DEF Excluded
  <2>4. /\ I \cap P = {} /\ R \cap (I \cup P) = {}
        /\ R \cup (I \cup P) =
             {k \in 1..index : rels[k] \notin {"marker"} \cup Skipped /\ InOpenList(k)}
    BY <2>1, <2>3 DEF Registered, Installs, Pseudos, Taken, Lines
  <2>5. /\ entries = R /\ excluded_install = Cardinality(I) /\ excluded_pseudo = Cardinality(P)
    BY DEF IInv, Tallied
  <2> HIDE DEF R, I, P
  <2>6. IsFiniteSet(I \cup P) /\ Cardinality(I \cup P) = Cardinality(I) + Cardinality(P)
    BY <2>2, <2>4, DisjointSum
  <2>7. Cardinality(R \cup (I \cup P)) = Cardinality(R) + Cardinality(I \cup P)
    BY <2>2, <2>4, <2>6, DisjointSum
  <2>8. Cardinality(R) \in Nat /\ Cardinality(I) \in Nat /\ Cardinality(P) \in Nat
    BY <2>2, FS_CardinalityType
  <2> QED
    BY <2>4, <2>5, <2>6, <2>7, <2>8 DEF EveryLineCountedOnce
<1> QED
  BY <1>1, Inductive, PTL
=============================================================================
