-------------------------- MODULE RecordScan_proofs --------------------------
(***************************************************************************)
(* Theorems about RecordScan, for any records, of any length, and any      *)
(* number of changes while they are read.                                  *)
(***************************************************************************)
EXTENDS RecordScan, TLAPS

(* The histories are up to date with the directory.                        *)
Current ==
  /\ \A r \in Records : LinesOf(r) \subseteq held[r]
  /\ \A r \in whole : size[r] = Lines
  /\ \A r \in open : access[r] = "ok"

(* The exit status belongs to a ripgrep process that has ended.            *)
Status ==
  /\ reader = "python" => returncode = "running" /\ pc # "exited"
  /\ pc \in {"start", "read"} => returncode \in {"running", "erring"}
  /\ pc \in {"exited", "result"} /\ reader = "ripgrep" => returncode \in {"0", "1", "2", "signal"}
  /\ pc = "result" => returncode # "2"

Excused(r) == reader = "python" /\ r \notin open

(* A complete record is still to be read, has been read in full, or its    *)
(* loss is known to the reader.                                            *)
Accounted ==
  /\ pc = "start" => todo = {}
  /\ pc = "read" =>
       \A r \in whole : r \in todo \/ InFull(r) \/ Excused(r) \/ returncode = "erring"
  /\ pc = "exited" =>
       \A r \in whole : InFull(r) \/ returncode \in {"2", "signal"}
  /\ NoSilentLoss

IInv == TypeOK /\ Current /\ Status /\ Accounted /\ OnlyWhatWasRecorded

LEMMA LinesInRange ==
  ASSUME TypeOK, NEW r \in Records
  PROVE  LinesOf(r) \subseteq Records \X (1..Lines) \X {"whole"}
<1>1. size[r] \in Sizes
  BY DEF TypeOK
<1>2. \A n \in 1..size[r] : n \in 1..Lines
  BY <1>1, RecordScanAssumption DEF Sizes, Absent
<1> QED
  BY <1>2 DEF LinesOf

(* What is written of a record by a process that is killed.                *)
LEMMA BeginningIsHeld ==
  ASSUME TypeOK, Current, NEW r \in Records, NEW n \in 1..size[r], NEW form \in {"whole", "cut"}
  PROVE  /\ Beginning(r, n, form) \subseteq Records \X (1..Lines) \X {"whole", "cut"}
         /\ \A line \in Beginning(r, n, form) :
              /\ <<line[1], line[2], "whole">> \in held[r]
              /\ line[3] = "cut" => line = <<r, n, "cut">>
<1>1. size[r] \in Int /\ size[r] <= Lines
  BY RecordScanAssumption DEF TypeOK, Sizes, Absent
<1>2. n \in 1..Lines /\ \A k \in 1..n - 1 : k \in 1..size[r] /\ k \in 1..Lines
  BY <1>1, RecordScanAssumption
<1>3. \A k \in 1..size[r] : <<r, k, "whole">> \in held[r]
  BY DEF Current, LinesOf
<1> QED
  BY <1>2, <1>3 DEF Beginning

(* A record read while it is complete is in the result in full.            *)
LEMMA WholeIsInFull ==
  ASSUME NEW r \in Records, size[r] = Lines,
         by_package' = by_package \cup ({r} \X LinesOf(r))
  PROVE  InFull(r)'
  BY DEF InFull, LinesOf

LEMMA InitHolds == Init => IInv
<1> SUFFICES ASSUME Init PROVE IInv
  OBVIOUS
<1> USE DEF Init
<1>1. \A r \in Records : LinesOf(r) \subseteq Records \X (1..Lines) \X {"whole"}
  <2> TAKE r \in Records
  <2>1. size[r] \in Sizes
    OBVIOUS
  <2>2. \A n \in 1..size[r] : n \in 1..Lines
    BY <2>1, RecordScanAssumption DEF Sizes, Absent
  <2> QED
    BY <2>2 DEF LinesOf
<1>2. TypeOK
  BY <1>1, RecordScanAssumption DEF TypeOK
<1>3. Current /\ Status /\ Accounted /\ OnlyWhatWasRecorded
  BY DEF Current, Status, Accounted, NoSilentLoss, OnlyWhatWasRecorded, Cut
<1> QED
  BY <1>2, <1>3 DEF IInv

(* A reader takes one record.                                              *)
LEMMA ReadKeeps ==
  ASSUME IInv, NEW r \in Records, PythonReads(r) \/ RipgrepReads(r)
  PROVE  IInv'
<1> USE DEF IInv
<1>1. /\ pc = "read" /\ pc' = pc /\ r \in todo /\ todo' = todo \ {r}
      /\ by_package' = by_package \cup ({r} \X LinesOf(r))
      /\ UNCHANGED <<reader, returncode, size, access, whole, open, held, changes>>
  BY DEF PythonReads, RipgrepReads, Alive, Reading, env
<1>2. TypeOK'
  BY <1>1, LinesInRange DEF TypeOK
<1>3. Current' /\ Status'
  BY <1>1 DEF Current, Status, LinesOf
<1>4. Accounted'
  <2>1. ASSUME NEW q \in whole PROVE (q \in todo \/ InFull(q) \/ Excused(q) \/ returncode = "erring")'
    <3>1. CASE q = r
      BY <1>1, <2>1, <3>1, WholeIsInFull DEF Current
    <3>2. CASE q # r
      BY <1>1, <2>1, <3>2 DEF Accounted, InFull, Excused
    <3> QED
      BY <3>1, <3>2
  <2> QED
    BY <1>1, <2>1 DEF Accounted, NoSilentLoss, Outcomes
<1>5. OnlyWhatWasRecorded'
  <2>1. ASSUME NEW pair \in by_package'
        PROVE  /\ <<pair[2][1], pair[2][2], "whole">> \in held[pair[1]]
               /\ pair[2][3] # "cut"
    <3>1. CASE pair \in by_package
      BY <1>1, <3>1 DEF OnlyWhatWasRecorded, Cut, Status
    <3>2. CASE pair \in {r} \X LinesOf(r)
      BY <3>2 DEF LinesOf, Current
    <3> QED
      BY <1>1, <3>1, <3>2
  <2> QED
    BY <1>1, <2>1 DEF OnlyWhatWasRecorded, Cut
<1> QED
  BY <1>2, <1>3, <1>4, <1>5

(* A record is passed over, or the scan comes to an end.                   *)
LEMMA OtherStepsKeep ==
  ASSUME IInv,
         \/ List \/ ListFails \/ PythonEnds \/ RipgrepExits \/ Timeout \/ RipgrepEnds
         \/ \E r \in Records : PythonSkips(r) \/ IsFileFails(r) \/ RipgrepCannotRead(r)
  PROVE  IInv'
<1> USE DEF IInv
<1>1. UNCHANGED <<reader, by_package, size, access, whole, open, held, changes>>
  BY DEF List, ListFails, PythonEnds, RipgrepExits, Timeout, RipgrepEnds,
         PythonSkips, IsFileFails, RipgrepCannotRead, env
<1>2. TypeOK'
  BY <1>1 DEF TypeOK, Outcomes, List, ListFails, PythonEnds, RipgrepExits, Timeout,
              RipgrepEnds, PythonSkips, IsFileFails, RipgrepCannotRead, Reading
<1>3. Current' /\ OnlyWhatWasRecorded'
  <2>1. returncode' = "signal" => returncode = "signal"
    BY DEF List, ListFails, PythonEnds, RipgrepExits, Timeout, RipgrepEnds, PythonSkips,
           IsFileFails, RipgrepCannotRead
  <2>2. returncode = "signal" => returncode' = "signal"
    BY DEF List, ListFails, PythonEnds, RipgrepExits, Timeout, RipgrepEnds, PythonSkips,
           IsFileFails, RipgrepCannotRead, Status, Alive, Reading
  <2> QED
    BY <1>1, <2>1, <2>2 DEF Current, OnlyWhatWasRecorded, Cut, LinesOf
<1>4. Status'
  BY <1>1 DEF Status, List, ListFails, PythonEnds, RipgrepExits, Timeout,
              RipgrepEnds, PythonSkips, IsFileFails, RipgrepCannotRead, Reading, Alive
<1>5. Accounted'
  <2>1. \A q \in whole : (InFull(q)' <=> InFull(q)) /\ (Excused(q)' <=> Excused(q))
    BY <1>1 DEF InFull, Excused
  <2>2. CASE List
    <3>1. \A q \in whole : q \in todo'
      BY <2>2, RecordScanAssumption DEF List, Current, There, Absent, TypeOK
    <3> QED
      BY <1>1, <2>2, <3>1 DEF List, Accounted, NoSilentLoss
  <2>3. CASE ListFails \/ Timeout \/ \E r \in Records : IsFileFails(r)
    BY <1>1, <2>3 DEF ListFails, Timeout, IsFileFails, Accounted, NoSilentLoss
  <2>4. CASE PythonEnds
    BY <1>1, <2>1, <2>4 DEF PythonEnds, Accounted, NoSilentLoss, Status, Excused
  <2>5. CASE RipgrepExits
    BY <1>1, <2>1, <2>5 DEF RipgrepExits, Alive, Accounted, NoSilentLoss, Excused
  <2>6. CASE RipgrepEnds
    BY <1>1, <2>1, <2>6 DEF RipgrepEnds, Accounted, NoSilentLoss
  <2>7. ASSUME NEW r \in Records, PythonSkips(r) \/ RipgrepCannotRead(r) PROVE Accounted'
    <3>1. pc = "read" /\ pc' = pc /\ todo' = todo \ {r} /\ (~There(r) \/ access[r] # "ok")
      BY <2>7 DEF PythonSkips, RipgrepCannotRead, Reading, Alive
    <3>2. r \in whole => r \notin open
      BY <3>1, RecordScanAssumption DEF Current, There, Absent
    <3>3. (reader = "python" /\ returncode' = returncode) \/ returncode' = "erring"
      BY <2>7 DEF PythonSkips, RipgrepCannotRead
    <3> QED
      BY <1>1, <2>1, <3>1, <3>2, <3>3 DEF Accounted, NoSilentLoss, Excused
  <2> QED
    BY <2>2, <2>3, <2>4, <2>5, <2>6, <2>7
<1> QED
  BY <1>2, <1>3, <1>4, <1>5

(* ripgrep is killed: at most one line is cut, the last one it wrote.      *)
LEMMA KilledKeeps ==
  ASSUME IInv, RipgrepKilled
  PROVE  IInv'
<1> USE DEF IInv
<1>1. /\ pc = "read" /\ reader = "ripgrep" /\ pc' = "exited" /\ returncode' = "signal"
      /\ UNCHANGED <<reader, todo, size, access, whole, open, held, changes>>
  BY DEF RipgrepKilled, Alive, env
<1>2. returncode # "signal" /\ Cut = {}
  BY <1>1 DEF Status, OnlyWhatWasRecorded
<1>3. Current' /\ Status'
  BY <1>1 DEF Current, Status, LinesOf
<1>4. Accounted'
  BY <1>1 DEF Accounted, NoSilentLoss
<1>5. CASE UNCHANGED by_package
  <2>1. TypeOK'
    BY <1>1, <1>5 DEF TypeOK
  <2>2. OnlyWhatWasRecorded'
    BY <1>1, <1>2, <1>5 DEF OnlyWhatWasRecorded, Cut
  <2> QED
    BY <1>3, <1>4, <2>1, <2>2
<1>6. ASSUME NEW r \in todo, NEW n \in 1..size[r], NEW form \in {"whole", "cut"},
             by_package' = by_package \cup ({r} \X Beginning(r, n, form))
      PROVE  IInv'
  <2>1. r \in Records
    BY DEF TypeOK
  <2>2. /\ Beginning(r, n, form) \subseteq Records \X (1..Lines) \X {"whole", "cut"}
        /\ \A line \in Beginning(r, n, form) :
             /\ <<line[1], line[2], "whole">> \in held[r]
             /\ line[3] = "cut" => line = <<r, n, "cut">>
    BY <1>6, <2>1, BeginningIsHeld
  <2>3. TypeOK'
    BY <1>1, <1>6, <2>1, <2>2 DEF TypeOK
  <2>4. ASSUME NEW pair \in by_package'
        PROVE  /\ <<pair[2][1], pair[2][2], "whole">> \in held[pair[1]]
               /\ pair[2][3] = "cut" => pair = <<r, <<r, n, "cut">>>>
    <3>1. CASE pair \in by_package
      BY <1>2, <3>1 DEF OnlyWhatWasRecorded, Cut
    <3>2. CASE pair \in {r} \X Beginning(r, n, form)
      BY <2>2, <3>2
    <3> QED
      BY <1>6, <3>1, <3>2
  <2>5. OnlyWhatWasRecorded'
    BY <1>1, <2>4 DEF OnlyWhatWasRecorded, Cut
  <2> QED
    BY <1>3, <1>4, <2>3, <2>5
<1> QED
  BY <1>5, <1>6 DEF RipgrepKilled

(* The packages change.                                                    *)
LEMMA ChangeKeeps ==
  ASSUME IInv,
         NEW newSize \in [Records -> Sizes],
         NEW newAccess \in [Records -> {"ok", "closed", "unreachable"}],
         Change(newSize, newAccess)
  PROVE  IInv'
<1> USE DEF IInv
<1>1. /\ pc \notin Outcomes
      /\ changes' = changes + 1 /\ changes < MaxChanges
      /\ size' = newSize /\ access' = newAccess
      /\ whole' = {r \in whole : newSize[r] = Lines}
      /\ open' = {r \in open : newAccess[r] = "ok"}
      /\ held' = [r \in Records |-> held[r] \cup {<<r, n, "whole">> : n \in 1..newSize[r]}]
      /\ UNCHANGED <<reader, pc, todo, by_package, returncode>>
  BY DEF Change, scan
<1>2. \A r \in Records : {<<r, n, "whole">> : n \in 1..newSize[r]} \subseteq Records \X (1..Lines) \X {"whole"}
  <2> TAKE r \in Records
  <2>1. \A n \in 1..newSize[r] : n \in 1..Lines
    BY RecordScanAssumption DEF Sizes, Absent
  <2> QED
    BY <2>1
<1>3. TypeOK'
  <2>1. held' \in [Records -> SUBSET (Records \X (1..Lines) \X {"whole"})]
    BY <1>1, <1>2 DEF TypeOK
  <2>2. changes' \in 0..MaxChanges
    BY <1>1, RecordScanAssumption DEF TypeOK
  <2> QED
    BY <1>1, <2>1, <2>2 DEF TypeOK
<1>4. \A r \in Records : held[r] \subseteq held'[r]
  BY <1>1
<1>5. Current'
  BY <1>1 DEF Current, LinesOf, TypeOK
<1>6. Status'
  BY <1>1 DEF Status
<1>7. Accounted'
  BY <1>1 DEF Accounted, NoSilentLoss, InFull, Excused, Outcomes
<1>8. OnlyWhatWasRecorded'
  <2>1. ASSUME NEW pair \in by_package
        PROVE  <<pair[2][1], pair[2][2], "whole">> \in held'[pair[1]]
    <3>1. pair[1] \in Records
      BY DEF TypeOK
    <3> QED
      BY <1>4, <3>1 DEF OnlyWhatWasRecorded
  <2> QED
    BY <1>1, <2>1 DEF OnlyWhatWasRecorded, Cut
<1> QED
  BY <1>3, <1>5, <1>6, <1>7, <1>8

LEMMA EnvironmentKeeps ==
  ASSUME IInv, Environment
  PROVE  IInv'
<1>1. PICK r \in Records : Install(r) \/ Append(r) \/ Remove(r) \/ Chmod(r)
  BY DEF Environment
<1>2. TypeOK
  BY DEF IInv
<1>3. CASE Install(r)
  <2>1. [size EXCEPT ![r] = 0] \in [Records -> Sizes]
    BY <1>2, RecordScanAssumption DEF TypeOK, Sizes
  <2> QED
    BY <1>2, <1>3, <2>1, ChangeKeeps DEF Install, TypeOK
<1>4. CASE Append(r)
  <2>1. [size EXCEPT ![r] = @ + 1] \in [Records -> Sizes]
    BY <1>2, <1>4, RecordScanAssumption DEF TypeOK, Sizes, Append, There, Absent
  <2> QED
    BY <1>2, <1>4, <2>1, ChangeKeeps DEF Append, TypeOK
<1>5. CASE Remove(r)
  <2>1. [size EXCEPT ![r] = Absent] \in [Records -> Sizes]
    BY <1>2 DEF TypeOK, Sizes
  <2> QED
    BY <1>2, <1>5, <2>1, ChangeKeeps DEF Remove, TypeOK
<1>6. CASE Chmod(r)
  <2>1. PICK a \in {"ok", "closed", "unreachable"} : Change(size, [access EXCEPT ![r] = a])
    BY <1>6 DEF Chmod
  <2>2. [access EXCEPT ![r] = a] \in [Records -> {"ok", "closed", "unreachable"}]
    BY <1>2 DEF TypeOK
  <2> QED
    BY <1>2, <2>1, <2>2, ChangeKeeps DEF TypeOK
<1> QED
  BY <1>1, <1>3, <1>4, <1>5, <1>6

LEMMA NextHolds == IInv /\ [Next]_vars => IInv'
<1> SUFFICES ASSUME IInv, [Next]_vars PROVE IInv'
  OBVIOUS
<1>1. CASE Environment
  BY <1>1, EnvironmentKeeps
<1>2. CASE Python
  BY <1>2, ReadKeeps, OtherStepsKeep DEF Python
<1>3. CASE Ripgrep
  BY <1>3, ReadKeeps, OtherStepsKeep, KilledKeeps DEF Ripgrep
<1>4. CASE List \/ ListFails \/ Timeout \/ RipgrepEnds
  BY <1>4, OtherStepsKeep
<1>5. CASE UNCHANGED vars
  BY <1>5 DEF vars, scan, env, IInv, TypeOK, Current, Status, Accounted, OnlyWhatWasRecorded,
              Cut, NoSilentLoss, InFull, Excused, LinesOf
<1> QED
  BY <1>1, <1>2, <1>3, <1>4, <1>5 DEF Next, Terminated

LEMMA AlwaysIInv == Spec => []IInv
<1> QED
  BY InitHolds, NextHolds, PTL DEF Spec

(* The readers and the records stay within their types.                    *)
THEOREM TypeCorrect == Spec => []TypeOK
<1>1. IInv => TypeOK
  BY DEF IInv
<1> QED
  BY <1>1, AlwaysIInv, PTL

(* No record that was complete during the whole scan is missing from a     *)
(* result, but for one the Python reader may not read or a ripgrep process *)
(* ended by a signal.                                                      *)
THEOREM NoLossIsSilent == Spec => []NoSilentLoss
<1>1. IInv => NoSilentLoss
  BY DEF IInv, Accounted
<1> QED
  BY <1>1, AlwaysIInv, PTL

(* Every line in the result was in the record of its package, whole, or it *)
(* is the one line a killed ripgrep left in the middle.                    *)
THEOREM OnlyRecorded == Spec => []OnlyWhatWasRecorded
<1>1. IInv => OnlyWhatWasRecorded
  BY DEF IInv
<1> QED
  BY <1>1, AlwaysIInv, PTL
=============================================================================
