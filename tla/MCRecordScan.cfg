\* Two records of two lines; three changes during the scan.
SPECIFICATION Spec
CONSTANTS
  r1 = r1
  r2 = r2
  Records <- MCRecords
  Lines = 2
  MaxChanges = 3
INVARIANTS
  TypeOK
  NoSilentLoss
  OnlyWhatWasRecorded
PROPERTIES
  ScanEnds
