\* Two backup suffixes; three changes may hit one task.
SPECIFICATION ProbeSpec
CONSTANTS
  BackupSuffixes <- MCSuffixes
  MaxChanges = 3
INVARIANTS
  ProbeTypeOK
  VerdictAtRest
  NoFalseAlarm
  DescriptorReturned
  ElfExact
