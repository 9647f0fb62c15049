\* Every record of a marker and up to four more lines.
SPECIFICATION Spec
CONSTANTS
  MaxLines = 4
INVARIANTS
  TypeOK
  WellFormedIsExact
  EveryLineCountedOnce
