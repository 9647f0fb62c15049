\* The same two records, of which none changes: ripgrep is killed.
SPECIFICATION Spec
CONSTANTS
  r1 = r1
  r2 = r2
  Records <- MCRecords
  Lines = 2
  MaxChanges = 0
INVARIANTS
  RegisteredAreReturned
