\* Three root runs, two of which may start at the same microsecond, and a diff.
SPECIFICATION Spec
CONSTANTS
  Runs = {r1, r2, r3}
  Stamps = {1, 2}
  Plain = plain
SYMMETRY MCSymmetry
INVARIANTS
  TypeOK
  PublishedWhole
  SavedStays
  NoLitter
  DiffDirection
PROPERTY
  ImplementsReportStore
