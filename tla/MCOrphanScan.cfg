\* Every tree of six places, two roots, two changes during the walk.
SPECIFICATION Spec
CONSTANTS
  Places <- MCPlaces
  Roots <- MCRoots
  Records <- MCRecords
  Excluded <- MCExcluded
  MaxChanges = 2
INVARIANTS
  TypeOK
  NothingOverlooked
  NothingInvented
