\* Three passes over a program and two libraries, three changes on the way.
SPECIFICATION Spec
CONSTANTS
  Files <- MCFiles
  Vital <- MCVital
  LibNames <- MCLibNames
  Recorded <- MCRecorded
  Provides <- MCProvides
  Needs <- MCNeeds
  Stubs <- MCStubs
  Symbols <- MCSymbols
  Exports <- MCExports
  Imports <- MCImports
  MaxChanges = 3
INVARIANTS
  TypeOK
  NothingFalselyBroken
  NothingFalselyUndefined
  FlaggedUnlessRecorded
