\* Two packages, two paths, two changes or cuts over two runs.
SPECIFICATION DiffSpec
CONSTANTS
  aaa = aaa
  bbb = bbb
  p1 = p1
  p2 = p2
  Packages <- MCPackages
  Paths <- MCPaths
  Contents <- MCContents
  Conditions <- MCConditions
  Requests <- MCRequests
  MaxChanges = 2
INVARIANTS
  DiffTellsTheChange
  NoDifferenceWithoutChange
