\* Two runs that are asked for orphans, with one change.
SPECIFICATION DiffSpec
CONSTANTS
  aaa = aaa
  bbb = bbb
  p1 = p1
  p2 = p2
  Packages <- MCPackages
  Paths <- MCPaths
  Contents <- MCContents
  Conditions <- MCConditions
  Requests <- MCOrphansOnly
  MaxChanges = 1
INVARIANTS
  DifferencesAreShown
