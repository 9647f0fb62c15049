\* One run over two packages and two paths, with two changes or cuts.
SPECIFICATION Spec
CONSTANTS
  aaa = aaa
  bbb = bbb
  p1 = p1
  p2 = p2
  Packages <- MCPackages
  Paths <- MCPaths
  Contents <- MCContents
  Conditions <- MCConditions
  Requests <- MCRequests
  MaxChanges = 2
INVARIANTS
  TypeOK
  EveryClaimWasTrue
  SteadyIsReported
