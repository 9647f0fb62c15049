\* Every combination of options, privileges and failures.
SPECIFICATION CliSpec
INVARIANTS
  DocumentAlone
  PhasesComplete
  ElevatedOnceOnDemand
