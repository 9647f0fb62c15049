\* verify_paths: four paths, a window of two, two threads, with fallback.
SPECIFICATION Spec
CONSTANTS
  N = 4
  MaxWorkers = 2
  Window = 2
  Answers <- MCAnswers
  Raised = "exception"
  Default = "None"
  OnFailure = "error"
  Fallback = TRUE
INVARIANTS
  TypeOK
  WindowBound
  ReturnsEveryResult
  ProgressHonest
PROPERTIES
  ProgressNeverRetreats
  CallEnds
  ImplementsOrderedMap
