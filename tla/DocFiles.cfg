\* Two requests: for two documents, or twice for the same one.
SPECIFICATION Spec
CONSTANTS
  Paths = {p1, p2}
  Workbooks <- MCWorkbooks
  Solutions <- MCSolutions
  MaxReqs = 2
INVARIANTS
  TypeOK
  OriginalSurvives
  ReportedOkIsClean
PROPERTY FilesRefinement
CHECK_DEADLOCK FALSE
