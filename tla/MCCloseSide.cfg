SPECIFICATION Spec
CONSTANTS
  Workers = {w1, w2}
  MaxJobs = 2
  MaxLarge = 0
  Volumes = {50}
  SymbolInfos <- MCDefaults
  CloseTypes = {"other"}
  IdleWorker = IdleWorker
  NoAnswer = NoAnswer
INVARIANTS
  CloseDealOpposes
SYMMETRY MCSymmetry
CHECK_DEADLOCK FALSE
