SPECIFICATION Spec
CONSTANTS
  Workers = {w1, w2}
  MaxJobs = 3
  MaxLarge = 1
  Volumes = {25, 104, 107}
  SymbolInfos <- MCInfos
  CloseTypes = {"same", "other"}
  IdleWorker = IdleWorker
  NoAnswer = NoAnswer
INVARIANTS
  AnswerCoversDeals
  NeverMoreThanAsked
  NotMuchLessThanAsked
  CloseTypeDecides
  ConfirmedCloseIsComplete
SYMMETRY MCSymmetry
CHECK_DEADLOCK FALSE
