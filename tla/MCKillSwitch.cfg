SPECIFICATION Spec
CONSTANTS
  Threads = {t1, t2, t3}
  KillReasons = {DailyLossLimit, ManualStop}
  NoReason = None
INVARIANT OneRecordedKill
PROPERTIES TriggerIsFinal TriggerIsExplained
\* every thread may have returned
CHECK_DEADLOCK FALSE
