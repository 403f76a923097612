SPECIFICATION FairSpec
CONSTANTS
  MaxReqs = 5
  ReplyTimeout = 5
  CallTimeout = 6
INVARIANTS
  PromptCallsStayPrompt
  StaleOnlyAfterTimeout
PROPERTIES
  ImplementsCalls
  RequestsReturn
  ForwardingResumes
CHECK_DEADLOCK FALSE
