SPECIFICATION FairAuthSpec
CONSTANTS
  a = a
  b = b
  Task = {a, b}
  NoTask = NoTask
  Configured = FALSE
  MaxTokens = 3
  MaxExpired = 1
INVARIANTS
  AuthTypeOK
  DeadStaysBuried
  RetriesFresh
PROPERTY CallsEnd
