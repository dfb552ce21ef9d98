SPECIFICATION Spec
CONSTANTS
  None = None
  Timeout = 3
  MaxAttempts = 2
  Backoff = 1
  Slack = 2
  LiveOutputs <- MCOutputs
  FakeReadings <- MCReadings
  Chats = {c1, c2}
  Objectives <- MCObjectives
  ModelTurns <- MCTurns
  Days <- MCDays
INVARIANTS
  OutcomeExplained
  NothingOutlives
  ProposalsAreSound
  BuyersWordsDecide
  AloneIsClean
PROPERTY EveryCallEnds
CHECK_DEADLOCK FALSE
