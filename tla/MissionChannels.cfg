\* The office, runs inside a request and the bot, all interleaved.
CONSTANTS
  MaxDecisions = 2
  MaxRuns = 2
  OnApproves = {"DONE"}
  SyncRuns = TRUE
  Console = TRUE
  Telegram = TRUE
SPECIFICATION Spec
INVARIANTS
  TypeOK
  RowMatchesDecision
CHECK_DEADLOCK FALSE
