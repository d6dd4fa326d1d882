\* The owner uses the office scene and the console; runs are made in the background.
CONSTANTS
  MaxDecisions = 4
  MaxRuns = 4
  OnApproves = {"DONE", "EXECUTION_READY", "APPROVED_WAIT_MERGE"}
  SyncRuns = FALSE
  Console = TRUE
  Telegram = FALSE
SPECIFICATION FairSpec
INVARIANTS
  DecisionsWaitForRun
  
  WaitOwnerHasApproval
  
PROPERTIES
  ClosedMissionStays
  MissionSettles
CHECK_DEADLOCK FALSE
