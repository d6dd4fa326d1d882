\* Two missions, two runs and crashes: the tables, the slots, and what settles.
CONSTANTS
  Task = {t1, t2}
  RunId = {r1, r2}
  NoTask = NoTask
  NoRun = NoRun
  Checkpoints = 1
  MayCrash = TRUE
  DbFaults = FALSE
SPECIFICATION FairSpec
INVARIANT LatestFinishedRowClosed
PROPERTIES
  ImplementsRunSlots
  ClosedRowIsFinal
  StopSettles
  SignalledRunIsRecorded
CHECK_DEADLOCK FALSE
