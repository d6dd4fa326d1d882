\* Two missions, two runs, crashes and failing commits.
CONSTANTS
  Task = {t1, t2}
  RunId = {r1, r2}
  NoTask = NoTask
  NoRun = NoRun
  Checkpoints = 1
  MayCrash = TRUE
  DbFaults = TRUE
SPECIFICATION Spec
SYMMETRY RunSymmetry
INVARIANTS
  TypeOK
  OneTargetPerMission
  OnlyRequestedRunsCancelled
  RowTellsOwnOutcome
  EventFollowsRow
CHECK_DEADLOCK FALSE
