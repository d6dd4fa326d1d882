\* One mission, two runs: a stop request that reaches no Event.
CONSTANTS
  Task = {t1}
  RunId = {r1, r2}
  NoTask = NoTask
  NoRun = NoRun
  Checkpoints = 1
  MayCrash = FALSE
  DbFaults = FALSE
SPECIFICATION Spec
INVARIANT StoppingRunIsSignalled
CHECK_DEADLOCK FALSE
