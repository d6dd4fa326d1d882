\* One mission alone in the workspace, failing, stopped, reworked and retried.
CONSTANTS
  Task = {t1}
  t1 = t1
  a1 = a1
  a2 = a2
  b1 = b1
  Content = {a1, a2, b1}
  PatchOf <- MCPatchOf
  Report = Report
  Attempts = 3
  MayRework = TRUE
  MayReplace = FALSE
  MayBreak = TRUE
SPECIFICATION Spec
INVARIANTS
  TypeOK
  PrIsSignedPatch
  PrIsTested
  OnePrPerMission
PROPERTIES
  StopBeforeCommit
CHECK_DEADLOCK FALSE
