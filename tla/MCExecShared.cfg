\* Two missions in one workspace, a patch file rewritten, no crash.
CONSTANTS
  Task = {t1, t2}
  t1 = t1
  t2 = t2
  a1 = a1
  a2 = a2
  b1 = b1
  Content = {a1, a2, b1}
  PatchOf <- MCPatchOf
  Report = Report
  Attempts = 1
  MayRework = FALSE
  MayReplace = TRUE
  MayBreak = FALSE
SPECIFICATION FairSpec

  
  
PROPERTIES
  ExecutionSettles
CHECK_DEADLOCK FALSE
