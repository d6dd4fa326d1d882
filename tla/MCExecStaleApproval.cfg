\* One mission whose patch file is rewritten after the approval.
CONSTANTS
  Task = {t1}
  t1 = t1
  a1 = a1
  a2 = a2
  b1 = b1
  Content = {a1, a2, b1}
  PatchOf <- MCPatchOf
  Report = Report
  Attempts = 1
  MayRework = FALSE
  MayReplace = TRUE
  MayBreak = FALSE
SPECIFICATION Spec
INVARIANT
  PrIsSignedPatch
CHECK_DEADLOCK FALSE
