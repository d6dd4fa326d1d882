SPECIFICATION Spec
CONSTANTS
  Nil = Nil
  NoRoute = NilRoute
  NilRoute = NilRoute
  NoAnswer = NoAnswer
  Routes <- MCRoutes
  DefaultRoute <- Feature
  RevenueRoute <- Revenue
  MarketingRoute <- Marketing
  MissionTexts <- MCTexts
  Additions <- MCAdditions
  Answers <- MCAnswers
  fast = fast
  deep = deep
  Options = {fast, deep}
  OwnerRules = {"critical_execution_requires_owner"}
  DefaultTier = "local"
  Engine = "auto"
  AllowFallback = TRUE
  Setup = {"cloud_key"}
  OwnerOps = {"select", "tier", "draft", "publish", "reject", "done", "lead", "approve"}
  Overlap = FALSE
  MaxRuns = 2
  MaxOps = 2
SYMMETRY Alike
INVARIANTS TypeOK OwnerChoiceKept PublishedHasEntry 
PROPERTIES OnlyOwnerCloses ReadyFollowsSelection
CHECK_DEADLOCK FALSE
