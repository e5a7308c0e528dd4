SPECIFICATION PassiveSpec
CONSTANTS
  Engine = {"ddg", "brave"}
  Rank <- MCRank
  Cooldown = 1
  CooldownMax = 1
  Window = 0
  Ratio = 20
  Interval = 1
  Host = {"a", "b"}
  Target = "t"
  Agent = {"assetfinder"}
  Dorks = 1
  Attempts = 2
  Retries = 2
  Apis = 1
  Searches = 1
  Scopes = 1
  SeedCalls = 1
  DepthCap = 2
  SeedsCaps = {1, 2}
  Deadline = 3
  Together = 1
INVARIANTS BudgetDisclosed NothingDropped
PROPERTIES NoLateCall PassiveEnds
CHECK_DEADLOCK FALSE
