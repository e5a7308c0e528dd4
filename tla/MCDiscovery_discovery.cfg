SPECIFICATION Spec
CONSTANTS
  Label = {"a", "b", "c"}
  MaxLen = 2
  Place <- MCPlace
  ReconDepth = 2
  FfufDepth = 1
  MaxHosts = 3
  Includes <- MCIncludes
  Excludes <- MCExcludes
  QpsStart = 2
  QpsStep = 1
  QpsMax = 3
  QpsDivisor = 2
  QpsBad = 2
  IP = {"i", "w"}
  Zones <- MCZones
  Chunks <- MCChunks
  Perms <- MCPerms
  Findable <- MCFindable
  ParallelParents = 2
  MaxPerms = 1
  HitFloor = 3
  MaxRuns = 1
  MaxBreaks = 1
  MaxRequests = 2
INVARIANTS ParentsCovered RateShared
PROPERTIES CatchAllSetAside
CHECK_DEADLOCK FALSE
