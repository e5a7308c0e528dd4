SPECIFICATION Spec
CONSTANTS
  recon = recon  dns = dns  vhost = vhost  ports = ports  merge = merge
  Module = {vhost, ports, merge}
  NoDoc = NoDoc
  Engine = {e1, e2}
  NoEngine = NoEngine
  Dash = Dash
  Passive <- NoneAtAll
  Before <- NoneAtAll
  After <- OneAfter
  Port <- OnePort
  Post <- OnlyMerge
  NoTool = {merge}
  MayTrip = {}
  MayFail = {vhost}
  MayCrash = TRUE
  Requests = 2
  Kinds = {"start", "resume"}
  CliRuns = 0
  Deaths = 1
CHECK_DEADLOCK FALSE
INVARIANTS StagesAfterBranches RecordedIsShown
PROPERTIES CompletedCoversLadder RunSettles
