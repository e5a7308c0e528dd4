SPECIFICATION Spec
CONSTANTS
  recon = recon  dns = dns  vhost = vhost  ports = ports  merge = merge
  Module = {dns, merge}
  NoDoc = NoDoc
  Engine = {e1}
  NoEngine = NoEngine
  Dash = Dash
  Passive <- NoneAtAll
  Before <- OneBefore
  After <- NoneAtAll
  Port <- NoneAtAll
  Post <- OnlyMerge
  NoTool = {merge}
  MayTrip = {dns}
  MayFail = {dns, merge}
  MayCrash = FALSE
  Requests = 3
  Kinds = {"start", "stop", "reset"}
  CliRuns = 1
  Deaths = 0
CHECK_DEADLOCK FALSE
PROPERTIES AlertNotMasked EngineEnds
