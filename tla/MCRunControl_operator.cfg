SPECIFICATION Spec
CONSTANTS
  recon = recon  dns = dns  vhost = vhost  ports = ports  merge = merge
  Module = {dns}
  NoDoc = NoDoc
  Engine = {e1, e2}
  NoEngine = NoEngine
  Dash = Dash
  Passive <- NoneAtAll
  Before <- OneBefore
  After <- NoneAtAll
  Port <- NoneAtAll
  Post <- NoneAtAll
  NoTool = {merge}
  MayTrip = {}
  MayFail = {dns}
  MayCrash = FALSE
  Requests = 3
  Kinds = {"start", "stop", "resume", "restart"}
  CliRuns = 0
  Deaths = 1
CHECK_DEADLOCK FALSE
INVARIANTS OneEngine StopLeavesNothing
