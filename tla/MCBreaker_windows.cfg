SPECIFICATION Spec
CONSTANTS
  m1 = m1  m2 = m2
  Module = {m1}
  NoModule = NoModule
  WindowSec = 2
  BadWindows = 2
  RatioNum = 1
  RatioDen = 2
  SlowFactor = 2
  Latency = {0, 1}
  NoLatency = NoLatency
  MaxTime = 7
  MaxEvents = 3
CHECK_DEADLOCK FALSE
INVARIANTS PauseEarned FailuresArePaused MirrorWithinPauses ThrottlePaced
PROPERTIES EveryPauseAlerts
