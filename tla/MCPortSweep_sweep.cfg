SPECIFICATION Spec
CONSTANTS
  x = x  y = y
  Host = {x, y}
  IP = {1, 2, 3}
  Inputs <- SweepInputs
  Profiles = {"full", "light", "broken"}
  PortsOf <- Ports3
  CapOf <- Caps
  ScopeMode = "all_resolved"
  Preview = TRUE
  Budget = 4
  FlushEvery = 3
  Durations = {2}
  Divisor = 2
  RampStart = 1
  RampStep = 1
  RampEvery = 1
  CanaryEvery = 3
  BadWindows = 2
  MaxRuns = 2
CHECK_DEADLOCK FALSE
INVARIANTS Accounted PartialDisclosed PauseEarned
