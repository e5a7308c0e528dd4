SPECIFICATION Spec
CONSTANTS
  a = a  b = b  ma = ma  mb = mb  fb = fb
  Worker = {a, b}
  KeyOf <- OneModule
  FallbackKey = fb
  MaxRetry = 1
  Hooked = {"primary"}
  Planned0 = 2
  Available = {4}
  BudgetRam = 4
  RamFloor = 1
  BudgetCpu = 4
  Entries = 2
  UnhealthyAfter = 2
  MaskOf <- ApartMasks
  Calls = 1
  Boots = 2
CHECK_DEADLOCK FALSE
INVARIANTS CeilingBalanced BarredStartsOne AttemptsInOrder SkippedEarned
PROPERTIES CallsReturn
