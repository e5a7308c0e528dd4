SPECIFICATION Spec
CONSTANTS
  a = a  b = b  g1 = g1  g2 = g2
  Target = {a, b}
  Global = {g1, g2}
  Start = g1
  MaxOps = 4
CHECK_DEADLOCK FALSE
INVARIANTS GlobalsRestored OwnProfile DeletedStaysHidden
