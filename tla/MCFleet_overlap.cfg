SPECIFICATION Spec
CONSTANTS
  f1 = f1  f2 = f2  a = a  b = b  c = c  d = d
  Fleet = {f1, f2}
  Target = {a, b}
  Limit <- OneAndTwo
  Deaths = 1
CHECK_DEADLOCK FALSE
INVARIANTS CleanMeansRun SlotsReturned LedgerWritten
PROPERTIES ImplementsSlots FleetEnds
