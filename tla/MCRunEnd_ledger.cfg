SPECIFICATION Spec
CONSTANTS
  k = k  h1 = h1  h2 = h2
  Key = {k}
  Hash = {h1, h2}
  MaxStamp = 3
  MaxRuns = 2
  KeepRuns = 2
  Rules <- MCRules
SYMMETRY Renamed
CHECK_DEADLOCK FALSE
INVARIANTS IdentityTrue AlertsOwn
PROPERTIES ImplementsArchive DiffsChain
