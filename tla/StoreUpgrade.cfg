SPECIFICATION FairSpec
CONSTANTS
  Source = {a, b}
  BatchRows = 2
  MaxRows = 3
  MaxCrashes = 2
INVARIANTS
  OpenIsExact
PROPERTIES
  OpenReturns
