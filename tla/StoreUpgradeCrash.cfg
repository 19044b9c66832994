SPECIFICATION Spec
CONSTANTS
  Source = {a}
  BatchRows = 2
  MaxRows = 2
  MaxCrashes = 1
INVARIANT HeadsAreRebuilt
