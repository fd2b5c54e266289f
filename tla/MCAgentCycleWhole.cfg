SPECIFICATION Spec
CONSTANTS
  MaxClockSkew = 1
  None = None
  Bundles <- MCBundles
  FloorPolicy <- MCFloor
  Snapshots <- MCSnapshots
  Adapter = "merges"
  Faults = {}
  MaxTime = 2
  MaxFaults = 0
INVARIANTS EnforcedIsTheWholeTruth
