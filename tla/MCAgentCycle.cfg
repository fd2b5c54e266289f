SPECIFICATION FairSpec
CONSTANTS
  MaxClockSkew = 1
  None = None
  Bundles <- MCBundles
  FloorPolicy <- MCFloor
  Snapshots <- MCSnapshots
  Adapter = "merges"
  Faults = {"sink", "apply", "ignored", "kept", "observe", "readback", "crash", "lost", "clock"}
  MaxTime = 2
  MaxFaults = 2
INVARIANTS TypeOK EnforcedIsTrue NothingInForceUnrecorded DecisionIsOfOnePolicy
PROPERTIES LogNeverRollsBack AttemptIsAnswered LapseTakesEffect
