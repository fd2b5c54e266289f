\* Expected violation: HashDeterminesDecision
SPECIFICATION Spec
CONSTANTS
  None = None
  MaxClockSkew = 1
  MaxTime = 3
  Stamps <- MCStamps
  Slots <- MCSlots
  Bundles <- MCBundles
  Readings <- MCReadings
INVARIANT
  HashDeterminesDecision
