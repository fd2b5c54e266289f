\* Clock 0..3, allowance 1, stamps -1..3, snapshots of up to three readings
SPECIFICATION Spec
CONSTANTS
  None = None
  MaxClockSkew = 1
  MaxTime = 3
  Stamps <- MCStamps
  Slots <- MCSlots
  Bundles <- MCBundles
  Readings <- MCReadings
INVARIANTS
  TypeOK
  PermittedWasSeenUp
  FloorKeepsDeclaredConstraints
PROPERTIES
  AgeingContracts
  SilenceNeverAdmits
