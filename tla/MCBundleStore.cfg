\* The site really may stop: the mark is unreadable and the process is down.
SPECIFICATION FairSpec
CONSTANTS
  None = None
  Unreadable = Unreadable
  Issuer = "ours"
  Site = "here"
  PresentedLinks = "links"
  MaxClockSkew = 1
  MaxTime = 4
  MaxFaults = 3
  RenameSurvivesPowerCut = TRUE
  Envelopes <- MCEnvelopes
  FloorConfigs <- MCFloors
INVARIANTS
  TypeOK
  NoRollback
  OnePolicyPerSequence
  NoncesOnlyRefuseTheOld
PROPERTIES
  KeepsPromise
  PolicyArrives
CHECK_DEADLOCK FALSE
