SPECIFICATION Spec
CONSTANTS
  MaxClockSkew = 1
  None = None
  Selectors = {"greedy", "static_priority", "hysteresis", "governed"}
  Policy0 <- MCPolicy
  Validity = 2
  Dwell = 2
  Order <- MCOrder
  LinkOrder <- MCLinkOrder
  ClassOrder <- MCClassOrder
  DeclaredOrder <- MCDeclaredOrder
  BaseRtt <- MCBaseRtt
  Noises <- NoisySat
  Allowance = 2
  Events <- MCEvents
  MaxEvents = 4
  MaxTime = 6
CHECK_DEADLOCK FALSE
INVARIANTS TypeOK PermittedMeansAllowed DegradedIffOutOfContact ServesWhenItCan ChosenIsUp
PROPERTIES DwellDamps
