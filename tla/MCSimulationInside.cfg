SPECIFICATION Spec
CONSTANTS
  MaxClockSkew = 1
  None = None
  Selectors = {"governed"}
  Policy0 <- MCPolicy
  Validity = 2
  Dwell = 2
  Order <- MCOrder
  LinkOrder <- MCLinkOrder
  ClassOrder <- MCClassOrder
  DeclaredOrder <- MCDeclaredOrder
  BaseRtt <- MCBaseRtt
  Noises <- Quiet
  Allowance = 2
  Events <- MCEvents
  MaxEvents = 2
  MaxTime = 3
CHECK_DEADLOCK FALSE
INVARIANTS StaysInside
