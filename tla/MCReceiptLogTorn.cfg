\* The agent stops for good at the bound on records, or on a log it cannot resume.
SPECIFICATION Spec
CONSTANTS
  None = None
  Garbage = Garbage
  Site = "here"
  ForeignLog <- MCForeignLog
  MaxRecords = 4
  MaxFaults = 1
INVARIANTS
  TornTailIsHarmless
CHECK_DEADLOCK FALSE
