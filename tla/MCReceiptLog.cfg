\* The agent stops for good at the bound on records, or on a log it cannot resume.
SPECIFICATION FairSpec
CONSTANTS
  None = None
  Garbage = Garbage
  Site = "here"
  ForeignLog <- MCForeignLog
  MaxRecords = 6
  MaxFaults = 3
INVARIANTS
  TypeOK
  LogVerifies
  AckedStaysRecorded
  HeadIsLogEnd
  NeverReordered
  OneSitePerLog
PROPERTIES
  Resumes
CHECK_DEADLOCK FALSE
