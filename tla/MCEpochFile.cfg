\* At rest when no sequence exceeds the mark.
SPECIFICATION Spec
CONSTANTS
  None = None
  Unreadable = Unreadable
  Writers = {w1, w2}
  Sequences = {3, 12, 21}
  RenameSurvivesPowerCut = FALSE
  MaxFaults = 3
SYMMETRY WriterSymmetry
INVARIANTS
  TypeOK
  NeverTruncated
  ReturnedIsRecorded
PROPERTIES
  ActsAsMaximum
CHECK_DEADLOCK FALSE
