SPECIFICATION Spec
CONSTANTS
  Width = 2
  Stream = s
  Times = {1, 3}
  Payloads = {"p"}
  MaxRevision = 3
  Windows <- TimeWindows
  Limits = {1, 2}
INVARIANTS
  PagesAreTheWindow
  RightAnswerAccepted
PROPERTIES
  QueryAdvances
CHECK_DEADLOCK FALSE
