SPECIFICATION StreamSpec
CONSTANTS
  Width = 3
  Stream = s
  Times = {1, 2}
  Payloads = {p}
  MaxRevision = 7
INVARIANTS
  StoreIsCanonical
  HeadsCanBeExtended
  InclusionExact
CHECK_DEADLOCK FALSE
