SPECIFICATION Spec
CONSTANTS
  a = a
  b = b
  ns = ns
  id1 = id1
  id2 = id2
  st = st
  p = p
  Half = 2
  Keys = {a, b}
  Namespaces = {ns}
  RequestIDs = {id1, id2}
  NodeKeys <- MCNodeKeys
  Requests <- MCRequests
  Appends <- MCAppends
  Stores <- MCStores
  AppendStores <- MCAppendStores
  StreamValues <- MCStreamValues
  Revisions = {1}
  Positions = {1, 2, 3}
INVARIANTS
  GenuineAccepted
  AcceptedIsJustified
  AcceptedAppendIsJustified
CHECK_DEADLOCK FALSE
