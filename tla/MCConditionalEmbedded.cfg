SPECIFICATION Spec
CONSTANTS
  c1 = c1
  c2 = c2
  k = k
  ns = ns
  id1 = id1
  Half = 2
  Keys = {k}
  Namespaces = {ns}
  RequestIDs = {id1}
  Callers = {c1, c2}
  RequestOf <- Requests
  InitialStores <- Stores
  Transport = "embedded"
  Deployments = {"single"}
  MaxExecutes = 2
INVARIANTS
  DefiniteErrorsHaveNoEffect
CHECK_DEADLOCK FALSE
