SPECIFICATION Spec
CONSTANTS
  q1 = q1
  r1 = r1
  k1 = k1
  k2 = k2
  NoProc = NoProc
  Queries = {}
  Execs = {}
  Rollbacks = {r1}
  Closers = {}
  Contexts <- StalledContexts
  Runtimes <- CurrentRuntime
  Faults <- FaultKinds
  Wires <- Envelopes
  TicksPerMs = 2
  MaxTime = 8
PROPERTIES
  ExpiredRollbackUsesExpiredToken
