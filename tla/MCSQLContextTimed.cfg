SPECIFICATION Spec
CONSTANTS
  q1 = q1
  r1 = r1
  k1 = k1
  k2 = k2
  NoProc = NoProc
  Queries = {}
  Execs = {}
  Rollbacks = {r1}
  Closers = {}
  Contexts <- TimedContexts
  Runtimes <- TimedRuntimes
  Faults <- FaultKinds
  Wires <- Envelopes
  TicksPerMs = 2
  MaxTime = 8
INVARIANTS
  TypeOK
  TokenNotEarly
  CauseIsTheCallers
  UncertaintyPreserved
  SentinelsHaveACause
  CleanupKeepsInterruption
PROPERTIES
  ExpiredAtEntryStaysExpired
