SPECIFICATION Spec
SYMMETRY ClosersAlike
CONSTANTS
  q1 = q1
  r1 = r1
  k1 = k1
  k2 = k2
  NoProc = NoProc
  Queries = {q1}
  Execs = {}
  Rollbacks = {r1}
  Closers = {k1, k2}
  Contexts <- RaceContexts
  Runtimes <- RaceRuntimes
  Faults <- FaultKinds
  Wires <- Envelopes
  TicksPerMs = 1
  MaxTime = 1
INVARIANTS
  TokenSafety
  HandleSafety
  NothingLeaks
  OutcomeIsKnown
  RollbackDispatched
