SPECIFICATION FairSpec
CONSTANTS
  Callers = {u1, u2}
  Conns = {c1, c2}
  NoConn = NoConn
  MaxTx = 2
  MaxWrites = 1
  Statements <- MCStatements
  Queries = {"select", "returning"}
  PoolRequests <- MCPoolRequests
INVARIANTS
  TypeOK
  SlotBelongsToItsTransaction
  CommittedIsComplete
  
  PoolWithinOwnership

  
CHECK_DEADLOCK FALSE
