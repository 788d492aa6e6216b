----------------------------- MODULE GoFrameTx -----------------------------
(***************************************************************************)
(* The database/sql driver of goframe/native_sql.go and the pool sizes of  *)
(* goframe/driver.go, between database/sql (external: pool, sql.Tx, its    *)
(* awaitDone goroutine, replay on driver.ErrBadConn) and Talon Core        *)
(* (external: one transaction slot per database, sessions that autocommit  *)
(* outside it).                                                            *)
(*                                                                         *)
(* A driver call runs under the lock of its connection and Core holds the  *)
(* caller until it answers, so a call is one step.  sql.Tx marks itself    *)
(* done before it calls the driver, so ending a transaction is two.        *)
(* Transactions and writes are numbered in the order they start; the       *)
(* transaction 0 of a write is autocommit.                                 *)
(***************************************************************************)
EXTENDS Integers, FiniteSets, Sequences

CONSTANTS Callers, Conns, NoConn,
          MaxTx,          \* bound: transactions begun
          MaxWrites,      \* bound: writes started
          Statements,     \* statements given to Exec
          Queries,        \* statements given to Query: "select", "returning"
          PoolRequests    \* what ConfigNode and the setters ask of the pool

ASSUME ConnAssumption == NoConn \notin Conns
ASSUME BoundAssumption == MaxTx \in Nat /\ MaxWrites \in Nat

(* A statement is what the shape checks read of its text; a pool request   *)
(* has an optional override of each of the two ConfigNode values.          *)
ASSUME StatementAssumption ==
  Statements \subseteq [verb: STRING, into: BOOLEAN, words: Nat, tail: STRING,
                        returning: BOOLEAN, duplicate: BOOLEAN, args: BOOLEAN]
ASSUME PoolAssumption ==
  PoolRequests \subseteq [openOverride: Seq(Int), nodeOpen: Int, idleOverride: Seq(Int), nodeIdle: Int]

TxIds  == 1 .. MaxTx
Writes == 1 .. MaxWrites

VARIABLES
  shared, maxOpen, maxIdle,           \* native_shared_core; sql.DB limits, 0 before Open
  connState, invalid,                 \* pool entry of a connection; nativeConn.invalid
  slot, pending, applied,             \* Core: slot owner, its writes, durable counts
  pc, held, number, writing,          \* callers: step, connection, transaction, write
  begun, started, txOf,               \* numbers given out; the transaction of a write
  tx, txConn, ended, interrupted,     \* sql.Tx: state, connection, context, lost Core tx
  report, verdict,                    \* what a statement and a transaction returned
  queried                             \* the writes sent with Query (RETURNING)

poolVars   == <<shared, maxOpen, maxIdle>>
connVars   == <<connState, invalid>>
coreVars   == <<slot, pending, applied>>
callerVars == <<pc, held, number, writing>>
countVars  == <<begun, started, txOf>>
txVars     == <<tx, txConn, ended, interrupted>>
answerVars == <<report, verdict, queried>>
vars == <<poolVars, connVars, coreVars, callerVars, countVars, txVars, answerVars>>

----------------------------------------------------------------------------
(* Driver.Open.                                                            *)

(* The setters leave an override that hides the value of the ConfigNode.   *)
Requested(override, node) == IF override # <<>> THEN override[1] ELSE node

(* Mutant: the request raises or lowers the limit of every artifact.       *)
PoolLimit_TrustsRequest(s, open) == IF open > 0 THEN open ELSE IF s THEN 4 ELSE 1

(* Mutant: a negative request, "no limit" to database/sql, goes through.   *)
PoolLimit_Negative(s, open) ==
  IF ~s THEN 1 ELSE IF open # 0 /\ open < 4 THEN open ELSE 4

PoolLimit(s, open) ==
  IF ~s THEN 1 ELSE IF open > 0 /\ open < 4 THEN open ELSE 4

IdleLimit(limit, idle) == IF idle > 0 /\ idle < limit THEN idle ELSE limit

(* gdb applies its dynamic configuration after Open returns; Open has      *)
(* written the same two limits there.                                      *)
DriverOpen(s, r) ==
  /\ maxOpen = 0
  /\ shared' = s
  /\ maxOpen' = PoolLimit(s, Requested(r.openOverride, r.nodeOpen))
  /\ maxIdle' = IdleLimit(maxOpen', Requested(r.idleOverride, r.nodeIdle))
  /\ UNCHANGED <<connVars, coreVars, callerVars, countVars, txVars, answerVars>>

----------------------------------------------------------------------------
(* What Exec does with a statement: the shape checks of ExecContext,       *)
(* normalizeMutationSQL and mutationKind.  A statement is its first word   *)
(* (verb), into (REPLACE INTO), words, tail (a second statement after ;),  *)
(* returning, duplicate (ON DUPLICATE) and args (parameters convert).      *)

normalizeMutationSQL(s) ==
  IF s.verb = "REPLACE" /\ s.into THEN [s EXCEPT !.verb = "INSERT"] ELSE s

mutationKind(s) ==
  /\ s.tail = "none" /\ ~s.returning
  /\ s.words >= 3
  /\ \/ s.verb = "INSERT" /\ ~s.duplicate
     \/ s.verb \in {"UPDATE", "DELETE"}

ExecClass(s) ==
  IF \/ s.verb \in {"SELECT", "SHOW", "DESCRIBE", "EXPLAIN", "WITH", "BEGIN", "COMMIT", "ROLLBACK"}
     \/ s.returning
     \/ ~s.args
  THEN "refused"
  ELSE IF mutationKind(normalizeMutationSQL(s)) THEN "mutation"
  ELSE IF s.verb \in {"CREATE", "ALTER", "DROP", "TRUNCATE"} /\ s.tail = "none"
       THEN "ddl" ELSE "refused"

----------------------------------------------------------------------------
(* Core, as the SDK's context calls see it.  An answer is the state after  *)
(* the call and resp: "undispatched" (the context had ended), "rejected"   *)
(* (busy, a constraint), "interrupted" (rolled back if the session owned   *)
(* the slot), "unknown" (result_indeterminate), "malformed" or "ok".       *)

Core == [slot |-> slot, pending |-> pending, applied |-> applied]

Answer(core, resp) == [core |-> core, resp |-> resp]

RollbackIfOwned(core, c) ==
  IF core.slot = c THEN [core EXCEPT !.slot = NoConn, !.pending = {}] ELSE core

CommitOwned(core) ==
  [slot |-> NoConn, pending |-> {},
   applied |-> [w \in Writes |-> core.applied[w] + (IF w \in core.pending THEN 1 ELSE 0)]]

ApplyWrite(core, c, w) ==
  IF core.slot = c THEN [core EXCEPT !.pending = @ \cup {w}]
                   ELSE [core EXCEPT !.applied[w] = @ + 1]

ThenTail(core, c, tail) ==
  IF tail = "COMMIT" /\ core.slot = c THEN CommitOwned(core) ELSE core

CoreStatement(core, c, w, tail) ==
  {Answer(core, "undispatched"), Answer(core, "rejected"),
   Answer(RollbackIfOwned(core, c), "interrupted")}
  \cup IF core.slot \in {NoConn, c}
       THEN {Answer(core, "malformed")} \cup
            {Answer(ThenTail(ApplyWrite(core, c, w), c, tail), r) : r \in {"ok", "malformed"}} \cup
            IF core.slot = c THEN {} ELSE {Answer(core, "unknown"), Answer(ApplyWrite(core, c, w), "unknown")}
       ELSE {}

CoreRead(core, c) ==
  {Answer(core, r) : r \in {"undispatched", "rejected", "malformed"}}
  \cup {Answer(RollbackIfOwned(core, c), "interrupted")}
  \cup {Answer(core, r) : r \in IF core.slot \in {NoConn, c} THEN {"ok"} ELSE {}}

CoreBegin(core, c) ==
  {Answer(core, "undispatched"), Answer(core, "rejected"),
   Answer(RollbackIfOwned(core, c), "interrupted")}
  \cup {Answer([core EXCEPT !.slot = c], r) : r \in IF core.slot = NoConn THEN {"ok", "malformed"} ELSE {}}

CoreCommit(core, c) ==
  {Answer(core, "undispatched"), Answer(core, "rejected"),
   Answer(RollbackIfOwned(core, c), "interrupted")}
  \cup {Answer(CommitOwned(core), r) : r \in IF core.slot = c THEN {"ok", "malformed", "unknown"} ELSE {}}

(* SQLRollbackContext is dispatched even when its context has ended.       *)
CoreRollback(core, c) ==
  {Answer(core, "rejected"), Answer(core, "malformed"), Answer(core, "unknown")}
  \cup {Answer(RollbackIfOwned(core, c), r) : r \in {"ok", "interrupted", "malformed", "unknown"}}

SetCore(core) ==
  slot' = core.slot /\ pending' = core.pending /\ applied' = core.applied

----------------------------------------------------------------------------
(* What the driver returns: "nil", "unknown" (CodeResultIndeterminate),    *)
(* "protocol" (CodeProtocolViolation), "definite", or "bad_conn"           *)
(* (driver.ErrBadConn, which the driver never returns).                    *)

Errors == {"nil", "unknown", "protocol", "definite", "bad_conn"}

SDKError(resp) ==
  CASE resp = "ok" -> "nil"
    [] resp = "malformed" -> "protocol"
    [] resp = "unknown" -> "unknown"
    [] OTHER -> "definite"

(* Mutant: the unreadable answer keeps its protocol classification.        *)
mutationOutcomeError_Dropped(err) == err

mutationOutcomeError(err) == IF err = "protocol" THEN "unknown" ELSE err

(* An "ok" answer may still lack affected rows, or exceed int64.           *)
MutationResults(class, resp) ==
  {mutationOutcomeError(SDKError(resp))}
  \cup IF class = "mutation" /\ resp = "ok" THEN {mutationOutcomeError("protocol")} ELSE {}

(* QueryContext: an answer with a row of another width is a plain error.   *)
QueryResults(resp) ==
  {SDKError(resp)} \cup IF resp = "ok" THEN {"definite"} ELSE {}

----------------------------------------------------------------------------
(* database/sql: acquiring and returning a connection.                     *)

OpenHandles == {c \in Conns : ~invalid[c]}

(* putConn: an invalid connection, one reported bad or one above the idle  *)
(* limit is closed, and closing a handle rolls its transaction back.       *)
PutConn(c, core, isInvalid, bad) ==
  LET idle == {d \in Conns : connState[d] = "idle"}
      keep == ~bad /\ ~isInvalid /\ Cardinality(idle) < maxIdle
  IN  /\ connState' = [connState EXCEPT ![c] = IF keep THEN "idle" ELSE "none"]
      /\ invalid' = [invalid EXCEPT ![c] = ~keep]
      /\ SetCore(IF keep THEN core ELSE RollbackIfOwned(core, c))

(* A caller starts a call and is given connection c; a replayed write      *)
(* keeps its number.                                                       *)
Granted(u, c, call) ==
  /\ connState' = [connState EXCEPT ![c] = "used"]
  /\ held' = [held EXCEPT ![u] = c]
  /\ pc' = [pc EXCEPT ![u] = call]
  /\ IF pc[u] = "replay" THEN call = "exec" ELSE pc[u] = "ready"
  /\ IF call = "begin"
     THEN /\ begun < MaxTx
          /\ begun' = begun + 1
          /\ number' = [number EXCEPT ![u] = begun + 1]
     ELSE UNCHANGED <<begun, number>>
  /\ IF call = "exec" /\ pc[u] = "ready"
     THEN /\ started < MaxWrites
          /\ started' = started + 1
          /\ writing' = [writing EXCEPT ![u] = started + 1]
     ELSE UNCHANGED <<started, writing>>
  /\ UNCHANGED txOf
  /\ UNCHANGED <<poolVars, coreVars, txVars, answerVars>>

(* nativeConnector.Connect.  A context that ends before or after the open, *)
(* or an open that fails, leaves no handle behind and nothing changed.     *)
Connect(u, c, call) ==
  /\ connState[c] = "none"
  /\ Cardinality({d \in Conns : connState[d] # "none"}) < maxOpen
  /\ invalid' = [invalid EXCEPT ![c] = FALSE]
  /\ Granted(u, c, call)

Reuse(u, c, call) ==
  /\ connState[c] = "idle"
  /\ UNCHANGED invalid
  /\ Granted(u, c, call)

----------------------------------------------------------------------------
(* Autocommit calls: the statement, then putConn.  database/sql replays    *)
(* the call on another connection if, and only if, it failed as bad_conn   *)
(* (a replayed read is as a new one).                                      *)

Return(u, core, err) ==
  /\ PutConn(held[u], core, invalid[held[u]], err = "bad_conn")
  /\ held' = [held EXCEPT ![u] = NoConn]
  /\ pc' = [pc EXCEPT ![u] = IF err = "bad_conn" /\ pc[u] = "exec" THEN "replay" ELSE "ready"]
  /\ writing' = [writing EXCEPT ![u] = IF err = "bad_conn" THEN @ ELSE 0]
  /\ number' = [number EXCEPT ![u] = 0]
  /\ UNCHANGED <<poolVars, countVars, txVars, verdict>>

(* The caller's write returns err, unless database/sql will replay it.     *)
ReturnWrite(u, core, err) ==
  /\ pc[u] = "exec"
  /\ Return(u, core, err)
  /\ report' = [report EXCEPT ![writing[u]] = IF err = "bad_conn" THEN @ ELSE err]

DBExec(u, s) ==
  /\ pc[u] = "exec"
  /\ UNCHANGED queried
  /\ \/ /\ ExecClass(s) = "refused"
        /\ ReturnWrite(u, Core, "definite")
     \/ /\ ExecClass(s) # "refused"
        /\ \E a \in CoreStatement(Core, held[u], writing[u], s.tail) :
           \E err \in MutationResults(ExecClass(s), a.resp) : ReturnWrite(u, a.core, err)

(* Query sends whatever it is given: a read, or a write with RETURNING.    *)
DBQuery(u, q) ==
  /\ pc[u] = IF q = "returning" THEN "exec" ELSE "query"
  /\ \E a \in IF q = "returning" THEN CoreStatement(Core, held[u], writing[u], "none")
                                  ELSE CoreRead(Core, held[u]) :
     \E err \in QueryResults(a.resp) :
        IF q = "returning"
        THEN ReturnWrite(u, a.core, err) /\ queried' = queried \cup {writing[u]}
        ELSE Return(u, a.core, err) /\ UNCHANGED <<report, queried>>

Ping(u) ==
  /\ pc[u] = "query"
  /\ \E a \in CoreRead(Core, held[u]) : Return(u, a.core, SDKError(a.resp))
  /\ UNCHANGED <<report, queried>>

----------------------------------------------------------------------------
(* Transactions.                                                           *)

(* Mutant: a failed BEGIN leaves the connection as it is.                  *)
BeginFailure_KeepsConn(core, c) == [core |-> core, invalid |-> FALSE]

(* nativeConn.Close: the handle goes, and any transaction of its session.  *)
BeginFailure(core, c) == [core |-> RollbackIfOwned(core, c), invalid |-> TRUE]

(* A begin that fails before the driver dispatches BEGIN (ended context,   *)
(* unsupported options, no native_sql_session) keeps the connection; any   *)
(* failure of BEGIN itself closes it.                                      *)
BeginRefused(u) ==
  /\ pc[u] = "begin"
  /\ Return(u, Core, "definite")
  /\ UNCHANGED <<report, queried>>

BeginFails(u) ==
  LET c == held[u]
  IN  /\ pc[u] = "begin"
      /\ \E a \in CoreBegin(Core, c) :
            /\ a.resp # "ok"
            /\ LET failure == BeginFailure(a.core, c)
               IN  PutConn(c, failure.core, failure.invalid, FALSE)
      /\ held' = [held EXCEPT ![u] = NoConn]
      /\ pc' = [pc EXCEPT ![u] = "ready"]
      /\ number' = [number EXCEPT ![u] = 0]
      /\ UNCHANGED <<poolVars, writing, countVars, txVars, answerVars>>

BeginTx(u) ==
  /\ pc[u] = "begin"
  /\ \E a \in CoreBegin(Core, held[u]) : a.resp = "ok" /\ SetCore(a.core)
  /\ tx' = [tx EXCEPT ![number[u]] = "open"]
  /\ txConn' = [txConn EXCEPT ![number[u]] = held[u]]
  /\ held' = [held EXCEPT ![u] = NoConn]
  /\ pc' = [pc EXCEPT ![u] = "tx"]
  /\ UNCHANGED <<poolVars, connVars, number, writing, countVars, ended, interrupted, answerVars>>

InTx(u) == pc[u] = "tx" /\ tx[number[u]] = "open"

(* Core answers a statement of an open transaction; an interruption ends   *)
(* the transaction there.                                                  *)
Answered(u, a) ==
  /\ SetCore(a.core)
  /\ interrupted' = IF a.resp = "interrupted" THEN interrupted \cup {number[u]} ELSE interrupted
  /\ UNCHANGED <<poolVars, connVars, callerVars, begun, tx, txConn, ended, verdict>>

(* A write of class "query" was given to Query, and not to Exec.           *)
TxWrite(u, answers, class) ==
  /\ InTx(u)
  /\ started < MaxWrites
  /\ started' = started + 1
  /\ txOf' = [txOf EXCEPT ![started + 1] = number[u]]
  /\ \E a \in answers :
     \E err \in IF class = "query" THEN QueryResults(a.resp) ELSE MutationResults(class, a.resp) :
        /\ Answered(u, a)
        /\ report' = [report EXCEPT ![started + 1] = err]

TxConn(u) == txConn[number[u]]

TxExec(u, s) ==
  /\ TxWrite(u, IF ExecClass(s) = "refused" THEN {Answer(Core, "rejected")}
                ELSE CoreStatement(Core, TxConn(u), started + 1, s.tail), ExecClass(s))
  /\ UNCHANGED queried

TxQuery(u, q) ==
  IF q = "returning"
  THEN /\ TxWrite(u, CoreStatement(Core, TxConn(u), started + 1, "none"), "query")
       /\ queried' = queried \cup {started + 1}
  ELSE /\ InTx(u)
       /\ \E a \in CoreRead(Core, TxConn(u)) : Answered(u, a)
       /\ UNCHANGED <<started, txOf, report, queried>>

(* The context given to BeginTx ends.                                      *)
ContextEnds(t) ==
  /\ tx[t] \in {"open", "committing", "rolling"}
  /\ ~ended[t]
  /\ ended' = [ended EXCEPT ![t] = TRUE]
  /\ UNCHANGED <<poolVars, connVars, coreVars, callerVars, countVars, tx, txConn, interrupted, answerVars>>

(* sql.Tx marks itself done: Commit (which first looks at the context),    *)
(* Rollback and awaitDone compete for it.                                  *)
TxCommit(u) ==
  /\ InTx(u)
  /\ ~ended[number[u]]
  /\ tx' = [tx EXCEPT ![number[u]] = "committing"]
  /\ UNCHANGED <<poolVars, connVars, coreVars, callerVars, countVars, txConn, ended, interrupted, answerVars>>

TxRollback(u) ==
  /\ InTx(u)
  /\ tx' = [tx EXCEPT ![number[u]] = "rolling"]
  /\ UNCHANGED <<poolVars, connVars, coreVars, callerVars, countVars, txConn, ended, interrupted, answerVars>>

AwaitDone(t) ==
  /\ tx[t] = "open"
  /\ ended[t]
  /\ tx' = [tx EXCEPT ![t] = "awaited"]
  /\ UNCHANGED <<poolVars, connVars, coreVars, callerVars, countVars, txConn, ended, interrupted, answerVars>>

(* The caller of a transaction that awaitDone has taken sees ErrTxDone.    *)
TxDone(u) ==
  /\ pc[u] = "tx"
  /\ tx[number[u]] \in {"awaited", "closed"}
  /\ pc' = [pc EXCEPT ![u] = "ready"]
  /\ number' = [number EXCEPT ![u] = 0]
  /\ UNCHANGED <<poolVars, connVars, coreVars, held, writing, countVars, txVars, answerVars>>

(* The end of nativeTx.Commit and nativeTx.Rollback: an error closes the   *)
(* handle; then tx.close gives the connection back (discarded by the       *)
(* awaitDone goroutine: nativeConn is no driver.SessionResetter) and       *)
(* cancels the context of the transaction.                                 *)
Finish(t, core, failed, discard, v) ==
  LET c == txConn[t]
  IN  /\ PutConn(c, IF failed THEN RollbackIfOwned(core, c) ELSE core, invalid[c] \/ failed, discard)
      /\ tx' = [tx EXCEPT ![t] = "closed"]
      /\ verdict' = [verdict EXCEPT ![t] = v]
      /\ txConn' = [txConn EXCEPT ![t] = NoConn]
      /\ ended' = [ended EXCEPT ![t] = TRUE]
      /\ UNCHANGED <<poolVars, held, writing, countVars, interrupted, report, queried>>

(* Mutant: the error of COMMIT is lost when the handle is closed.          *)
CommitVerdict_CloseHidesError(err) == IF err = "definite" THEN "nil" ELSE err

CommitVerdict(err) == err

(* Mutant: COMMIT is sent under an ended context and never answered.       *)
CommitAnswers_NotRefused(t) == IF ended[t] THEN {} ELSE CoreCommit(Core, txConn[t])

(* COMMIT runs under the context given to BeginTx; ended, it is refused.   *)
CommitAnswers(t) ==
  {a \in CoreCommit(Core, txConn[t]) : ended[t] => a.resp = "undispatched"}

Commit(u) ==
  LET t == number[u]
  IN  /\ pc[u] = "tx"
      /\ tx[t] = "committing"
      /\ \E a \in CommitAnswers(t) :
           LET err == mutationOutcomeError(SDKError(a.resp))
           IN  Finish(t, a.core, err # "nil", FALSE, CommitVerdict(err))
      /\ pc' = [pc EXCEPT ![u] = "ready"]
      /\ number' = [number EXCEPT ![u] = 0]

RollbackFailed(resp) == resp # "ok"

Rollback(u) ==
  LET t == number[u]
  IN  /\ pc[u] = "tx"
      /\ tx[t] = "rolling"
      /\ \E a \in CoreRollback(Core, txConn[t]) :
            Finish(t, a.core, RollbackFailed(a.resp), FALSE, "rolled_back")
      /\ pc' = [pc EXCEPT ![u] = "ready"]
      /\ number' = [number EXCEPT ![u] = 0]

AwaitRollback(t) ==
  /\ tx[t] = "awaited"
  /\ \E a \in CoreRollback(Core, txConn[t]) :
        Finish(t, a.core, RollbackFailed(a.resp), TRUE, "rolled_back")
  /\ UNCHANGED <<pc, number>>

----------------------------------------------------------------------------
Init ==
  /\ shared = FALSE /\ maxOpen = 0 /\ maxIdle = 0
  /\ connState = [c \in Conns |-> "none"]
  /\ invalid = [c \in Conns |-> TRUE]
  /\ slot = NoConn /\ pending = {} /\ applied = [w \in Writes |-> 0]
  /\ pc = [u \in Callers |-> "ready"]
  /\ held = [u \in Callers |-> NoConn]
  /\ number = [u \in Callers |-> 0]
  /\ writing = [u \in Callers |-> 0]
  /\ begun = 0 /\ started = 0 /\ txOf = [w \in Writes |-> 0]
  /\ tx = [t \in TxIds |-> "none"]
  /\ txConn = [t \in TxIds |-> NoConn]
  /\ ended = [t \in TxIds |-> FALSE]
  /\ interrupted = {}
  /\ report = [w \in Writes |-> "none"]
  /\ verdict = [t \in TxIds |-> "none"]
  /\ queried = {}

CallerStep(u) ==
  \/ \E c \in Conns, call \in {"begin", "exec", "query"} : Connect(u, c, call) \/ Reuse(u, c, call)
  \/ \E s \in Statements : DBExec(u, s) \/ TxExec(u, s)
  \/ \E q \in Queries : DBQuery(u, q) \/ TxQuery(u, q)
  \/ Ping(u)
  \/ BeginRefused(u) \/ BeginFails(u) \/ BeginTx(u)
  \/ TxCommit(u) \/ TxRollback(u) \/ TxDone(u) \/ Commit(u) \/ Rollback(u)

TxStep(t) == ContextEnds(t) \/ AwaitDone(t) \/ AwaitRollback(t)

Next ==
  \/ \E s \in BOOLEAN, r \in PoolRequests : DriverOpen(s, r)
  \/ \E u \in Callers : CallerStep(u)
  \/ \E t \in TxIds : TxStep(t)

Spec == Init /\ [][Next]_vars

(* The awaitDone goroutine is scheduled, and a driver call that has begun  *)
(* ends: what frees the Core slot of a transaction depends on both.        *)
FairSpec ==
  /\ Spec
  /\ \A t \in TxIds : WF_vars(AwaitDone(t)) /\ WF_vars(AwaitRollback(t))
  /\ \A u \in Callers : WF_vars(Commit(u)) /\ WF_vars(Rollback(u))

----------------------------------------------------------------------------
TypeOK ==
  /\ shared \in BOOLEAN /\ maxOpen \in Nat /\ maxIdle \in Nat
  /\ connState \in [Conns -> {"none", "idle", "used"}]
  /\ invalid \in [Conns -> BOOLEAN]
  /\ slot \in Conns \cup {NoConn}
  /\ pending \in SUBSET Writes
  /\ applied \in [Writes -> Nat]
  /\ pc \in [Callers -> {"ready", "begin", "exec", "replay", "query", "tx"}]
  /\ held \in [Callers -> Conns \cup {NoConn}]
  /\ number \in [Callers -> 0 .. MaxTx]
  /\ writing \in [Callers -> 0 .. MaxWrites]
  /\ begun \in 0 .. MaxTx /\ started \in 0 .. MaxWrites
  /\ txOf \in [Writes -> 0 .. MaxTx]
  /\ tx \in [TxIds -> {"none", "open", "committing", "rolling", "awaited", "closed"}]
  /\ txConn \in [TxIds -> Conns \cup {NoConn}]
  /\ ended \in [TxIds -> BOOLEAN]
  /\ interrupted \in SUBSET TxIds
  /\ report \in [Writes -> Errors \cup {"none"}]
  /\ verdict \in [TxIds -> Errors \cup {"none", "rolled_back"}]
  /\ queried \in SUBSET Writes

Live(t) == tx[t] \in {"open", "committing", "rolling", "awaited"}

(* The slot of Core is held only by the connection of a live sql.Tx, and   *)
(* what is pending in it are writes of that transaction: no connection     *)
(* goes back to the pool with a transaction open, where the autocommit     *)
(* writes of its next borrower would be swallowed.                         *)
SlotBelongsToItsTransaction ==
  slot # NoConn =>
    \E t \in TxIds : /\ Live(t) /\ txConn[t] = slot
                     /\ \A w \in pending : txOf[w] = t

(* When Commit returns nil, every write of the transaction that Exec or    *)
(* Query acknowledged is durable, whatever happened to it meanwhile.       *)
CommittedIsComplete ==
  \A w \in Writes :
    txOf[w] > 0 /\ verdict[txOf[w]] = "nil" /\ report[w] = "nil" => applied[w] > 0

(* A statement takes effect at most once (database/sql replays one that    *)
(* failed as driver.ErrBadConn, which the driver never returns), and a     *)
(* durable write whose call has returned was not reported as a definite    *)
(* failure: its statement, or the Commit of its transaction, returned nil  *)
(* or ResultIndeterminate, whatever answer of Core went missing.           *)
(* An interrupted statement ends Core's transaction under sql.Tx; writes   *)
(* after it autocommit and answer for themselves.  A RETURNING write goes  *)
(* through QueryContext, which reports an unreadable answer as it is.      *)
EffectsAreReported ==
  \A w \in Writes :
    /\ applied[w] <= 1
    /\ applied[w] = 1 /\ report[w] # "none" /\ w \notin queried =>
         \/ /\ txOf[w] = 0 \/ txOf[w] \in interrupted
            /\ report[w] \in {"nil", "unknown"}
         \/ /\ txOf[w] > 0
            /\ verdict[txOf[w]] \in {"nil", "unknown"}

(* Without native_shared_core one handle is open at a time, so Connect is  *)
(* never refused by Core's own lock on the directory; with it, the four    *)
(* of the artifact or the lower number asked for.                          *)
PoolWithinOwnership ==
  /\ Cardinality(OpenHandles) <= IF shared THEN 4 ELSE 1
  /\ Cardinality(OpenHandles) <= maxOpen

(* Once the context of a transaction has ended, Core's only transaction    *)
(* slot is released without another call of its owner.                     *)
ContextEndReleasesSlot ==
  \A t \in TxIds : (ended[t] /\ Live(t)) ~> ~Live(t)
=============================================================================
