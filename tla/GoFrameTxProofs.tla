-------------------------- MODULE GoFrameTxProofs --------------------------
(***************************************************************************)
(* Safety of GoFrameTx for any callers, any connections, any number of     *)
(* transactions and writes, any statements and any pool request.           *)
(***************************************************************************)
EXTENDS GoFrameTx, FiniteSetTheorems, TLAPS

(* The pool counts exactly the open handles.                               *)
HandleInv == \A c \in Conns : invalid[c] <=> connState[c] = "none"

PoolInv ==
  /\ maxOpen <= IF shared THEN 4 ELSE 1
  /\ IsFiniteSet(OpenHandles)
  /\ Cardinality(OpenHandles) <= maxOpen

(* A caller has its connection, its transaction number and its write for   *)
(* itself, and the write it is sending has left no trace yet.              *)
CallerInv(u) ==
  /\ pc[u] # "replay"
  /\ pc[u] \in {"begin", "exec", "query"} <=> held[u] # NoConn
  /\ held[u] # NoConn => connState[held[u]] = "used"
  /\ pc[u] \in {"begin", "tx"} <=> number[u] # 0
  /\ number[u] <= begun
  /\ pc[u] = "begin" => tx[number[u]] = "none"
  /\ pc[u] = "tx" => tx[number[u]] # "none"
  /\ pc[u] = "exec" <=> writing[u] # 0
  /\ writing[u] <= started
  /\ pc[u] = "exec" => /\ txOf[writing[u]] = 0 /\ report[writing[u]] = "none"
                       /\ applied[writing[u]] = 0
  /\ \A v \in Callers \ {u} :
       /\ held[u] # NoConn => held[u] # held[v]
       /\ number[u] # 0 => number[u] # number[v]
       /\ writing[u] # 0 => writing[u] # writing[v]

(* A live transaction has its connection for itself, and Core's slot until *)
(* an interruption takes it away for good.                                 *)
TxInv(t) ==
  /\ Live(t) <=> txConn[t] # NoConn
  /\ Live(t) => connState[txConn[t]] = "used"
  /\ tx[t] # "none" => t <= begun
  /\ verdict[t] # "none" => tx[t] = "closed"
  /\ t \in interrupted => tx[t] # "none" /\ verdict[t] # "nil"
  /\ Live(t) => (t \in interrupted <=> slot # txConn[t])
  /\ \A u \in Callers : held[u] # NoConn => held[u] # txConn[t]
  /\ \A s \in TxIds \ {t} : txConn[t] # NoConn => txConn[t] # txConn[s]

SlotInv == (slot = NoConn => pending = {}) /\ SlotBelongsToItsTransaction

(* What EffectsAreReported says of one write.                              *)
Reported(w) ==
  applied[w] = 1 /\ report[w] # "none" /\ w \notin queried =>
    \/ (txOf[w] = 0 \/ txOf[w] \in interrupted) /\ report[w] \in {"nil", "unknown"}
    \/ txOf[w] > 0 /\ verdict[txOf[w]] \in {"nil", "unknown"}

(* A write takes effect once, from the slot or by itself; an acknowledged  *)
(* write is durable or pending until its transaction is lost.              *)
WriteInv(w) ==
  /\ w > started => applied[w] = 0 /\ w \notin pending /\ report[w] = "none" /\ txOf[w] = 0
  /\ applied[w] <= 1
  /\ w \in pending => applied[w] = 0
  /\ txOf[w] > 0 => tx[txOf[w]] # "none"
  /\ txOf[w] > 0 /\ report[w] = "nil" =>
       \/ applied[w] = 1 \/ w \in pending \/ txOf[w] \in interrupted
       \/ tx[txOf[w]] = "closed" /\ verdict[txOf[w]] # "nil"
  /\ Reported(w)

(* The inductive invariant.                                                *)
Parts ==
  /\ HandleInv
  /\ \A u \in Callers : CallerInv(u)
  /\ \A t \in TxIds : TxInv(t)
  /\ SlotInv
  /\ \A w \in Writes : WriteInv(w)

IInv == TypeOK /\ Parts /\ PoolInv

----------------------------------------------------------------------------
(* What the shape checks let through holds one statement.                  *)
LEMMA NoTail ==
  ASSUME NEW s \in Statements, ExecClass(s) # "refused"
  PROVE  s.tail = "none"
BY StatementAssumption DEF ExecClass, mutationKind, normalizeMutationSQL

(* The driver's classification never gives driver.ErrBadConn, and only an  *)
(* answer of Core becomes nil.                                             *)
LEMMA MutationErrors ==
  ASSUME NEW class, NEW resp, NEW err \in MutationResults(class, resp)
  PROVE  /\ err \in {"nil", "unknown", "definite"}
         /\ err = "nil" => resp = "ok"
         /\ resp \in {"ok", "malformed", "unknown"} => err \in {"nil", "unknown"}
BY DEF MutationResults, mutationOutcomeError, SDKError

LEMMA QueryErrors ==
  ASSUME NEW resp, NEW err \in QueryResults(resp)
  PROVE  /\ err \in {"nil", "unknown", "protocol", "definite"}
         /\ err = "nil" => resp = "ok"
BY DEF QueryResults, SDKError

----------------------------------------------------------------------------
(* Core.                                                                   *)
CoreType == [slot: Conns \cup {NoConn}, pending: SUBSET Writes, applied: [Writes -> Nat]]

LEMMA CoreTyped ==
  ASSUME TypeOK
  PROVE  Core \in CoreType /\ Core.slot = slot /\ Core.pending = pending /\ Core.applied = applied
BY DEF TypeOK, Core, CoreType

(* Rolling back leaves the slot to others, and nothing else changes.       *)
LEMMA RolledBack ==
  ASSUME NEW core \in CoreType, NEW c \in Conns
  PROVE  LET after == RollbackIfOwned(core, c)
         IN  /\ after \in CoreType /\ after.slot # c /\ after.applied = core.applied
             /\ core.slot # c => after = core
             /\ core.slot = c => after.slot = NoConn /\ after.pending = {}
BY ConnAssumption DEF RollbackIfOwned, CoreType

LEMMA AnswerParts ==
  ASSUME NEW core, NEW resp
  PROVE  Answer(core, resp).core = core /\ Answer(core, resp).resp = resp
BY DEF Answer

(* A statement of a session that does not own the slot commits by itself,  *)
(* and only while nobody owns it.                                          *)
LEMMA StatementAlone ==
  ASSUME TypeOK, NEW c \in Conns, slot # c, NEW w \in Writes, NEW a \in CoreStatement(Core, c, w, "none")
  PROVE  /\ a.core \in CoreType /\ a.core.slot = slot /\ a.core.pending = pending
         /\ \/ a.core.applied = applied /\ a.resp # "ok"
            \/ /\ a.core.applied = [applied EXCEPT ![w] = @ + 1]
               /\ slot = NoConn /\ a.resp \in {"ok", "malformed", "unknown"}
<1> DEFINE one == [Core EXCEPT !.applied[w] = @ + 1]
<1>1. Core \in CoreType /\ Core.slot = slot /\ Core.pending = pending /\ Core.applied = applied
  BY CoreTyped
<1>2. RollbackIfOwned(Core, c) = Core
  BY <1>1, RolledBack
<1>3. ApplyWrite(Core, c, w) = one /\ ThenTail(one, c, "none") = one
  BY <1>1 DEF ApplyWrite, ThenTail
<1>4. /\ one \in CoreType /\ one.slot = slot /\ one.pending = pending
      /\ one.applied = [applied EXCEPT ![w] = @ + 1]
  BY <1>1 DEF CoreType, TypeOK
<1> HIDE DEF one
<1>5. \/ a \in {Answer(Core, r) : r \in {"undispatched", "rejected", "interrupted", "malformed", "unknown"}}
      \/ slot = NoConn /\ a \in {Answer(one, r) : r \in {"ok", "malformed", "unknown"}}
  BY <1>1, <1>2, <1>3 DEF CoreStatement
<1>6. QED
  BY <1>1, <1>4, <1>5, AnswerParts

(* A statement of the owner only adds to what is pending, or loses it all. *)
LEMMA StatementOwned ==
  ASSUME TypeOK, NEW c \in Conns, slot = c, NEW w \in Writes, NEW a \in CoreStatement(Core, c, w, "none")
  PROVE  /\ a.core \in CoreType /\ a.core.applied = applied
         /\ \/ /\ a.core.slot = slot /\ a.core.pending = pending
               /\ a.resp \in {"undispatched", "rejected", "malformed"}
            \/ a.core.slot = NoConn /\ a.core.pending = {} /\ a.resp = "interrupted"
            \/ /\ a.core.slot = slot /\ a.core.pending = pending \cup {w}
               /\ a.resp \in {"ok", "malformed"}
<1> DEFINE one == [Core EXCEPT !.pending = @ \cup {w}]
<1> DEFINE lost == RollbackIfOwned(Core, c)
<1>1. Core \in CoreType /\ Core.slot = slot /\ Core.pending = pending /\ Core.applied = applied
  BY CoreTyped
<1>2. lost \in CoreType /\ lost.applied = applied /\ lost.slot = NoConn /\ lost.pending = {}
  BY <1>1, RolledBack
<1>3. ApplyWrite(Core, c, w) = one /\ ThenTail(one, c, "none") = one
  BY <1>1 DEF ApplyWrite, ThenTail
<1>4. one \in CoreType /\ one.slot = slot /\ one.pending = pending \cup {w} /\ one.applied = applied
  BY <1>1 DEF CoreType, TypeOK
<1> HIDE DEF one, lost
<1>5. \/ a \in {Answer(Core, r) : r \in {"undispatched", "rejected", "malformed"}}
      \/ a = Answer(lost, "interrupted")
      \/ a \in {Answer(one, r) : r \in {"ok", "malformed"}}
  BY <1>1, <1>3 DEF CoreStatement, lost
<1>6. QED
  BY <1>1, <1>2, <1>4, <1>5, AnswerParts

(* A read changes nothing, unless it is interrupted.                       *)
LEMMA ReadAnswer ==
  ASSUME TypeOK, NEW c \in Conns, NEW a \in CoreRead(Core, c)
  PROVE  \/ a.core = Core /\ (a.resp # "interrupted" \/ slot # c)
         \/ slot = c /\ a.core = RollbackIfOwned(Core, c) /\ a.resp = "interrupted"
<1>1. Core \in CoreType /\ Core.slot = slot
  BY CoreTyped
<1>2. slot # c => RollbackIfOwned(Core, c) = Core
  BY <1>1, RolledBack
<1>3. \/ a \in {Answer(Core, r) : r \in {"undispatched", "rejected", "malformed", "ok"}}
      \/ a = Answer(RollbackIfOwned(Core, c), "interrupted")
  BY DEF CoreRead
<1>4. QED
  BY <1>1, <1>2, <1>3, AnswerParts
----------------------------------------------------------------------------
(* The pool.                                                               *)

LEMMA PoolKept ==
  ASSUME PoolInv, TypeOK, UNCHANGED <<shared, maxOpen>>, OpenHandles' \subseteq OpenHandles
  PROVE  PoolInv'
<1>1. IsFiniteSet(OpenHandles') /\ Cardinality(OpenHandles') <= Cardinality(OpenHandles)
  BY FS_Subset DEF PoolInv
<1>2. Cardinality(OpenHandles) \in Nat /\ Cardinality(OpenHandles') \in Nat
  BY <1>1, FS_CardinalityType DEF PoolInv
<1>3. QED
  BY <1>1, <1>2 DEF PoolInv, TypeOK

(* putConn keeps the books: the connection is idle and open, or gone.      *)
LEMMA PutBack ==
  ASSUME TypeOK, NEW c \in Conns, NEW core \in CoreType, NEW i \in BOOLEAN, NEW b \in BOOLEAN,
         core.slot # c, PutConn(c, core, i, b)
  PROVE  /\ slot' = core.slot /\ pending' = core.pending /\ applied' = core.applied
         /\ \E k \in {"idle", "none"} :
              /\ connState' = [connState EXCEPT ![c] = k]
              /\ invalid' = [invalid EXCEPT ![c] = (k = "none")]
<1> DEFINE keep == ~b /\ ~i /\ Cardinality({d \in Conns : connState[d] = "idle"}) < maxIdle
<1> DEFINE k == IF keep THEN "idle" ELSE "none"
<1>1. RollbackIfOwned(core, c) = core
  BY RolledBack
<1>2. slot' = core.slot /\ pending' = core.pending /\ applied' = core.applied
  BY <1>1 DEF PutConn, SetCore
<1>3. connState' = [connState EXCEPT ![c] = k] /\ invalid' = [invalid EXCEPT ![c] = ~keep]
  BY DEF PutConn
<1> HIDE DEF keep
<1>4. k \in {"idle", "none"} /\ (~keep) = (k = "none")
  BY DEF keep
<1>5. QED
  BY <1>2, <1>3, <1>4

(* After putConn the open handles are some of those open before.           *)
LEMMA PoolShrinks ==
  ASSUME TypeOK, PoolInv, HandleInv, NEW c \in Conns, connState[c] = "used", NEW k \in {"idle", "none"},
         invalid' = [invalid EXCEPT ![c] = (k = "none")], UNCHANGED <<shared, maxOpen>>
  PROVE  PoolInv'
<1>1. OpenHandles' \subseteq OpenHandles
  BY DEF OpenHandles, HandleInv, TypeOK
<1>2. QED
  BY <1>1, PoolKept

(* The slot is never the connection a caller holds outside a transaction.  *)
LEMMA HeldIsNotSlot ==
  ASSUME TypeOK, Parts, NEW u \in Callers, held[u] # NoConn
  PROVE  held[u] \in Conns /\ slot # held[u] /\ connState[held[u]] = "used"
BY DEF TypeOK, Parts, SlotInv, SlotBelongsToItsTransaction, CallerInv, TxInv

----------------------------------------------------------------------------
(* A caller's connection goes back to the pool: the end of every call      *)
(* outside a transaction, and of a failed begin.  Only the trace of the    *)
(* caller's own write may have changed.                                    *)
LEMMA GivesBack ==
  ASSUME IInv, NEW u \in Callers, held[u] # NoConn, NEW k \in {"idle", "none"},
         connState' = [connState EXCEPT ![held[u]] = k],
         invalid' = [invalid EXCEPT ![held[u]] = (k = "none")],
         held' = [held EXCEPT ![u] = NoConn], pc' = [pc EXCEPT ![u] = "ready"],
         writing' = [writing EXCEPT ![u] = 0], number' = [number EXCEPT ![u] = 0],
         UNCHANGED <<poolVars, slot, pending, countVars, txVars, verdict>>,
         applied' \in [Writes -> Nat], report' \in [Writes -> Errors \cup {"none"}],
         queried' \in SUBSET Writes, queried \subseteq queried',
         \A w \in Writes :
            \/ applied'[w] = applied[w] /\ report'[w] = report[w]
            \/ /\ pc[u] = "exec" /\ w = writing[u] /\ applied'[w] \in {0, 1}
               /\ applied'[w] = 1 => report'[w] \in {"nil", "unknown"} \/ w \in queried'
  PROVE  IInv'
<1> DEFINE c == held[u]
<1>0. /\ TypeOK /\ Parts /\ PoolInv /\ HandleInv /\ SlotInv
      /\ \A v \in Callers : CallerInv(v)
      /\ \A t \in TxIds : TxInv(t)
      /\ \A w \in Writes : WriteInv(w)
  BY DEF IInv, Parts
<1>1. c \in Conns /\ slot # c /\ connState[c] = "used"
  BY <1>0, HeldIsNotSlot
<1>2. TypeOK'
  <2>1. connState' \in [Conns -> {"none", "idle", "used"}] /\ invalid' \in [Conns -> BOOLEAN]
    BY <1>0 DEF TypeOK
  <2>2. /\ pc' \in [Callers -> {"ready", "begin", "exec", "replay", "query", "tx"}]
        /\ held' \in [Callers -> Conns \cup {NoConn}]
        /\ number' \in [Callers -> 0 .. MaxTx] /\ writing' \in [Callers -> 0 .. MaxWrites]
    BY <1>0, BoundAssumption DEF TypeOK
  <2>3. QED
    BY <1>0, <2>1, <2>2 DEF TypeOK, poolVars, countVars, txVars
<1>3. PoolInv'
  BY <1>0, <1>1, PoolShrinks DEF poolVars
<1>4. HandleInv'
  BY <1>0, <1>1 DEF HandleInv, TypeOK
<1>5. ASSUME NEW v \in Callers PROVE CallerInv(v)'
  <2>1. CASE v = u
    BY <1>0, <2>1 DEF CallerInv, TypeOK, countVars, txVars
  <2>2. CASE v # u
    <3>1. /\ pc'[v] = pc[v] /\ held'[v] = held[v] /\ number'[v] = number[v] /\ writing'[v] = writing[v]
          /\ held[v] # NoConn => held[v] # c
      BY <1>0, <2>2 DEF CallerInv, TypeOK
    <3>2. held[v] # NoConn => connState'[held[v]] = connState[held[v]]
      BY <1>0, <3>1 DEF TypeOK
    <3>3. pc[v] = "exec" => writing[v] \in Writes /\ (pc[u] = "exec" => writing[v] # writing[u])
      BY <1>0, <2>2 DEF CallerInv, TypeOK, Writes
    <3>4. pc[v] = "exec" => applied'[writing[v]] = applied[writing[v]] /\ report'[writing[v]] = report[writing[v]]
      BY <3>3
    <3>5. \A x \in Callers \ {v} : /\ held[v] # NoConn => held[v] # held'[x]
                                   /\ number[v] # 0 => number[v] # number'[x]
                                   /\ writing[v] # 0 => writing[v] # writing'[x]
      BY <1>0, <2>2 DEF CallerInv, TypeOK
    <3>6. CallerInv(v)
      BY <1>0
    <3>7. QED
      BY <3>1, <3>2, <3>4, <3>5, <3>6 DEF CallerInv, countVars, txVars
  <2>3. QED
    BY <2>1, <2>2
<1>6. ASSUME NEW t \in TxIds PROVE TxInv(t)'
  <2>1. TxInv(t) /\ UNCHANGED <<tx, txConn, interrupted, verdict, slot, begun>>
    BY <1>0 DEF txVars, countVars
  <2>2. Live(t) => txConn[t] \in Conns /\ txConn[t] # c
    BY <1>0, <2>1 DEF TxInv, TypeOK
  <2>3. Live(t) => connState'[txConn[t]] = "used"
    BY <1>0, <2>1, <2>2 DEF TxInv, TypeOK
  <2>4. \A v \in Callers : held'[v] # NoConn => held'[v] # txConn[t]
    BY <1>0, <2>1 DEF TxInv, TypeOK
  <2>5. QED
    BY <2>1, <2>3, <2>4 DEF TxInv, Live
<1>7. SlotInv'
  BY <1>0 DEF SlotInv, SlotBelongsToItsTransaction, Live, txVars, countVars
<1>8. ASSUME NEW w \in Writes PROVE WriteInv(w)'
  <2>1. WriteInv(w) /\ UNCHANGED <<tx, interrupted, verdict, pending, started, txOf>>
    BY <1>0 DEF txVars, countVars
  <2>2. CASE applied'[w] = applied[w] /\ report'[w] = report[w]
    BY <2>1, <2>2 DEF WriteInv, Reported
  <2>3. CASE /\ pc[u] = "exec" /\ w = writing[u] /\ applied'[w] \in {0, 1}
             /\ applied'[w] = 1 => report'[w] \in {"nil", "unknown"} \/ w \in queried'
    <3>1. txOf[w] = 0 /\ w <= started /\ applied[w] = 0
      BY <1>0, <2>3 DEF CallerInv
    <3>2. w \notin pending
      <4>1. w \in pending => slot # NoConn /\ \E t \in TxIds : txOf[w] = t
        BY <1>0 DEF SlotInv, SlotBelongsToItsTransaction
      <4>2. QED
        BY <3>1, <4>1 DEF TxIds
    <3>3. w \in Nat /\ started \in Nat
      BY <1>0 DEF TypeOK, Writes
    <3>4. QED
      BY <2>1, <2>3, <3>1, <3>2, <3>3 DEF WriteInv, Reported
  <2>4. QED
    BY <2>2, <2>3
<1>9. QED
  BY <1>8, <1>7, <1>6, <1>5, <1>4, <1>3, <1>2 DEF IInv, Parts

LEMMA ReturnStep ==
  ASSUME IInv, NEW u \in Callers, pc[u] \in {"begin", "exec", "query"}, NEW core \in CoreType,
         core.slot = slot, core.pending = pending, NEW err \in Errors \ {"bad_conn"}, Return(u, core, err),
         report' \in [Writes -> Errors \cup {"none"}],
         queried' \in SUBSET Writes, queried \subseteq queried',
         \A w \in Writes :
            \/ core.applied[w] = applied[w] /\ report'[w] = report[w]
            \/ /\ pc[u] = "exec" /\ w = writing[u] /\ core.applied[w] \in {0, 1}
               /\ core.applied[w] = 1 => report'[w] \in {"nil", "unknown"} \/ w \in queried'
  PROVE  IInv'
<1>0. TypeOK /\ Parts /\ CallerInv(u)
  BY DEF IInv, Parts
<1>1. held[u] # NoConn
  BY <1>0 DEF CallerInv
<1>2. held[u] \in Conns /\ slot # held[u]
  BY <1>0, <1>1, HeldIsNotSlot
<1> DEFINE i == invalid[held[u]]
<1> DEFINE b == err = "bad_conn"
<1>3. i \in BOOLEAN /\ b \in BOOLEAN /\ PutConn(held[u], core, i, b)
  BY <1>0, <1>2 DEF Return, TypeOK
<1> HIDE DEF i, b
<1>4. slot' = core.slot /\ pending' = core.pending /\ applied' = core.applied
  BY <1>0, <1>2, <1>3, PutBack
<1>5. PICK k \in {"idle", "none"} : /\ connState' = [connState EXCEPT ![held[u]] = k]
                                    /\ invalid' = [invalid EXCEPT ![held[u]] = (k = "none")]
  BY <1>0, <1>2, <1>3, PutBack
<1>6. /\ held' = [held EXCEPT ![u] = NoConn] /\ pc' = [pc EXCEPT ![u] = "ready"]
      /\ writing' = [writing EXCEPT ![u] = 0] /\ number' = [number EXCEPT ![u] = 0]
      /\ UNCHANGED <<poolVars, countVars, txVars, verdict>>
  BY DEF Return
<1>7. applied' \in [Writes -> Nat]
  BY <1>4 DEF CoreType
<1>8. QED
  BY <1>1, <1>4, <1>5, <1>6, <1>7, GivesBack

(* A write outside a transaction: whatever Core answers, the error that is *)
(* reported admits what it did.                                            *)
LEMMA WriteReturns ==
  ASSUME IInv, NEW u \in Callers, NEW a \in CoreStatement(Core, held[u], writing[u], "none"),
         NEW err \in Errors \ {"bad_conn"}, ReturnWrite(u, a.core, err),
         \/ UNCHANGED queried
         \/ queried' = queried \cup {writing[u]},
         a.resp \in {"ok", "malformed", "unknown"} => err \in {"nil", "unknown"} \/ writing[u] \in queried'
  PROVE  IInv'
<1>0. TypeOK /\ Parts /\ CallerInv(u) /\ pc[u] = "exec"
  BY DEF IInv, Parts, ReturnWrite
<1>1. held[u] \in Conns /\ slot # held[u]
  BY <1>0, HeldIsNotSlot DEF CallerInv
<1>2. writing[u] \in Writes /\ applied[writing[u]] = 0
  BY <1>0 DEF CallerInv, TypeOK, Writes
<1>3. /\ a.core \in CoreType /\ a.core.slot = slot /\ a.core.pending = pending
      /\ \/ a.core.applied = applied
         \/ /\ a.core.applied = [applied EXCEPT ![writing[u]] = @ + 1]
            /\ a.resp \in {"ok", "malformed", "unknown"}
  BY <1>0, <1>1, <1>2, StatementAlone
<1>4. Return(u, a.core, err) /\ report' = [report EXCEPT ![writing[u]] = err]
  BY DEF ReturnWrite
<1>5. report' \in [Writes -> Errors \cup {"none"}] /\ queried' \in SUBSET Writes /\ queried \subseteq queried'
  BY <1>0, <1>2, <1>4 DEF TypeOK
<1>6. ASSUME NEW w \in Writes
      PROVE  \/ a.core.applied[w] = applied[w] /\ report'[w] = report[w]
             \/ /\ w = writing[u] /\ a.core.applied[w] \in {0, 1}
                /\ a.core.applied[w] = 1 => report'[w] \in {"nil", "unknown"} \/ w \in queried'
  <2>1. CASE w # writing[u]
    BY <1>0, <1>2, <1>3, <1>4, <2>1 DEF TypeOK
  <2>2. CASE w = writing[u]
    <3>1. report'[w] = err
      BY <1>0, <1>4, <2>2 DEF TypeOK
    <3>2. a.core.applied[w] = 0 \/ (a.core.applied[w] = 1 /\ a.resp \in {"ok", "malformed", "unknown"})
      <4> DEFINE x == writing[u]
      <4>1. x \in Writes /\ applied[x] = 0 /\ applied \in [Writes -> Nat]
        BY <1>0, <1>2 DEF TypeOK
      <4>2. [applied EXCEPT ![x] = @ + 1][x] = 1
        BY <4>1
      <4>3. QED
        BY <1>3, <2>2, <4>1, <4>2
    <3>3. QED
      BY <2>2, <3>1, <3>2
  <2>3. QED
    BY <2>1, <2>2
<1>7. QED
  BY <1>0, <1>3, <1>4, <1>5, <1>6, ReturnStep

LEMMA DBExecStep ==
  ASSUME IInv, NEW u \in Callers, NEW s \in Statements, DBExec(u, s)
  PROVE  IInv'
<1>0. TypeOK /\ Parts /\ CallerInv(u) /\ pc[u] = "exec" /\ UNCHANGED queried
  BY DEF IInv, Parts, DBExec
<1>1. CASE ExecClass(s) = "refused" /\ ReturnWrite(u, Core, "definite")
  <2>1. Answer(Core, "rejected") \in CoreStatement(Core, held[u], writing[u], "none")
    BY DEF CoreStatement
  <2>2. Answer(Core, "rejected").core = Core /\ Answer(Core, "rejected").resp = "rejected"
    BY AnswerParts
  <2>3. "definite" \in Errors \ {"bad_conn"}
    BY DEF Errors
  <2>4. QED
    BY <1>0, <1>1, <2>1, <2>2, <2>3, WriteReturns
<1>2. CASE ExecClass(s) # "refused"
  <2>1. s.tail = "none"
    BY <1>2, NoTail
  <2>2. PICK a \in CoreStatement(Core, held[u], writing[u], "none") :
          \E err \in MutationResults(ExecClass(s), a.resp) : ReturnWrite(u, a.core, err)
    BY <1>2, <2>1 DEF DBExec
  <2>3. PICK err \in MutationResults(ExecClass(s), a.resp) : ReturnWrite(u, a.core, err)
    BY <2>2
  <2>4. /\ err \in {"nil", "unknown", "definite"}
        /\ a.resp \in {"ok", "malformed", "unknown"} => err \in {"nil", "unknown"}
    BY MutationErrors
  <2>5. err \in Errors \ {"bad_conn"}
    BY <2>4 DEF Errors
  <2>6. QED
    BY <1>0, <2>3, <2>4, <2>5, WriteReturns
<1>3. QED
  BY <1>1, <1>2 DEF DBExec

(* A call that reads and returns.                                          *)
LEMMA ReadReturns ==
  ASSUME IInv, NEW u \in Callers, pc[u] \in {"begin", "query"}, NEW core, core = Core,
         NEW err \in Errors \ {"bad_conn"}, Return(u, core, err), UNCHANGED <<report, queried>>
  PROVE  IInv'
<1>0. TypeOK
  BY DEF IInv
<1>1. core \in CoreType /\ core.slot = slot /\ core.pending = pending /\ core.applied = applied
  BY <1>0, CoreTyped
<1>2. report' \in [Writes -> Errors \cup {"none"}] /\ queried' \in SUBSET Writes /\ queried \subseteq queried'
  BY <1>0 DEF TypeOK
<1>3. \A w \in Writes : core.applied[w] = applied[w] /\ report'[w] = report[w]
  BY <1>1
<1>4. QED
  BY <1>1, <1>2, <1>3, ReturnStep

LEMMA DBQueryStep ==
  ASSUME IInv, NEW u \in Callers, NEW q, DBQuery(u, q) \/ Ping(u)
  PROVE  IInv'
<1>0. TypeOK /\ Parts /\ CallerInv(u)
  BY DEF IInv, Parts
<1>1. CASE DBQuery(u, q) /\ q = "returning"
  <2>1. PICK a \in CoreStatement(Core, held[u], writing[u], "none") : \E err \in QueryResults(a.resp) :
          ReturnWrite(u, a.core, err) /\ queried' = queried \cup {writing[u]}
    BY <1>1 DEF DBQuery
  <2>2. PICK err \in QueryResults(a.resp) :
          ReturnWrite(u, a.core, err) /\ queried' = queried \cup {writing[u]}
    BY <2>1
  <2>3. err \in Errors \ {"bad_conn"}
    BY QueryErrors DEF Errors
  <2>4. QED
    BY <2>2, <2>3, WriteReturns
<1>2. ASSUME NEW a \in CoreRead(Core, held[u]), NEW err \in Errors \ {"bad_conn"}, pc[u] = "query",
             Return(u, a.core, err), UNCHANGED <<report, queried>>
      PROVE  IInv'
  <2>1. held[u] \in Conns /\ slot # held[u]
    BY <1>0, <1>2, HeldIsNotSlot DEF CallerInv
  <2>2. a.core = Core
    BY <1>0, <2>1, ReadAnswer
  <2>3. QED
    BY <1>2, <2>2, ReadReturns
<1>3. CASE DBQuery(u, q) /\ q # "returning"
  <2>1. PICK a \in CoreRead(Core, held[u]) : \E err \in QueryResults(a.resp) :
          pc[u] = "query" /\ Return(u, a.core, err) /\ UNCHANGED <<report, queried>>
    BY <1>3 DEF DBQuery
  <2>2. PICK err \in QueryResults(a.resp) :
          pc[u] = "query" /\ Return(u, a.core, err) /\ UNCHANGED <<report, queried>>
    BY <2>1
  <2>3. err \in Errors \ {"bad_conn"}
    BY QueryErrors DEF Errors
  <2>4. QED
    BY <1>2, <2>2, <2>3
<1>4. CASE Ping(u)
  <2>1. PICK a \in CoreRead(Core, held[u]) :
          pc[u] = "query" /\ Return(u, a.core, SDKError(a.resp)) /\ UNCHANGED <<report, queried>>
    BY <1>4 DEF Ping
  <2>2. SDKError(a.resp) \in Errors \ {"bad_conn"}
    BY DEF SDKError, Errors
  <2>3. QED
    BY <1>2, <2>1, <2>2
<1>5. QED
  BY <1>1, <1>3, <1>4

----------------------------------------------------------------------------
(* BEGIN.                                                                  *)

(* What a BEGIN of a session that does not own the slot may find.          *)
LEMMA BeginAnswer ==
  ASSUME TypeOK, NEW c \in Conns, slot # c, NEW a \in CoreBegin(Core, c)
  PROVE  \/ a.core = Core /\ a.resp # "ok"
         \/ /\ slot = NoConn /\ a.core \in CoreType /\ a.core.slot = c
            /\ a.core.pending = pending /\ a.core.applied = applied
<1> DEFINE new == [Core EXCEPT !.slot = c]
<1>1. Core \in CoreType /\ Core.slot = slot /\ Core.pending = pending /\ Core.applied = applied
  BY CoreTyped
<1>2. RollbackIfOwned(Core, c) = Core
  BY <1>1, RolledBack
<1>3. new \in CoreType /\ new.slot = c /\ new.pending = pending /\ new.applied = applied
  BY <1>1 DEF CoreType
<1> HIDE DEF new
<1>4. \/ a \in {Answer(Core, r) : r \in {"undispatched", "rejected", "interrupted"}}
      \/ slot = NoConn /\ a \in {Answer(new, r) : r \in {"ok", "malformed"}}
  BY <1>1, <1>2 DEF CoreBegin, new
<1>5. QED
  BY <1>3, <1>4, AnswerParts

LEMMA BeginFailsStep ==
  ASSUME IInv, NEW u \in Callers, BeginFails(u)
  PROVE  IInv'
<1> DEFINE c == held[u]
<1>0. TypeOK /\ Parts /\ CallerInv(u) /\ SlotInv /\ pc[u] = "begin"
  BY DEF IInv, Parts, BeginFails
<1>1. c # NoConn /\ c \in Conns /\ slot # c
  BY <1>0, HeldIsNotSlot DEF CallerInv
<1>2. PICK a \in CoreBegin(Core, c) : PutConn(c, RollbackIfOwned(a.core, c), TRUE, FALSE)
  BY DEF BeginFails, BeginFailure
<1> DEFINE after == RollbackIfOwned(a.core, c)
<1>3. /\ after \in CoreType /\ after.slot # c
      /\ after.slot = slot /\ after.pending = pending /\ after.applied = applied
  <2>1. Core \in CoreType /\ Core.slot = slot /\ Core.pending = pending /\ Core.applied = applied
    BY <1>0, CoreTyped
  <2>2. CASE a.core = Core
    BY <1>1, <2>1, <2>2, RolledBack
  <2>3. CASE slot = NoConn /\ a.core \in CoreType /\ a.core.slot = c
             /\ a.core.pending = pending /\ a.core.applied = applied
    <3>1. pending = {}
      BY <1>0, <2>3 DEF SlotInv
    <3>2. QED
      BY <1>1, <2>3, <3>1, RolledBack
  <2>4. QED
    BY <1>0, <1>1, <2>2, <2>3, BeginAnswer
<1> HIDE DEF after
<1>4. PutConn(c, after, TRUE, FALSE)
  BY <1>2 DEF after
<1>5. slot' = slot /\ pending' = pending /\ applied' = applied
  BY <1>0, <1>1, <1>3, <1>4, PutBack
<1>6. PICK k \in {"idle", "none"} : /\ connState' = [connState EXCEPT ![c] = k]
                                    /\ invalid' = [invalid EXCEPT ![c] = (k = "none")]
  BY <1>0, <1>1, <1>3, <1>4, PutBack
<1>7. /\ held' = [held EXCEPT ![u] = NoConn] /\ pc' = [pc EXCEPT ![u] = "ready"]
      /\ number' = [number EXCEPT ![u] = 0]
      /\ UNCHANGED <<poolVars, countVars, txVars, verdict, report, queried>>
  BY DEF BeginFails, answerVars
<1>8. writing' = [writing EXCEPT ![u] = 0]
  <2>1. writing[u] = 0 /\ writing' = writing
    BY <1>0 DEF CallerInv, BeginFails
  <2>2. QED
    BY <1>0, <2>1 DEF TypeOK
<1>9. applied' \in [Writes -> Nat] /\ report' \in [Writes -> Errors \cup {"none"}] /\ queried' \in SUBSET Writes
  BY <1>0, <1>5, <1>7 DEF TypeOK
<1>10. QED
  BY <1>9, <1>8, <1>7, <1>6, <1>5, <1>1, GivesBack

(* BEGIN succeeds: the caller's connection becomes the transaction's, with *)
(* the slot and nothing pending in it.                                     *)
LEMMA BeginTxStep ==
  ASSUME IInv, NEW u \in Callers, BeginTx(u)
  PROVE  IInv'
<1> DEFINE c == held[u]
<1> DEFINE n == number[u]
<1>0. /\ TypeOK /\ Parts /\ PoolInv /\ HandleInv /\ SlotInv /\ pc[u] = "begin"
      /\ \A v \in Callers : CallerInv(v)
      /\ \A t \in TxIds : TxInv(t)
      /\ \A w \in Writes : WriteInv(w)
  BY DEF IInv, Parts, BeginTx
<1>1. c # NoConn /\ c \in Conns /\ slot # c /\ connState[c] = "used"
  BY <1>0, HeldIsNotSlot DEF CallerInv
<1>2. n \in TxIds /\ n # 0 /\ n <= begun /\ tx[n] = "none" /\ txConn[n] = NoConn
      /\ n \notin interrupted /\ verdict[n] = "none"
  <2>1. n \in 0 .. MaxTx /\ CallerInv(u)
    BY <1>0 DEF TypeOK
  <2>2. n # 0 /\ n <= begun /\ tx[n] = "none"
    BY <1>0, <2>1 DEF CallerInv
  <2>3. n \in TxIds
    BY <2>1, <2>2 DEF TxIds
  <2>4. TxInv(n)
    BY <1>0, <2>3
  <2>5. QED
    BY <2>2, <2>3, <2>4 DEF TxInv, Live
<1>3. PICK a \in CoreBegin(Core, c) : a.resp = "ok" /\ SetCore(a.core)
  BY DEF BeginTx
<1>4. slot = NoConn /\ slot' = c /\ pending' = pending /\ applied' = applied /\ pending = {}
  BY <1>0, <1>1, <1>3, BeginAnswer DEF SetCore, SlotInv
<1>5. /\ tx' = [tx EXCEPT ![n] = "open"] /\ txConn' = [txConn EXCEPT ![n] = c]
      /\ held' = [held EXCEPT ![u] = NoConn] /\ pc' = [pc EXCEPT ![u] = "tx"]
      /\ UNCHANGED <<shared, maxOpen, maxIdle, connState, invalid, number, writing, begun, started, txOf,
                     ended, interrupted, report, verdict, queried>>
  BY DEF BeginTx, poolVars, connVars, countVars, answerVars
<1> HIDE DEF c, n
<1>6. TypeOK'
  <2>1. tx' \in [TxIds -> {"none", "open", "committing", "rolling", "awaited", "closed"}]
        /\ txConn' \in [TxIds -> Conns \cup {NoConn}]
    BY <1>0, <1>1, <1>5 DEF TypeOK
  <2>2. held' \in [Callers -> Conns \cup {NoConn}]
        /\ pc' \in [Callers -> {"ready", "begin", "exec", "replay", "query", "tx"}]
    BY <1>0, <1>5 DEF TypeOK
  <2>3. QED
    BY <1>0, <1>1, <1>4, <1>5, <2>1, <2>2 DEF TypeOK
<1>7. PoolInv' /\ HandleInv'
  BY <1>0, <1>5 DEF PoolInv, HandleInv, OpenHandles
<1>8. /\ tx'[n] = "open" /\ txConn'[n] = c
      /\ \A t \in TxIds : t # n => tx'[t] = tx[t] /\ txConn'[t] = txConn[t]
      /\ held'[u] = NoConn /\ pc'[u] = "tx"
      /\ \A v \in Callers : v # u => held'[v] = held[v] /\ pc'[v] = pc[v]
  BY <1>0, <1>2, <1>5 DEF TypeOK
<1>9. ASSUME NEW v \in Callers PROVE CallerInv(v)'
  <2>1. CASE v = u
    BY <1>0, <1>2, <1>4, <1>5, <1>8, <2>1 DEF CallerInv, n
  <2>2. CASE v # u
    <3>1. CallerInv(v) /\ CallerInv(u) /\ number[v] \in 0 .. MaxTx
      BY <1>0 DEF TypeOK
    <3>2. number[v] # 0 => number[v] \in TxIds /\ number[v] # n
      BY <1>2, <2>2, <3>1 DEF CallerInv, TxIds, n
    <3>3. number[v] # 0 => tx'[number[v]] = tx[number[v]]
      BY <1>8, <3>2
    <3>4. \A x \in Callers \ {v} : held[v] # NoConn => held[v] # held'[x]
      BY <1>8, <3>1 DEF CallerInv
    <3>5. QED
      BY <1>4, <1>5, <1>8, <2>2, <3>1, <3>3, <3>4 DEF CallerInv
  <2>3. QED
    BY <2>1, <2>2
<1>10. ASSUME NEW t \in TxIds PROVE TxInv(t)'
  <2>1. \A v \in Callers : held'[v] # NoConn => v # u /\ held'[v] = held[v] /\ held[v] # c
    BY <1>0, <1>8 DEF CallerInv, c
  <2>2. \A s \in TxIds : txConn[s] # c
    BY <1>0, <1>1 DEF TxInv, c
  <2>3. CASE t = n
    BY <1>1, <1>2, <1>4, <1>5, <1>8, <2>1, <2>2, <2>3 DEF TxInv, Live
  <2>4. CASE t # n
    <3>1. TxInv(t)
      BY <1>0
    <3>2. Live(t)' <=> Live(t)
      BY <1>8, <2>4 DEF Live
    <3>3. Live(t) => txConn[t] # NoConn /\ slot # txConn[t] /\ t \in interrupted
      BY <1>4, <3>1 DEF TxInv
    <3>4. \A s \in TxIds \ {t} : txConn[t] # NoConn => txConn[t] # txConn'[s]
      BY <1>8, <2>2, <3>1 DEF TxInv
    <3>5. Live(t) => slot' # txConn[t]
      BY <1>4, <2>2
    <3>6. QED
      BY <3>5, <3>4, <3>3, <3>2, <3>1, <2>4, <2>1, <1>8, <1>5 DEF TxInv
  <2>5. QED
    BY <2>3, <2>4
<1>11. SlotInv'
  BY <1>1, <1>2, <1>4, <1>8 DEF SlotInv, SlotBelongsToItsTransaction, Live
<1>12. ASSUME NEW w \in Writes PROVE WriteInv(w)'
  <2>1. WriteInv(w) /\ txOf[w] \in 0 .. MaxTx
    BY <1>0 DEF TypeOK
  <2>2. txOf[w] > 0 => txOf[w] \in TxIds /\ txOf[w] # n
    BY <1>2, <2>1 DEF WriteInv, TxIds
  <2>3. txOf[w] > 0 => tx'[txOf[w]] = tx[txOf[w]]
    BY <1>8, <2>2
  <2>4. QED
    BY <1>4, <1>5, <2>1, <2>3 DEF WriteInv, Reported
<1>13. QED
  BY <1>6, <1>7, <1>9, <1>10, <1>11, <1>12 DEF IInv, Parts

----------------------------------------------------------------------------
(* A connection is given to a caller.                                      *)
LEMMA GrantedStep ==
  ASSUME IInv, NEW u \in Callers, NEW c \in Conns, NEW call \in {"begin", "exec", "query"},
         connState[c] # "used", invalid' = [invalid EXCEPT ![c] = FALSE], Granted(u, c, call)
  PROVE  TypeOK' /\ Parts'
<1>0. /\ TypeOK /\ Parts /\ HandleInv /\ SlotInv
      /\ \A v \in Callers : CallerInv(v)
      /\ \A t \in TxIds : TxInv(t)
      /\ \A w \in Writes : WriteInv(w)
  BY DEF IInv, Parts
<1>1. c # NoConn /\ pc[u] = "ready" /\ held[u] = NoConn /\ number[u] = 0 /\ writing[u] = 0
  BY <1>0, ConnAssumption DEF Granted, CallerInv
<1>2. /\ connState' = [connState EXCEPT ![c] = "used"] /\ held' = [held EXCEPT ![u] = c]
      /\ pc' = [pc EXCEPT ![u] = call]
      /\ UNCHANGED <<shared, maxOpen, maxIdle, slot, pending, applied, txOf, tx, txConn, ended, interrupted,
                     report, verdict, queried>>
  BY DEF Granted, poolVars, coreVars, txVars, answerVars
<1>3. \/ /\ call = "begin" /\ begun < MaxTx /\ begun' = begun + 1
         /\ number' = [number EXCEPT ![u] = begun + 1] /\ UNCHANGED <<started, writing>>
      \/ /\ call = "exec" /\ started < MaxWrites /\ started' = started + 1
         /\ writing' = [writing EXCEPT ![u] = started + 1] /\ UNCHANGED <<begun, number>>
      \/ call = "query" /\ UNCHANGED <<begun, number, started, writing>>
  BY <1>1 DEF Granted
<1>4. begun \in Nat /\ started \in Nat /\ begun' \in 0 .. MaxTx /\ started' \in 0 .. MaxWrites
      /\ begun <= begun' /\ started <= started'
  BY <1>0, <1>3, BoundAssumption DEF TypeOK
<1>5. TypeOK'
  <2>1. connState' \in [Conns -> {"none", "idle", "used"}] /\ invalid' \in [Conns -> BOOLEAN]
        /\ held' \in [Callers -> Conns \cup {NoConn}]
        /\ pc' \in [Callers -> {"ready", "begin", "exec", "replay", "query", "tx"}]
    BY <1>0, <1>2 DEF TypeOK
  <2>2. number' \in [Callers -> 0 .. MaxTx] /\ writing' \in [Callers -> 0 .. MaxWrites]
    BY <1>0, <1>3, BoundAssumption DEF TypeOK
  <2>3. QED
    BY <1>0, <1>2, <1>4, <2>1, <2>2 DEF TypeOK
<1>6. HandleInv'
  BY <1>0, <1>2 DEF HandleInv, TypeOK
<1>7. /\ held'[u] = c /\ pc'[u] = call
      /\ \A v \in Callers : v # u => /\ held'[v] = held[v] /\ pc'[v] = pc[v]
                                    /\ number'[v] = number[v] /\ writing'[v] = writing[v]
      /\ connState'[c] = "used" /\ \A d \in Conns : d # c => connState'[d] = connState[d]
  BY <1>0, <1>2, <1>3 DEF TypeOK
<1>8. \/ call = "begin" /\ number'[u] = begun + 1 /\ begun' = begun + 1 /\ begun < MaxTx /\ writing'[u] = 0
      \/ call = "exec" /\ writing'[u] = started + 1 /\ started' = started + 1 /\ started < MaxWrites /\ number'[u] = 0
      \/ call = "query" /\ number'[u] = 0 /\ writing'[u] = 0
  BY <1>0, <1>1, <1>3 DEF TypeOK
<1>9. \A v \in Callers : held[v] # c /\ (held[v] # NoConn => held[v] \in Conns)
  BY <1>0, <1>1 DEF CallerInv, TypeOK
<1>10. ASSUME NEW v \in Callers PROVE CallerInv(v)'
  <2>1. CallerInv(v) /\ number[v] \in Nat /\ writing[v] \in Nat
        /\ \A x \in Callers : number[x] \in Nat /\ writing[x] \in Nat /\ number[x] <= begun /\ writing[x] <= started
    BY <1>0 DEF CallerInv, TypeOK
  <2>2. CASE v = u
    <3>1. call = "begin" => tx[begun + 1] = "none"
      <4>1. call = "begin" => begun + 1 \in TxIds
        BY <1>4, <1>8, BoundAssumption DEF TxIds
      <4>2. QED
        BY <1>0, <1>4, <4>1 DEF TxInv
    <3>2. call = "exec" => txOf[started + 1] = 0 /\ report[started + 1] = "none" /\ applied[started + 1] = 0
      <4>1. call = "exec" => started + 1 \in Writes
        BY <1>4, <1>8, BoundAssumption DEF Writes
      <4>2. QED
        BY <1>0, <1>4, <4>1 DEF WriteInv
    <3>3. \A x \in Callers \ {u} : /\ held'[x] # c
                                   /\ number'[u] # 0 => number'[u] # number'[x]
                                   /\ writing'[u] # 0 => writing'[u] # writing'[x]
      BY <1>4, <1>7, <1>8, <1>9, <2>1
    <3>4. number'[u] <= begun' /\ writing'[u] <= started'
      BY <1>4, <1>8
    <3>5. (call = "begin" <=> number'[u] # 0) /\ (call = "exec" <=> writing'[u] # 0)
      BY <1>4, <1>8
    <3>6. /\ call = "begin" => number'[u] = begun + 1
          /\ call = "exec" => writing'[u] = started + 1
      BY <1>8
    <3>7. UNCHANGED <<tx, txOf, report, applied>>
      BY <1>2
    <3>8. held'[u] = c /\ pc'[u] = call /\ connState'[c] = "used"
      BY <1>7
    <3>9. CallerInv(u)'
      BY <3>8, <3>7, <3>6, <3>5, <3>4, <3>3, <3>2, <3>1, <1>1 DEF CallerInv
    <3>10. QED
      BY <2>2, <3>9
  <2>3. CASE v # u
    <3>1. held[v] # NoConn => connState'[held[v]] = connState[held[v]]
      BY <1>7, <1>9
    <3>2. \A x \in Callers \ {v} : /\ held[v] # NoConn => held[v] # held'[x]
                                   /\ number[v] # 0 => number[v] # number'[x]
                                   /\ writing[v] # 0 => writing[v] # writing'[x]
      BY <1>4, <1>7, <1>8, <1>9, <2>1, <2>3 DEF CallerInv
    <3>3. number[v] <= begun' /\ writing[v] <= started'
      BY <1>4, <1>8, <1>3, <2>1
    <3>4. UNCHANGED <<tx, txOf, report, applied>>
      BY <1>2
    <3>5. held'[v] = held[v] /\ pc'[v] = pc[v] /\ number'[v] = number[v] /\ writing'[v] = writing[v]
      BY <1>7, <2>3
    <3>6. CallerInv(v)
      BY <2>1
    <3>7. QED
      BY <3>6, <3>5, <3>4, <3>3, <3>2, <3>1 DEF CallerInv
  <2>4. QED
    BY <2>2, <2>3
<1>11. ASSUME NEW t \in TxIds PROVE TxInv(t)'
  <2>0. TxInv(t) /\ t \in Nat
    BY <1>0 DEF TxIds
  <2>1. TxInv(t) /\ t \in Nat /\ (txConn[t] # NoConn => txConn[t] \in Conns)
    BY <1>0, <2>0 DEF TypeOK
  <2>2. txConn[t] # c
    BY <1>0, <1>1, <2>1 DEF TxInv
  <2>3. txConn[t] # NoConn => connState'[txConn[t]] = connState[txConn[t]]
    BY <1>7, <2>1, <2>2
  <2>4. \A v \in Callers : held'[v] # NoConn => held'[v] # txConn[t]
    BY <1>7, <2>1, <2>2 DEF TxInv
  <2>5. tx[t] # "none" => t <= begun'
    BY <1>4, <2>1 DEF TxInv
  <2>6. QED
    BY <1>2, <2>1, <2>3, <2>4, <2>5 DEF TxInv, Live
<1>12. SlotInv'
  BY <1>0, <1>2 DEF SlotInv, SlotBelongsToItsTransaction, Live
<1>13. ASSUME NEW w \in Writes PROVE WriteInv(w)'
  <2>1. WriteInv(w) /\ w \in Nat /\ (w > started' => w > started)
    BY <1>0, <1>4 DEF Writes
  <2>2. QED
    BY <1>2, <2>1 DEF WriteInv, Reported
<1>14. QED
  BY <1>5, <1>6, <1>10, <1>11, <1>12, <1>13 DEF Parts

LEMMA AcquireStep ==
  ASSUME IInv, NEW u \in Callers, NEW c \in Conns, NEW call \in {"begin", "exec", "query"},
         Connect(u, c, call) \/ Reuse(u, c, call)
  PROVE  IInv'
<1>0. TypeOK /\ Parts /\ HandleInv /\ PoolInv
  BY DEF IInv, Parts
<1>1. CASE Connect(u, c, call)
  <2>1. connState[c] = "none" /\ invalid' = [invalid EXCEPT ![c] = FALSE] /\ Granted(u, c, call)
        /\ Cardinality({d \in Conns : connState[d] # "none"}) < maxOpen
    BY <1>1 DEF Connect
  <2>2. TypeOK' /\ Parts'
    BY <2>1, GrantedStep
  <2>3. {d \in Conns : connState[d] # "none"} = OpenHandles
    BY <1>0 DEF OpenHandles, HandleInv
  <2>4. OpenHandles' = OpenHandles \cup {c} /\ c \notin OpenHandles
    BY <1>0, <2>1 DEF OpenHandles, HandleInv, TypeOK
  <2>5. IsFiniteSet(OpenHandles') /\ Cardinality(OpenHandles') = Cardinality(OpenHandles) + 1
    BY <1>0, <2>4, FS_AddElement DEF PoolInv
  <2>6. Cardinality(OpenHandles) \in Nat
    BY <1>0, FS_CardinalityType DEF PoolInv
  <2>7. UNCHANGED <<shared, maxOpen>>
    BY <2>1 DEF Granted, poolVars
  <2>8. PoolInv'
    <3>1. Cardinality(OpenHandles) < maxOpen
      BY <2>1, <2>3
    <3>2. Cardinality(OpenHandles') <= maxOpen
      BY <1>0, <2>5, <2>6, <3>1 DEF TypeOK
    <3>3. QED
      BY <1>0, <2>5, <2>7, <3>2 DEF PoolInv
  <2>9. QED
    BY <2>2, <2>8 DEF IInv
<1>2. CASE Reuse(u, c, call)
  <2>1. connState[c] = "idle" /\ invalid' = invalid /\ Granted(u, c, call)
    BY <1>2 DEF Reuse
  <2>2. invalid[c] = FALSE
    BY <1>0, <2>1 DEF HandleInv, TypeOK
  <2>3. invalid' = [invalid EXCEPT ![c] = FALSE]
    BY <1>0, <2>1, <2>2 DEF TypeOK
  <2>4. TypeOK' /\ Parts'
    BY <2>1, <2>3, GrantedStep
  <2>5. OpenHandles' = OpenHandles /\ UNCHANGED <<shared, maxOpen>>
    BY <2>1 DEF OpenHandles, Granted, poolVars
  <2>6. QED
    BY <1>0, <2>4, <2>5, PoolKept DEF IInv
<1>3. QED
  BY <1>1, <1>2

----------------------------------------------------------------------------
(* Driver.Open, with whatever the configuration asks for.                  *)
LEMMA OpenStep ==
  ASSUME IInv, NEW s \in BOOLEAN, NEW r \in PoolRequests, DriverOpen(s, r)
  PROVE  IInv'
<1> DEFINE open == Requested(r.openOverride, r.nodeOpen)
<1> DEFINE idle == Requested(r.idleOverride, r.nodeIdle)
<1>0. TypeOK /\ Parts /\ PoolInv
  BY DEF IInv
<1>1. /\ r.openOverride \in Seq(Int) /\ r.nodeOpen \in Int
      /\ r.idleOverride \in Seq(Int) /\ r.nodeIdle \in Int
  BY PoolAssumption
<1>2. \A o \in Seq(Int) : o # <<>> => o[1] \in Int
  OBVIOUS
<1>3. open \in Int /\ idle \in Int
  BY <1>1, <1>2 DEF Requested
<1>4. maxOpen = 0 /\ shared' = s /\ maxOpen' = PoolLimit(s, open) /\ maxIdle' = IdleLimit(maxOpen', idle)
  BY DEF DriverOpen
<1> HIDE DEF open, idle
<1>5. maxOpen' \in Nat /\ maxOpen' <= (IF s THEN 4 ELSE 1)
  BY <1>3, <1>4 DEF PoolLimit
<1>6. maxIdle' \in Nat
  BY <1>3, <1>4, <1>5 DEF IdleLimit
<1>7. UNCHANGED <<connState, invalid, slot, pending, applied, pc, held, number, writing, begun, started, txOf,
                  tx, txConn, ended, interrupted, report, verdict, queried>>
  BY DEF DriverOpen, connVars, coreVars, callerVars, countVars, txVars, answerVars
<1>8. TypeOK'
  BY <1>0, <1>4, <1>5, <1>6, <1>7 DEF TypeOK
<1>9. PoolInv'
  <2>1. OpenHandles' = OpenHandles
    BY <1>7 DEF OpenHandles
  <2>2. Cardinality(OpenHandles) \in Nat /\ Cardinality(OpenHandles) <= 0
    BY <1>0, <1>4, FS_CardinalityType DEF PoolInv
  <2>3. Cardinality(OpenHandles) <= maxOpen'
    BY <1>5, <2>2
  <2>4. QED
    BY <1>0, <1>4, <1>5, <2>1, <2>3 DEF PoolInv
<1>10. Parts'
  <2>1. HandleInv'
    BY <1>0, <1>7 DEF Parts, HandleInv
  <2>2. ASSUME NEW u \in Callers PROVE CallerInv(u)'
    BY <1>0, <1>7 DEF Parts, CallerInv
  <2>3. ASSUME NEW t \in TxIds PROVE TxInv(t)'
    BY <1>0, <1>7 DEF Parts, TxInv, Live
  <2>4. SlotInv'
    BY <1>0, <1>7 DEF Parts, SlotInv, SlotBelongsToItsTransaction, Live
  <2>5. ASSUME NEW w \in Writes PROVE WriteInv(w)'
    BY <1>0, <1>7 DEF Parts, WriteInv, Reported
  <2>6. QED
    BY <2>5, <2>4, <2>3, <2>2, <2>1 DEF Parts
<1>11. QED
  BY <1>8, <1>9, <1>10 DEF IInv

----------------------------------------------------------------------------
(* Steps inside database/sql: a live transaction goes from one of its      *)
(* states to another, its context ends, or its caller leaves it.           *)
LEMMA BookkeepingStep ==
  ASSUME IInv, tx' \in [TxIds -> {"none", "open", "committing", "rolling", "awaited", "closed"}],
         \A t \in TxIds : tx'[t] = tx[t] \/ (Live(t) /\ Live(t)'),
         ended' \in [TxIds -> BOOLEAN],
         UNCHANGED <<poolVars, connVars, coreVars, held, writing, countVars, txConn, interrupted, answerVars>>,
         \/ UNCHANGED <<pc, number>>
         \/ \E u \in Callers : /\ pc[u] = "tx" /\ pc' = [pc EXCEPT ![u] = "ready"]
                              /\ number' = [number EXCEPT ![u] = 0]
  PROVE  IInv'
<1>0. /\ TypeOK /\ Parts /\ PoolInv /\ HandleInv /\ SlotInv
      /\ \A v \in Callers : CallerInv(v)
      /\ \A t \in TxIds : TxInv(t)
      /\ \A w \in Writes : WriteInv(w)
  BY DEF IInv, Parts
<1>1. UNCHANGED <<shared, maxOpen, maxIdle, connState, invalid, slot, pending, applied, held, writing, begun,
                  started, txOf, txConn, interrupted, report, verdict, queried>>
  BY DEF poolVars, connVars, coreVars, countVars, answerVars
<1>2. \A t \in TxIds : /\ Live(t)' <=> Live(t)
                       /\ tx'[t] = "none" <=> tx[t] = "none"
                       /\ tx'[t] = "closed" <=> tx[t] = "closed"
  BY DEF Live
<1>3. \A v \in Callers :
        \/ pc'[v] = pc[v] /\ number'[v] = number[v]
        \/ pc[v] = "tx" /\ pc'[v] = "ready" /\ number'[v] = 0
  BY <1>0 DEF TypeOK
<1>4. TypeOK'
  <2>1. /\ pc' \in [Callers -> {"ready", "begin", "exec", "replay", "query", "tx"}]
        /\ number' \in [Callers -> 0 .. MaxTx]
    BY <1>0, BoundAssumption DEF TypeOK
  <2>2. QED
    BY <1>0, <1>1, <2>1 DEF TypeOK
<1>5. PoolInv' /\ HandleInv'
  BY <1>0, <1>1 DEF PoolInv, HandleInv, OpenHandles
<1>6. ASSUME NEW v \in Callers PROVE CallerInv(v)'
  <2>1. CallerInv(v) /\ number[v] \in 0 .. MaxTx /\ begun \in Nat
    BY <1>0 DEF TypeOK
  <2>2. number[v] # 0 => number[v] \in TxIds
    BY <2>1 DEF TxIds
  <2>3. number[v] # 0 => (tx'[number[v]] = "none" <=> tx[number[v]] = "none")
    BY <1>2, <2>2
  <2>4. \A x \in Callers \ {v} : number'[v] # 0 => number'[v] # number'[x]
    BY <1>3, <2>1 DEF CallerInv
  <2>5. \/ pc'[v] = pc[v] /\ number'[v] = number[v]
        \/ pc[v] = "tx" /\ pc'[v] = "ready" /\ number'[v] = 0
    BY <1>3
  <2>6. QED
    BY <1>1, <2>1, <2>3, <2>4, <2>5 DEF CallerInv
<1>7. ASSUME NEW t \in TxIds PROVE TxInv(t)'
  <2>1. TxInv(t) /\ (Live(t)' <=> Live(t))
        /\ (tx'[t] = "none" <=> tx[t] = "none") /\ (tx'[t] = "closed" <=> tx[t] = "closed")
    BY <1>0, <1>2
  <2>2. QED
    BY <1>1, <2>1 DEF TxInv
<1>8. SlotInv'
  BY <1>0, <1>1, <1>2 DEF SlotInv, SlotBelongsToItsTransaction
<1>9. ASSUME NEW w \in Writes PROVE WriteInv(w)'
  <2>1. WriteInv(w) /\ txOf[w] \in 0 .. MaxTx
    BY <1>0 DEF TypeOK
  <2>2. txOf[w] > 0 => txOf[w] \in TxIds
    BY <2>1 DEF TxIds
  <2>3. txOf[w] > 0 => /\ tx'[txOf[w]] = "none" <=> tx[txOf[w]] = "none"
                       /\ tx'[txOf[w]] = "closed" <=> tx[txOf[w]] = "closed"
    BY <1>2, <2>2
  <2>4. QED
    BY <1>1, <2>1, <2>3 DEF WriteInv, Reported
<1>10. QED
  BY <1>9, <1>8, <1>7, <1>6, <1>5, <1>4 DEF IInv, Parts

LEMMA ContextStep ==
  ASSUME IInv, NEW t \in TxIds, ContextEnds(t) \/ AwaitDone(t)
  PROVE  IInv'
<1>0. TypeOK
  BY DEF IInv
<1>1. CASE ContextEnds(t)
  BY <1>0, <1>1, BookkeepingStep DEF ContextEnds, TypeOK, callerVars
<1>2. CASE AwaitDone(t)
  BY <1>0, <1>2, BookkeepingStep DEF AwaitDone, TypeOK, callerVars, Live
<1>3. QED
  BY <1>1, <1>2

LEMMA SqlTxStep ==
  ASSUME IInv, NEW u \in Callers, TxCommit(u) \/ TxRollback(u) \/ TxDone(u)
  PROVE  IInv'
<1>0. TypeOK
  BY DEF IInv
<1>1. CASE TxCommit(u) \/ TxRollback(u)
  <2>1. PICK k \in {"committing", "rolling"} : tx' = [tx EXCEPT ![number[u]] = k]
    BY <1>1 DEF TxCommit, TxRollback
  <2>2. tx[number[u]] = "open"
    BY <1>1 DEF TxCommit, TxRollback, InTx
  <2>3. /\ tx' \in [TxIds -> {"none", "open", "committing", "rolling", "awaited", "closed"}]
        /\ \A s \in TxIds : tx'[s] = tx[s] \/ (Live(s) /\ Live(s)')
    BY <1>0, <2>1, <2>2 DEF TypeOK, Live
  <2>4. UNCHANGED <<poolVars, connVars, coreVars, callerVars, countVars, txConn, ended, interrupted, answerVars>>
    BY <1>1 DEF TxCommit, TxRollback
  <2>5. QED
    BY <1>0, <2>3, <2>4, BookkeepingStep DEF TypeOK, callerVars
<1>2. CASE TxDone(u)
  BY <1>0, <1>2, BookkeepingStep DEF TxDone, TypeOK, txVars
<1>3. QED
  BY <1>1, <1>2

----------------------------------------------------------------------------
(* Statements of an open transaction.                                      *)

(* The transaction a caller is in.                                         *)
LEMMA OpenTx ==
  ASSUME IInv, NEW u \in Callers, InTx(u)
  PROVE  /\ number[u] \in TxIds /\ Live(number[u]) /\ tx[number[u]] = "open"
         /\ txConn[number[u]] \in Conns /\ verdict[number[u]] = "none"
         /\ slot # txConn[number[u]] <=> number[u] \in interrupted
<1>1. CallerInv(u) /\ number[u] \in 0 .. MaxTx /\ pc[u] = "tx" /\ tx[number[u]] = "open"
  BY DEF IInv, Parts, TypeOK, InTx
<1>2. number[u] \in TxIds
  BY <1>1 DEF CallerInv, TxIds
<1>3. TxInv(number[u]) /\ Live(number[u])
  BY <1>1, <1>2 DEF IInv, Parts, Live
<1>4. txConn[number[u]] \in Conns
  BY <1>2, <1>3 DEF TxInv, IInv, TypeOK
<1>5. QED
  BY <1>1, <1>2, <1>3, <1>4 DEF TxInv

(* What Core may do for it: nothing, roll it back, add write w to what is  *)
(* pending, or apply w by itself once the transaction is lost.             *)
NothingDone == UNCHANGED <<slot, pending, applied, interrupted>>

TxLost(t) ==
  /\ slot = txConn[t] /\ slot' = NoConn /\ pending' = {} /\ applied' = applied
  /\ interrupted' = interrupted \cup {t}

WriteAdded(t, w) ==
  slot = txConn[t] /\ pending' = pending \cup {w} /\ UNCHANGED <<slot, applied, interrupted>>

WriteAlone(t, w) ==
  /\ slot = NoConn /\ applied' = [applied EXCEPT ![w] = @ + 1]
  /\ UNCHANGED <<slot, pending, interrupted>>

(* The callers and the transactions do not notice which it was.            *)
LEMMA InTxKept ==
  ASSUME IInv, NEW u \in Callers, InTx(u), NEW w \in Nat, w \in Writes => w > started,
         \/ NothingDone \/ TxLost(number[u])
         \/ w \in Writes /\ (WriteAdded(number[u], w) \/ WriteAlone(number[u], w)),
         UNCHANGED <<poolVars, connVars, callerVars, begun, tx, txConn, ended, verdict>>,
         started' \in 0 .. MaxWrites, started' >= started,
         txOf' \in [Writes -> 0 .. MaxTx], report' \in [Writes -> Errors \cup {"none"}],
         queried' \in SUBSET Writes,
         \A x \in Writes \ {w} : txOf'[x] = txOf[x] /\ report'[x] = report[x],
         txOf'[w] # number[u] => pending' \subseteq pending
  PROVE  /\ TypeOK' /\ PoolInv' /\ HandleInv' /\ SlotInv'
         /\ \A v \in Callers : CallerInv(v)'
         /\ \A t \in TxIds : TxInv(t)'
<1> DEFINE n == number[u]
<1>0. /\ TypeOK /\ Parts /\ PoolInv /\ HandleInv /\ SlotInv
      /\ \A v \in Callers : CallerInv(v)
      /\ \A t \in TxIds : TxInv(t)
      /\ \A x \in Writes : WriteInv(x)
  BY DEF IInv, Parts
<1>1. /\ n \in TxIds /\ Live(n) /\ tx[n] = "open" /\ txConn[n] \in Conns /\ verdict[n] = "none"
      /\ slot # txConn[n] <=> n \in interrupted
  BY OpenTx
<1>2. UNCHANGED <<shared, maxOpen, maxIdle, connState, invalid, pc, held, number, writing, begun, tx, txConn,
                  ended, verdict>>
  BY DEF poolVars, connVars, callerVars
<1> HIDE DEF n
<1>3. /\ slot' \in Conns \cup {NoConn} /\ pending' \in SUBSET Writes /\ applied' \in [Writes -> Nat]
      /\ interrupted' \in SUBSET TxIds
  <2>1. CASE NothingDone
    BY <1>0, <2>1 DEF NothingDone, TypeOK
  <2>2. CASE TxLost(n)
    BY <1>0, <1>1, <2>2 DEF TxLost, TypeOK
  <2>3. CASE w \in Writes /\ WriteAdded(n, w)
    BY <1>0, <2>3 DEF WriteAdded, TypeOK
  <2>4. CASE w \in Writes /\ WriteAlone(n, w)
    BY <1>0, <2>4 DEF WriteAlone, TypeOK
  <2>5. QED
    BY <2>1, <2>2, <2>3, <2>4 DEF n
<1>4. TypeOK'
  BY <1>0, <1>2, <1>3 DEF TypeOK
<1>5. PoolInv' /\ HandleInv'
  BY <1>0, <1>2 DEF PoolInv, HandleInv, OpenHandles
<1>6. \A x \in Writes \ {w} : applied'[x] = applied[x]
  BY <1>0, <1>1 DEF NothingDone, TxLost, WriteAdded, WriteAlone, TypeOK, n
<1>7. ASSUME NEW v \in Callers PROVE CallerInv(v)'
  <2>1. CallerInv(v) /\ writing[v] \in 0 .. MaxWrites /\ started \in Nat /\ started' \in Nat
    BY <1>0 DEF TypeOK
  <2>2. pc[v] = "exec" => writing[v] \in Writes \ {w}
    BY <2>1 DEF CallerInv, Writes
  <2>3. pc[v] = "exec" => /\ txOf'[writing[v]] = txOf[writing[v]]
                          /\ report'[writing[v]] = report[writing[v]]
                          /\ applied'[writing[v]] = applied[writing[v]]
    BY <1>6, <2>2
  <2>4. writing[v] <= started'
    BY <2>1 DEF CallerInv
  <2>5. QED
    BY <1>2, <2>1, <2>3, <2>4 DEF CallerInv
<1>8. ASSUME NEW t \in TxIds PROVE TxInv(t)'
  <2>1. TxInv(t) /\ TxInv(n) /\ (Live(t)' <=> Live(t))
    BY <1>0, <1>1, <1>2 DEF Live
  <2>2. slot' = slot /\ interrupted' = interrupted => TxInv(t)'
    BY <1>2, <2>1 DEF TxInv
  <2>3. CASE TxLost(n)
    <3>1. t # n => (Live(t) => t \in interrupted)
      BY <1>1, <2>1, <2>3 DEF TxInv, TxLost
    <3>2. Live(t) => t \in interrupted' /\ slot' # txConn[t]
      BY <1>1, <2>1, <2>3, <3>1 DEF TxLost, TxInv
    <3>3. t \in interrupted' => tx[t] # "none" /\ verdict[t] # "nil"
      BY <1>1, <2>1, <2>3 DEF TxLost, TxInv
    <3>4. QED
      BY <1>2, <2>1, <3>2, <3>3 DEF TxInv
  <2>4. QED
    BY <2>2, <2>3 DEF NothingDone, WriteAdded, WriteAlone, n
<1>9. SlotInv'
  <2>1. slot' = NoConn => pending' = {}
    BY <1>0, <1>1, ConnAssumption DEF SlotInv, NothingDone, TxLost, WriteAdded, WriteAlone, n
  <2>2. CASE slot' # NoConn
    <3>1. slot' = slot /\ slot # NoConn
      BY <2>2, <1>0 DEF NothingDone, TxLost, WriteAdded, WriteAlone
    <3>2. PICK t \in TxIds : Live(t) /\ txConn[t] = slot /\ \A x \in pending : txOf[x] = t
      BY <1>0, <3>1 DEF SlotInv, SlotBelongsToItsTransaction
    <3>3. w \notin pending
      BY <1>0 DEF WriteInv, TypeOK
    <3>4. Live(t)' /\ txConn'[t] = slot'
      BY <1>2, <3>1, <3>2 DEF Live
    <3>5. \A x \in pending : x \in Writes \ {w} /\ txOf'[x] = t
      BY <1>0, <3>2, <3>3 DEF TypeOK
    <3>6. CASE pending' \subseteq pending
      BY <3>4, <3>5, <3>6, <2>1 DEF SlotInv, SlotBelongsToItsTransaction
    <3>7. CASE WriteAdded(n, w) /\ txOf'[w] = n
      <4>1. TxInv(t) /\ TxInv(n) /\ txConn[t] = txConn[n] /\ txConn[t] # NoConn
        BY <1>0, <1>1, <3>1, <3>2, <3>7 DEF WriteAdded
      <4>2. t = n
        BY <1>1, <4>1 DEF TxInv
      <4>3. \A x \in pending' : txOf'[x] = t
        BY <3>5, <3>7, <4>2 DEF WriteAdded
      <4>4. QED
        BY <2>1, <3>4, <4>3 DEF SlotInv, SlotBelongsToItsTransaction
    <3>8. QED
      BY <3>1, <3>6, <3>7, ConnAssumption DEF NothingDone, TxLost, WriteAdded, WriteAlone, n
  <2>3. QED
    BY <2>1, <2>2 DEF SlotInv, SlotBelongsToItsTransaction
<1>10. QED
  BY <1>4, <1>5, <1>7, <1>8, <1>9

(* What is pending belongs to the transaction that has the slot.           *)
LEMMA PendingOfTx ==
  ASSUME TypeOK, SlotInv, \A t \in TxIds : TxInv(t), NEW n \in TxIds, Live(n), slot = txConn[n],
         NEW w \in pending
  PROVE  txOf[w] = n
<1>1. slot # NoConn /\ TxInv(n)
  BY DEF TxInv
<1>2. PICK t \in TxIds : txConn[t] = slot /\ \A x \in pending : txOf[x] = t
  BY <1>1 DEF SlotInv, SlotBelongsToItsTransaction
<1>3. QED
  BY <1>1, <1>2 DEF TxInv

(* A new write of an open transaction, and what may be said of it.         *)
LEMMA TxWriteStep ==
  ASSUME IInv, NEW u \in Callers, InTx(u), started < MaxWrites, started' = started + 1,
         txOf' = [txOf EXCEPT ![started + 1] = number[u]],
         NEW err \in Errors, report' = [report EXCEPT ![started + 1] = err],
         \/ UNCHANGED queried
         \/ queried' = queried \cup {started + 1},
         \/ NothingDone /\ err # "nil"
         \/ TxLost(number[u]) /\ err # "nil"
         \/ WriteAdded(number[u], started + 1)
         \/ /\ WriteAlone(number[u], started + 1)
            /\ err \in {"nil", "unknown"} \/ started + 1 \in queried',
         UNCHANGED <<poolVars, connVars, callerVars, begun, tx, txConn, ended, verdict>>
  PROVE  IInv'
<1> DEFINE n == number[u]
<1> DEFINE w0 == started + 1
<1>0. /\ TypeOK /\ Parts /\ SlotInv
      /\ \A t \in TxIds : TxInv(t)
      /\ \A w \in Writes : WriteInv(w)
  BY DEF IInv, Parts
<1>1. /\ n \in TxIds /\ Live(n) /\ tx[n] = "open" /\ txConn[n] \in Conns /\ verdict[n] = "none"
      /\ slot # txConn[n] <=> n \in interrupted
  BY OpenTx
<1>2. w0 \in Writes /\ w0 \in Nat /\ w0 > started /\ started \in Nat
  BY <1>0, BoundAssumption DEF TypeOK, Writes
<1>3. /\ txOf' \in [Writes -> 0 .. MaxTx] /\ report' \in [Writes -> Errors \cup {"none"}]
      /\ queried' \in SUBSET Writes /\ queried \subseteq queried'
      /\ \A w \in Writes \ {w0} : txOf'[w] = txOf[w] /\ report'[w] = report[w] /\ (w \in queried' <=> w \in queried)
      /\ txOf'[w0] = n /\ report'[w0] = err
  BY <1>0, <1>1, <1>2 DEF TypeOK, TxIds
<1>4. started' \in 0 .. MaxWrites /\ started' >= started
  BY <1>2, BoundAssumption
<1>5. UNCHANGED <<tx, txConn, verdict>>
  OBVIOUS
<1>6. applied[w0] = 0 /\ w0 \notin pending /\ txOf[w0] = 0
  BY <1>0, <1>2 DEF WriteInv
<1> HIDE DEF n, w0
<1>7. /\ TypeOK' /\ PoolInv' /\ HandleInv' /\ SlotInv'
      /\ \A v \in Callers : CallerInv(v)'
      /\ \A t \in TxIds : TxInv(t)'
  <2>1. NothingDone \/ TxLost(number[u])
        \/ (w0 \in Writes /\ (WriteAdded(number[u], w0) \/ WriteAlone(number[u], w0)))
    BY <1>2 DEF w0
  <2>2. txOf'[w0] = number[u]
    BY <1>3 DEF n
  <2>3. \A w \in Writes \ {w0} : txOf'[w] = txOf[w] /\ report'[w] = report[w]
    BY <1>3
  <2>4. QED
    BY <1>2, <1>3, <1>4, <2>1, <2>2, <2>3, InTxKept
<1>8. \/ NothingDone /\ err # "nil"
      \/ TxLost(n) /\ err # "nil"
      \/ WriteAdded(n, w0)
      \/ WriteAlone(n, w0) /\ (err \in {"nil", "unknown"} \/ w0 \in queried')
  BY DEF n, w0
<1>9. ASSUME NEW w \in Writes, w # w0 PROVE WriteInv(w)'
  <2>1. WriteInv(w) /\ txOf'[w] = txOf[w] /\ report'[w] = report[w] /\ (w \in queried' <=> w \in queried)
    BY <1>0, <1>3, <1>9
  <2>2. applied'[w] = applied[w]
    BY <1>0, <1>8, <1>9 DEF NothingDone, TxLost, WriteAdded, WriteAlone, TypeOK
  <2>3. w \in Nat /\ (w > started' => w > started)
    BY <1>2 DEF Writes
  <2>4. interrupted \subseteq interrupted' /\ (w \in pending' => w \in pending)
    BY <1>8, <1>9 DEF NothingDone, TxLost, WriteAdded, WriteAlone
  <2>5. w \in pending => w \in pending' \/ txOf[w] \in interrupted'
    <3>1. CASE TxLost(n)
      <4>1. w \in pending => txOf[w] = n
        BY <1>0, <1>1, <3>1, PendingOfTx DEF TxLost
      <4>2. QED
        BY <3>1, <4>1 DEF TxLost
    <3>2. QED
      BY <1>8, <3>1 DEF NothingDone, WriteAdded, WriteAlone
  <2>6. QED
    BY <2>5, <2>4, <2>3, <2>2, <2>1, <1>5 DEF WriteInv, Reported
<1>10. ASSUME NEW w \in Writes, w = w0 PROVE WriteInv(w)'
  <2>1. n > 0 /\ txOf'[w] = n /\ report'[w] = err /\ tx'[n] = "open" /\ ~(w > started')
    BY <1>1, <1>2, <1>3, <1>5, <1>10 DEF TxIds, w0
  <2>2. CASE (NothingDone \/ TxLost(n)) /\ err # "nil"
    <3>1. applied'[w] = 0 /\ w \notin pending'
      BY <1>6, <1>10, <2>2 DEF NothingDone, TxLost
    <3>2. QED
      BY <2>1, <2>2, <3>1 DEF WriteInv, Reported
  <2>3. CASE WriteAdded(n, w0)
    <3>1. applied'[w] = 0 /\ w \in pending'
      BY <1>6, <1>10, <2>3 DEF WriteAdded
    <3>2. QED
      BY <2>1, <3>1 DEF WriteInv, Reported
  <2>4. CASE WriteAlone(n, w0) /\ (err \in {"nil", "unknown"} \/ w0 \in queried')
    <3>1. applied'[w] = 1 /\ w \notin pending'
      BY <1>0, <1>2, <1>6, <1>10, <2>4 DEF WriteAlone, TypeOK
    <3>2. n \in interrupted'
      BY <1>1, <2>4, ConnAssumption DEF WriteAlone
    <3>3. QED
      BY <1>10, <2>1, <2>4, <3>1, <3>2 DEF WriteInv, Reported
  <2>5. QED
    BY <1>8, <2>2, <2>3, <2>4
<1>11. QED
  BY <1>7, <1>9, <1>10 DEF IInv, Parts

(* What an answer to a statement of a transaction amounts to.              *)
LEMMA WriteAnswered ==
  ASSUME IInv, NEW u \in Callers, InTx(u), started < MaxWrites,
         NEW a \in CoreStatement(Core, TxConn(u), started + 1, "none"), Answered(u, a)
  PROVE  \/ NothingDone /\ a.resp # "ok"
         \/ TxLost(number[u]) /\ a.resp # "ok"
         \/ WriteAdded(number[u], started + 1)
         \/ WriteAlone(number[u], started + 1) /\ a.resp \in {"ok", "malformed", "unknown"}
<1> DEFINE n == number[u]
<1> DEFINE c == txConn[n]
<1> DEFINE w == started + 1
<1>0. TypeOK
  BY DEF IInv
<1>1. /\ n \in TxIds /\ c \in Conns /\ (slot # c <=> n \in interrupted)
  BY OpenTx
<1>2. w \in Writes /\ a \in CoreStatement(Core, c, w, "none")
  BY <1>0, BoundAssumption DEF TypeOK, Writes, TxConn
<1>3. slot' = a.core.slot /\ pending' = a.core.pending /\ applied' = a.core.applied
      /\ interrupted' = IF a.resp = "interrupted" THEN interrupted \cup {n} ELSE interrupted
  BY DEF Answered, SetCore
<1> HIDE DEF n, c, w
<1>4. CASE slot = c
  <2>1. /\ a.core.applied = applied
        /\ \/ /\ a.core.slot = slot /\ a.core.pending = pending
              /\ a.resp \in {"undispatched", "rejected", "malformed"}
           \/ a.core.slot = NoConn /\ a.core.pending = {} /\ a.resp = "interrupted"
           \/ /\ a.core.slot = slot /\ a.core.pending = pending \cup {w}
              /\ a.resp \in {"ok", "malformed"}
    BY <1>0, <1>1, <1>2, <1>4, StatementOwned
  <2>2. QED
    BY <1>3, <1>4, <2>1 DEF NothingDone, TxLost, WriteAdded, n, c, w
<1>5. CASE slot # c
  <2>1. /\ a.core.slot = slot /\ a.core.pending = pending
        /\ \/ a.core.applied = applied /\ a.resp # "ok"
           \/ /\ a.core.applied = [applied EXCEPT ![w] = @ + 1]
              /\ slot = NoConn /\ a.resp \in {"ok", "malformed", "unknown"}
    BY <1>0, <1>1, <1>2, <1>5, StatementAlone
  <2>2. interrupted' = interrupted
    BY <1>1, <1>3, <1>5
  <2>3. QED
    BY <1>3, <2>1, <2>2 DEF NothingDone, WriteAlone, w
<1>6. QED
  BY <1>4, <1>5

LEMMA TxExecStep ==
  ASSUME IInv, NEW u \in Callers, NEW s \in Statements, TxExec(u, s)
  PROVE  IInv'
<1>1. /\ InTx(u) /\ started < MaxWrites /\ started' = started + 1
      /\ txOf' = [txOf EXCEPT ![started + 1] = number[u]] /\ UNCHANGED queried
  BY DEF TxExec, TxWrite
<1>2. ExecClass(s) # "query"
  BY DEF ExecClass
<1>3. PICK a \in IF ExecClass(s) = "refused" THEN {Answer(Core, "rejected")}
                 ELSE CoreStatement(Core, TxConn(u), started + 1, s.tail) :
        \E err \in MutationResults(ExecClass(s), a.resp) :
           Answered(u, a) /\ report' = [report EXCEPT ![started + 1] = err]
  BY <1>2 DEF TxExec, TxWrite
<1>4. PICK err \in MutationResults(ExecClass(s), a.resp) :
        Answered(u, a) /\ report' = [report EXCEPT ![started + 1] = err]
  BY <1>3
<1>5. a \in CoreStatement(Core, TxConn(u), started + 1, "none")
  <2>1. CASE ExecClass(s) = "refused"
    BY <1>3, <2>1 DEF CoreStatement
  <2>2. CASE ExecClass(s) # "refused"
    BY <1>3, <2>2, NoTail
  <2>3. QED
    BY <2>1, <2>2
<1>6. /\ err \in Errors /\ (err = "nil" => a.resp = "ok")
      /\ a.resp \in {"ok", "malformed", "unknown"} => err \in {"nil", "unknown"}
  BY MutationErrors DEF Errors
<1>7. \/ NothingDone /\ a.resp # "ok"
      \/ TxLost(number[u]) /\ a.resp # "ok"
      \/ WriteAdded(number[u], started + 1)
      \/ WriteAlone(number[u], started + 1) /\ a.resp \in {"ok", "malformed", "unknown"}
  BY <1>1, <1>4, <1>5, WriteAnswered
<1>8. UNCHANGED <<poolVars, connVars, callerVars, begun, tx, txConn, ended, verdict>>
  BY <1>4 DEF Answered
<1>9. QED
  BY <1>1, <1>4, <1>6, <1>7, <1>8, TxWriteStep

(* A read of a transaction may lose it, and says nothing of any write.     *)
LEMMA TxReadStep ==
  ASSUME IInv, NEW u \in Callers, InTx(u), NEW a \in CoreRead(Core, TxConn(u)), Answered(u, a),
         UNCHANGED <<started, txOf, report, queried>>
  PROVE  IInv'
<1> DEFINE n == number[u]
<1> DEFINE c == txConn[n]
<1>0. /\ TypeOK /\ SlotInv
      /\ \A t \in TxIds : TxInv(t)
      /\ \A w \in Writes : WriteInv(w)
  BY DEF IInv, Parts
<1>1. /\ n \in TxIds /\ Live(n) /\ tx[n] = "open" /\ c \in Conns /\ (slot # c <=> n \in interrupted)
  BY OpenTx
<1>2. slot' = a.core.slot /\ pending' = a.core.pending /\ applied' = a.core.applied
      /\ interrupted' = IF a.resp = "interrupted" THEN interrupted \cup {n} ELSE interrupted
  BY DEF Answered, SetCore
<1>3. UNCHANGED <<poolVars, connVars, callerVars, begun, tx, txConn, ended, verdict>>
  BY DEF Answered
<1>4. \/ a.core = Core /\ (a.resp # "interrupted" \/ slot # c)
      \/ slot = c /\ a.core = RollbackIfOwned(Core, c) /\ a.resp = "interrupted"
  BY <1>0, <1>1, ReadAnswer DEF TxConn
<1> HIDE DEF n, c
<1>5. Core \in CoreType /\ Core.slot = slot /\ Core.pending = pending /\ Core.applied = applied
  BY <1>0, CoreTyped
<1>6. NothingDone \/ TxLost(n)
  <2>1. CASE a.core = Core /\ (a.resp # "interrupted" \/ slot # c)
    BY <1>1, <1>2, <1>5, <2>1 DEF NothingDone
  <2>2. CASE slot = c /\ a.core = RollbackIfOwned(Core, c) /\ a.resp = "interrupted"
    <3>1. a.core.slot = NoConn /\ a.core.pending = {} /\ a.core.applied = applied
      BY <1>1, <1>5, <2>2, RolledBack
    <3>2. QED
      BY <1>2, <2>2, <3>1 DEF TxLost, c
  <2>3. QED
    BY <1>4, <2>1, <2>2
<1>7. /\ TypeOK' /\ PoolInv' /\ HandleInv' /\ SlotInv'
      /\ \A v \in Callers : CallerInv(v)'
      /\ \A t \in TxIds : TxInv(t)'
  <2>1. 0 \in Nat /\ 0 \notin Writes
    BY DEF Writes
  <2>2. pending' \subseteq pending /\ (NothingDone \/ TxLost(number[u]))
    BY <1>6 DEF NothingDone, TxLost, n
  <2>3. started' \in 0 .. MaxWrites /\ started' >= started
    BY <1>0 DEF TypeOK
  <2>4. /\ txOf' \in [Writes -> 0 .. MaxTx] /\ report' \in [Writes -> Errors \cup {"none"}]
        /\ queried' \in SUBSET Writes
    BY <1>0 DEF TypeOK
  <2>5. \A x \in Writes \ {0} : txOf'[x] = txOf[x] /\ report'[x] = report[x]
    OBVIOUS
  <2>6. QED
    BY <2>5, <2>4, <2>3, <2>2, <2>1, <1>3, InTxKept
<1>8. ASSUME NEW w \in Writes PROVE WriteInv(w)'
  <2>1. WriteInv(w) /\ UNCHANGED <<started, txOf, report, queried, tx, verdict>>
    BY <1>0, <1>3
  <2>2. applied' = applied /\ pending' \subseteq pending /\ interrupted \subseteq interrupted'
    BY <1>6 DEF NothingDone, TxLost
  <2>3. w \in pending => w \in pending' \/ txOf[w] \in interrupted'
    BY <1>0, <1>1, <1>6, PendingOfTx DEF NothingDone, TxLost
  <2>4. QED
    BY <2>1, <2>2, <2>3 DEF WriteInv, Reported
<1>9. QED
  BY <1>7, <1>8 DEF IInv, Parts

LEMMA TxQueryStep ==
  ASSUME IInv, NEW u \in Callers, NEW q \in Queries, TxQuery(u, q)
  PROVE  IInv'
<1>1. CASE q # "returning"
  <2>1. InTx(u) /\ UNCHANGED <<started, txOf, report, queried>>
    BY <1>1 DEF TxQuery
  <2>2. PICK a \in CoreRead(Core, TxConn(u)) : Answered(u, a)
    BY <1>1 DEF TxQuery
  <2>3. QED
    BY <2>1, <2>2, TxReadStep
<1>2. CASE q = "returning"
  <2>1. /\ InTx(u) /\ started < MaxWrites /\ started' = started + 1
        /\ txOf' = [txOf EXCEPT ![started + 1] = number[u]] /\ queried' = queried \cup {started + 1}
    BY <1>2 DEF TxQuery, TxWrite
  <2>2. PICK a \in CoreStatement(Core, TxConn(u), started + 1, "none") :
          \E err \in QueryResults(a.resp) :
             Answered(u, a) /\ report' = [report EXCEPT ![started + 1] = err]
    BY <1>2 DEF TxQuery, TxWrite
  <2>3. PICK err \in QueryResults(a.resp) :
          Answered(u, a) /\ report' = [report EXCEPT ![started + 1] = err]
    BY <2>2
  <2>4. err \in Errors /\ (err = "nil" => a.resp = "ok")
    BY QueryErrors DEF Errors
  <2>5. \/ NothingDone /\ a.resp # "ok"
        \/ TxLost(number[u]) /\ a.resp # "ok"
        \/ WriteAdded(number[u], started + 1)
        \/ WriteAlone(number[u], started + 1) /\ started + 1 \in queried'
    BY <2>1, <2>3, WriteAnswered
  <2>6. UNCHANGED <<poolVars, connVars, callerVars, begun, tx, txConn, ended, verdict>>
    BY <2>3 DEF Answered
  <2>7. QED
    BY <2>1, <2>3, <2>4, <2>5, <2>6, TxWriteStep
<1>3. QED
  BY <1>1, <1>2

----------------------------------------------------------------------------
(* The end of a transaction: its writes become durable together and its    *)
(* Commit admits it, or nothing of the slot survives and its Commit did    *)
(* not return nil.                                                         *)
SlotCommitted(t, v) ==
  /\ slot = txConn[t] /\ slot' = NoConn /\ pending' = {} /\ v \in {"nil", "unknown"}
  /\ applied' = [w \in Writes |-> applied[w] + (IF w \in pending THEN 1 ELSE 0)]

SlotReleased(t, v) ==
  /\ v # "nil" /\ applied' = applied
  /\ IF slot = txConn[t] THEN slot' = NoConn /\ pending' = {} ELSE slot' = slot /\ pending' = pending

LEMMA TxEnds ==
  ASSUME IInv, NEW t \in TxIds, Live(t), NEW k \in {"idle", "none"},
         connState' = [connState EXCEPT ![txConn[t]] = k],
         invalid' = [invalid EXCEPT ![txConn[t]] = (k = "none")],
         NEW v \in Errors \cup {"rolled_back"}, verdict' = [verdict EXCEPT ![t] = v],
         tx' = [tx EXCEPT ![t] = "closed"], txConn' = [txConn EXCEPT ![t] = NoConn],
         ended' = [ended EXCEPT ![t] = TRUE],
         UNCHANGED <<poolVars, held, writing, countVars, interrupted, report, queried>>,
         SlotCommitted(t, v) \/ SlotReleased(t, v),
         \/ UNCHANGED <<pc, number>>
         \/ \E u \in Callers : /\ pc[u] = "tx" /\ pc' = [pc EXCEPT ![u] = "ready"]
                              /\ number' = [number EXCEPT ![u] = 0]
  PROVE  IInv'
<1> DEFINE c == txConn[t]
<1>0. /\ TypeOK /\ Parts /\ PoolInv /\ HandleInv /\ SlotInv
      /\ \A u \in Callers : CallerInv(u)
      /\ \A s \in TxIds : TxInv(s)
      /\ \A w \in Writes : WriteInv(w)
  BY DEF IInv, Parts
<1>1. /\ TxInv(t) /\ c \in Conns /\ c # NoConn /\ connState[c] = "used" /\ tx[t] # "closed"
      /\ slot # c <=> t \in interrupted
  BY <1>0 DEF TxInv, TypeOK, Live
<1>2. UNCHANGED <<shared, maxOpen, maxIdle, held, writing, begun, started, txOf, interrupted, report, queried>>
  BY DEF poolVars, countVars
<1>3. /\ tx'[t] = "closed" /\ txConn'[t] = NoConn /\ verdict'[t] = v
      /\ \A s \in TxIds : s # t => tx'[s] = tx[s] /\ txConn'[s] = txConn[s] /\ verdict'[s] = verdict[s]
      /\ \A d \in Conns : d # c => connState'[d] = connState[d]
  BY <1>0, <1>1 DEF TypeOK
<1>4. \A u \in Callers :
        \/ pc'[u] = pc[u] /\ number'[u] = number[u]
        \/ pc[u] = "tx" /\ pc'[u] = "ready" /\ number'[u] = 0
  BY <1>0 DEF TypeOK
<1>5. slot' \in Conns \cup {NoConn} /\ pending' \in SUBSET Writes /\ applied' \in [Writes -> Nat]
  BY <1>0 DEF SlotCommitted, SlotReleased, TypeOK
<1>6. TypeOK'
  <2>1. connState' \in [Conns -> {"none", "idle", "used"}] /\ invalid' \in [Conns -> BOOLEAN]
    BY <1>0, <1>1 DEF TypeOK
  <2>2. /\ tx' \in [TxIds -> {"none", "open", "committing", "rolling", "awaited", "closed"}]
        /\ txConn' \in [TxIds -> Conns \cup {NoConn}] /\ ended' \in [TxIds -> BOOLEAN]
        /\ verdict' \in [TxIds -> Errors \cup {"none", "rolled_back"}]
    BY <1>0 DEF TypeOK
  <2>3. /\ pc' \in [Callers -> {"ready", "begin", "exec", "replay", "query", "tx"}]
        /\ number' \in [Callers -> 0 .. MaxTx]
    BY <1>0, BoundAssumption DEF TypeOK
  <2>4. QED
    BY <1>0, <1>2, <1>5, <2>1, <2>2, <2>3 DEF TypeOK
<1>7. PoolInv'
  BY <1>0, <1>1, <1>2, PoolShrinks
<1>8. HandleInv'
  BY <1>0, <1>1 DEF HandleInv, TypeOK
<1>9. ASSUME NEW u \in Callers PROVE CallerInv(u)'
  <2>1. CallerInv(u) /\ number[u] \in 0 .. MaxTx /\ begun \in Nat /\ writing[u] \in 0 .. MaxWrites
    BY <1>0 DEF TypeOK
  <2>2. number[u] # 0 => number[u] \in TxIds
    BY <2>1 DEF TxIds
  <2>3. number[u] # 0 => (tx'[number[u]] = "none" <=> tx[number[u]] = "none")
    BY <1>3, <2>2 DEF Live
  <2>4. held[u] # NoConn => held[u] \in Conns /\ held[u] # c
    BY <1>0, <1>1 DEF TxInv, TypeOK
  <2>5. held[u] # NoConn => connState'[held[u]] = connState[held[u]]
    BY <1>3, <2>4
  <2>6. \A x \in Callers \ {u} : number'[u] # 0 => number'[u] # number'[x]
    BY <1>4, <2>1 DEF CallerInv
  <2>7. \/ pc'[u] = pc[u] /\ number'[u] = number[u]
        \/ pc[u] = "tx" /\ pc'[u] = "ready" /\ number'[u] = 0
    BY <1>4
  <2>8. pc[u] = "exec" => applied'[writing[u]] = applied[writing[u]]
    <3>1. pc[u] = "exec" => writing[u] \in Writes /\ txOf[writing[u]] = 0
      BY <2>1 DEF CallerInv, Writes
    <3>2. CASE SlotCommitted(t, v)
      <4>1. pc[u] = "exec" => writing[u] \notin pending
        BY <1>0, <3>1, <3>2, PendingOfTx DEF SlotCommitted, TxIds
      <4>2. QED
        BY <1>0, <3>1, <3>2, <4>1 DEF SlotCommitted, TypeOK
    <3>3. QED
      BY <3>2 DEF SlotReleased
  <2>9. QED
    BY <1>2, <2>1, <2>3, <2>5, <2>6, <2>7, <2>8 DEF CallerInv
<1>10. ASSUME NEW s \in TxIds PROVE TxInv(s)'
  <2>1. CASE s = t
    <3>1. t \in interrupted => v # "nil"
      BY <1>1 DEF SlotCommitted, SlotReleased
    <3>2. QED
      BY <1>1, <1>2, <1>3, <2>1, <3>1 DEF TxInv, Live
  <2>2. CASE s # t
    <3>1. TxInv(s) /\ (Live(s)' <=> Live(s)) /\ (txConn[s] # NoConn => txConn[s] \in Conns /\ txConn[s] # c)
      BY <1>0, <1>1, <1>3, <2>2 DEF Live, TxInv, TypeOK
    <3>2. Live(s) => connState'[txConn[s]] = "used"
      BY <1>3, <3>1 DEF TxInv
    <3>3. Live(s) => (slot' # txConn[s] <=> slot # txConn[s])
      BY <3>1 DEF TxInv, SlotCommitted, SlotReleased
    <3>4. \A r \in TxIds \ {s} : txConn[s] # NoConn => txConn[s] # txConn'[r]
      BY <1>3, <3>1 DEF TxInv
    <3>5. tx'[s] = tx[s] /\ txConn'[s] = txConn[s] /\ verdict'[s] = verdict[s]
      BY <1>3, <2>2
    <3>6. QED
      BY <3>5, <3>4, <3>3, <3>2, <3>1, <1>2 DEF TxInv
  <2>3. QED
    BY <2>1, <2>2
<1>11. SlotInv'
  <2>1. CASE slot = c
    BY <2>1 DEF SlotInv, SlotBelongsToItsTransaction, SlotCommitted, SlotReleased
  <2>2. CASE slot # c
    <3>1. slot' = slot /\ pending' = pending
      BY <2>2 DEF SlotCommitted, SlotReleased
    <3>2. ASSUME slot # NoConn
          PROVE  \E s \in TxIds : Live(s)' /\ txConn'[s] = slot' /\ \A w \in pending' : txOf'[w] = s
      <4>1. PICK s \in TxIds : Live(s) /\ txConn[s] = slot /\ \A w \in pending : txOf[w] = s
        BY <1>0, <3>2 DEF SlotInv, SlotBelongsToItsTransaction
      <4>2. s # t /\ Live(s)' /\ txConn'[s] = slot'
        BY <1>3, <2>2, <3>1, <4>1 DEF Live
      <4>3. QED
        BY <1>2, <3>1, <4>1, <4>2
    <3>3. QED
      BY <1>0, <3>1, <3>2 DEF SlotInv, SlotBelongsToItsTransaction
  <2>3. QED
    BY <2>1, <2>2
<1>12. ASSUME NEW w \in Writes PROVE WriteInv(w)'
  <2>1. WriteInv(w) /\ txOf[w] \in 0 .. MaxTx /\ applied[w] \in Nat
    BY <1>0 DEF TypeOK
  <2>2. txOf[w] > 0 => txOf[w] \in TxIds
    BY <2>1 DEF TxIds
  <2>3. txOf[w] > 0 => \/ txOf[w] = t /\ tx'[txOf[w]] = "closed" /\ verdict'[txOf[w]] = v
                       \/ tx'[txOf[w]] = tx[txOf[w]] /\ verdict'[txOf[w]] = verdict[txOf[w]]
    BY <1>3, <2>2
  <2>4. verdict[t] = "none" /\ t > 0
    BY <1>1 DEF TxInv, TxIds
  <2>5. slot = c /\ w \in pending => txOf[w] = t
    BY <1>0, PendingOfTx
  <2>6. CASE SlotCommitted(t, v)
    <3>1. /\ slot = c /\ t \notin interrupted /\ v \in {"nil", "unknown"} /\ w \notin pending'
          /\ applied'[w] = applied[w] + (IF w \in pending THEN 1 ELSE 0)
      BY <1>1, <2>6 DEF SlotCommitted
    <3>2. CASE w \in pending
      <4>1. applied[w] = 0 /\ applied'[w] = 1 /\ txOf[w] = t
        BY <2>1, <2>5, <3>1, <3>2 DEF WriteInv
      <4>2. QED
        BY <1>2, <1>3, <2>1, <2>4, <3>1, <3>2, <4>1 DEF WriteInv, Reported
    <3>3. CASE w \notin pending
      <4>1. applied'[w] = applied[w]
        BY <2>1, <3>1, <3>3
      <4>2. QED
        BY <1>1, <1>2, <2>1, <2>3, <2>4, <3>1, <3>3, <4>1 DEF WriteInv, Reported
    <3>4. QED
      BY <3>2, <3>3
  <2>7. CASE SlotReleased(t, v)
    <3>1. v # "nil" /\ applied' = applied /\ (w \in pending' => w \in pending)
          /\ (w \in pending => w \in pending' \/ txOf[w] = t)
      BY <2>5, <2>7 DEF SlotReleased
    <3>2. CASE txOf[w] = t
      <4>1. tx'[txOf[w]] = "closed" /\ verdict'[txOf[w]] = v /\ verdict[txOf[w]] = "none"
        BY <1>3, <2>4, <3>2
      <4>2. Reported(w)'
        BY <1>2, <2>1, <3>1, <4>1 DEF WriteInv, Reported
      <4>3. QED
        BY <1>2, <2>1, <3>1, <4>1, <4>2 DEF WriteInv
    <3>3. CASE txOf[w] # t
      <4>1. txOf[w] > 0 => tx'[txOf[w]] = tx[txOf[w]] /\ verdict'[txOf[w]] = verdict[txOf[w]]
        BY <2>3, <3>3
      <4>2. QED
        BY <1>2, <2>1, <3>1, <3>3, <4>1 DEF WriteInv, Reported
    <3>4. QED
      BY <3>2, <3>3
  <2>8. QED
    BY <2>6, <2>7
<1>13. QED
  BY <1>12, <1>11, <1>10, <1>9, <1>8, <1>7, <1>6 DEF IInv, Parts

(* nativeTx.Commit and nativeTx.Rollback leave nothing in the slot for the *)
(* next user of the connection, whichever way they fail.                   *)
LEMMA FinishStep ==
  ASSUME IInv, NEW t \in TxIds, Live(t), NEW v \in Errors \cup {"rolled_back"},
         NEW after, NEW i \in BOOLEAN, NEW discard \in BOOLEAN, PutConn(txConn[t], after, i, discard),
         verdict' = [verdict EXCEPT ![t] = v], tx' = [tx EXCEPT ![t] = "closed"],
         txConn' = [txConn EXCEPT ![t] = NoConn], ended' = [ended EXCEPT ![t] = TRUE],
         UNCHANGED <<poolVars, held, writing, countVars, interrupted, report, queried>>,
         \/ after = RollbackIfOwned(Core, txConn[t]) /\ v # "nil"
         \/ slot = txConn[t] /\ after = CommitOwned(Core) /\ v \in {"nil", "unknown"},
         \/ UNCHANGED <<pc, number>>
         \/ \E u \in Callers : /\ pc[u] = "tx" /\ pc' = [pc EXCEPT ![u] = "ready"]
                              /\ number' = [number EXCEPT ![u] = 0]
  PROVE  IInv'
<1> DEFINE c == txConn[t]
<1>0. TypeOK /\ TxInv(t)
  BY DEF IInv, Parts
<1>1. c \in Conns /\ c # NoConn
  BY <1>0 DEF TxInv, TypeOK
<1>2. Core \in CoreType /\ Core.slot = slot /\ Core.pending = pending /\ Core.applied = applied
  BY <1>0, CoreTyped
<1>3. /\ after \in CoreType /\ after.slot # c
      /\ \/ /\ slot = c /\ after.slot = NoConn /\ after.pending = {} /\ v \in {"nil", "unknown"}
            /\ after.applied = [w \in Writes |-> applied[w] + (IF w \in pending THEN 1 ELSE 0)]
         \/ /\ v # "nil" /\ after.applied = applied
            /\ IF slot = c THEN after.slot = NoConn /\ after.pending = {}
                           ELSE after.slot = slot /\ after.pending = pending
  <2>1. CASE slot = c /\ after = CommitOwned(Core) /\ v \in {"nil", "unknown"}
    <3>1. /\ after.slot = NoConn /\ after.pending = {}
          /\ after.applied = [w \in Writes |-> applied[w] + (IF w \in pending THEN 1 ELSE 0)]
      BY <1>2, <2>1 DEF CommitOwned
    <3>2. [w \in Writes |-> applied[w] + (IF w \in pending THEN 1 ELSE 0)] \in [Writes -> Nat]
      BY <1>0 DEF TypeOK
    <3>3. after \in CoreType
      BY <1>2, <2>1, <3>1, <3>2 DEF CommitOwned, CoreType
    <3>4. QED
      BY <1>1, <2>1, <3>1, <3>3
  <2>2. CASE after = RollbackIfOwned(Core, c) /\ v # "nil"
    BY <1>1, <1>2, <2>2, RolledBack
  <2>3. QED
    BY <2>1, <2>2
<1>4. slot' = after.slot /\ pending' = after.pending /\ applied' = after.applied
  BY <1>0, <1>1, <1>3, PutBack
<1>5. PICK k \in {"idle", "none"} : /\ connState' = [connState EXCEPT ![c] = k]
                                    /\ invalid' = [invalid EXCEPT ![c] = (k = "none")]
  BY <1>0, <1>1, <1>3, PutBack
<1>6. SlotCommitted(t, v) \/ SlotReleased(t, v)
  BY <1>3, <1>4 DEF SlotCommitted, SlotReleased
<1>7. QED
  BY <1>5, <1>6, TxEnds

(* The transaction whose end a caller is waiting for.                      *)
LEMMA EndingTx ==
  ASSUME IInv, NEW u \in Callers, pc[u] = "tx", tx[number[u]] \in {"committing", "rolling"}
  PROVE  number[u] \in TxIds /\ Live(number[u]) /\ txConn[number[u]] \in Conns
<1>1. CallerInv(u) /\ number[u] \in 0 .. MaxTx
  BY DEF IInv, Parts, TypeOK
<1>2. number[u] \in TxIds
  BY <1>1 DEF CallerInv, TxIds
<1>3. TxInv(number[u]) /\ Live(number[u])
  BY <1>2 DEF IInv, Parts, Live
<1>4. QED
  BY <1>2, <1>3 DEF TxInv, IInv, TypeOK

LEMMA CommitStep ==
  ASSUME IInv, NEW u \in Callers, Commit(u)
  PROVE  IInv'
<1> DEFINE t == number[u]
<1> DEFINE c == txConn[t]
<1>0. TypeOK /\ pc[u] = "tx" /\ tx[t] = "committing"
  BY DEF IInv, Commit
<1>1. t \in TxIds /\ Live(t) /\ c \in Conns
  BY <1>0, EndingTx
<1>2. PICK a \in CoreCommit(Core, c) :
        Finish(t, a.core, mutationOutcomeError(SDKError(a.resp)) # "nil", FALSE, mutationOutcomeError(SDKError(a.resp)))
  BY DEF Commit, CommitAnswers, CommitVerdict
<1> DEFINE err == mutationOutcomeError(SDKError(a.resp))
<1> DEFINE failed == err # "nil"
<1> DEFINE after == IF failed THEN RollbackIfOwned(a.core, c) ELSE a.core
<1>3. Core \in CoreType /\ Core.slot = slot
  BY <1>0, CoreTyped
<1>4. \/ a \in {Answer(Core, r) : r \in {"undispatched", "rejected"}}
      \/ a = Answer(RollbackIfOwned(Core, c), "interrupted")
      \/ slot = c /\ a \in {Answer(CommitOwned(Core), r) : r \in {"ok", "malformed", "unknown"}}
  BY <1>3 DEF CoreCommit
<1>5. /\ err \in {"nil", "unknown", "definite"}
      /\ a.resp \in {"undispatched", "rejected", "interrupted"} => err = "definite"
      /\ a.resp \in {"ok", "malformed", "unknown"} => err \in {"nil", "unknown"}
  BY DEF mutationOutcomeError, SDKError
<1> HIDE DEF err
<1>6. \/ after = RollbackIfOwned(Core, c) /\ err # "nil"
      \/ slot = c /\ after = CommitOwned(Core) /\ err \in {"nil", "unknown"}
  <2>1. CASE a \in {Answer(Core, r) : r \in {"undispatched", "rejected"}}
    BY <1>5, <2>1, AnswerParts
  <2>2. CASE a = Answer(RollbackIfOwned(Core, c), "interrupted")
    <3>1. a.core = RollbackIfOwned(Core, c) /\ err = "definite"
      BY <1>5, <2>2, AnswerParts
    <3>2. RollbackIfOwned(a.core, c) = a.core
      BY <1>1, <1>3, <3>1, RolledBack
    <3>3. QED
      BY <3>1, <3>2
  <2>3. CASE slot = c /\ a \in {Answer(CommitOwned(Core), r) : r \in {"ok", "malformed", "unknown"}}
    <3>1. a.core = CommitOwned(Core) /\ err \in {"nil", "unknown"}
      BY <1>5, <2>3, AnswerParts
    <3>2. RollbackIfOwned(a.core, c) = a.core
      BY <1>1, <3>1, ConnAssumption DEF CommitOwned, RollbackIfOwned
    <3>3. QED
      BY <2>3, <3>1, <3>2
  <2>4. QED
    BY <1>4, <2>1, <2>2, <2>3
<1> DEFINE i == invalid[c] \/ failed
<1>7. PutConn(c, after, i, FALSE) /\ i \in BOOLEAN
  BY <1>0, <1>1, <1>2 DEF err, Finish, TypeOK
<1>8. /\ err \in Errors \cup {"rolled_back"}
      /\ verdict' = [verdict EXCEPT ![t] = err] /\ tx' = [tx EXCEPT ![t] = "closed"]
      /\ txConn' = [txConn EXCEPT ![t] = NoConn] /\ ended' = [ended EXCEPT ![t] = TRUE]
      /\ UNCHANGED <<poolVars, held, writing, countVars, interrupted, report, queried>>
  BY <1>2, <1>5 DEF err, Finish, Errors
<1>9. pc' = [pc EXCEPT ![u] = "ready"] /\ number' = [number EXCEPT ![u] = 0]
  BY DEF Commit
<1> HIDE DEF after, i
<1>10. QED
  BY <1>0, <1>1, <1>6, <1>7, <1>8, <1>9, FinishStep

(* Whatever Core answers to a ROLLBACK, the connection then owns nothing.  *)
LEMMA RollbackFinishes ==
  ASSUME IInv, NEW t \in TxIds, Live(t), NEW discard \in BOOLEAN, NEW a \in CoreRollback(Core, txConn[t]),
         Finish(t, a.core, RollbackFailed(a.resp), discard, "rolled_back"),
         \/ UNCHANGED <<pc, number>>
         \/ \E u \in Callers : /\ pc[u] = "tx" /\ pc' = [pc EXCEPT ![u] = "ready"]
                              /\ number' = [number EXCEPT ![u] = 0]
  PROVE  IInv'
<1> DEFINE c == txConn[t]
<1> DEFINE failed == RollbackFailed(a.resp)
<1> DEFINE after == IF failed THEN RollbackIfOwned(a.core, c) ELSE a.core
<1>0. TypeOK /\ TxInv(t)
  BY DEF IInv, Parts
<1>1. c \in Conns
  BY <1>0 DEF TxInv, TypeOK
<1>2. Core \in CoreType
  BY <1>0, CoreTyped
<1>3. \/ a \in {Answer(Core, r) : r \in {"rejected", "malformed", "unknown"}}
      \/ a \in {Answer(RollbackIfOwned(Core, c), r) : r \in {"ok", "interrupted", "malformed", "unknown"}}
  BY DEF CoreRollback
<1>4. \/ a.core = Core /\ failed
      \/ a.core = RollbackIfOwned(Core, c)
  BY <1>3, AnswerParts DEF RollbackFailed
<1>5. RollbackIfOwned(RollbackIfOwned(Core, c), c) = RollbackIfOwned(Core, c)
  BY <1>1, <1>2, RolledBack
<1>6. after = RollbackIfOwned(Core, c)
  BY <1>4, <1>5
<1> DEFINE i == invalid[c] \/ failed
<1> DEFINE v == "rolled_back"
<1>7. PutConn(c, after, i, discard) /\ i \in BOOLEAN
  BY <1>0, <1>1 DEF Finish, RollbackFailed, TypeOK
<1>8. /\ v \in Errors \cup {"rolled_back"} /\ v # "nil"
      /\ verdict' = [verdict EXCEPT ![t] = v] /\ tx' = [tx EXCEPT ![t] = "closed"]
      /\ txConn' = [txConn EXCEPT ![t] = NoConn] /\ ended' = [ended EXCEPT ![t] = TRUE]
      /\ UNCHANGED <<poolVars, held, writing, countVars, interrupted, report, queried>>
  BY DEF Finish
<1> HIDE DEF after, i, v
<1>9. QED
  BY <1>6, <1>7, <1>8, FinishStep

LEMMA RollbackStep ==
  ASSUME IInv, NEW u \in Callers, Rollback(u)
  PROVE  IInv'
<1>1. pc[u] = "tx" /\ tx[number[u]] = "rolling"
  BY DEF Rollback
<1>2. number[u] \in TxIds /\ Live(number[u])
  BY <1>1, EndingTx
<1>3. PICK a \in CoreRollback(Core, txConn[number[u]]) :
        Finish(number[u], a.core, RollbackFailed(a.resp), FALSE, "rolled_back")
  BY DEF Rollback
<1>4. pc' = [pc EXCEPT ![u] = "ready"] /\ number' = [number EXCEPT ![u] = 0]
  BY DEF Rollback
<1>5. QED
  BY <1>1, <1>2, <1>3, <1>4, RollbackFinishes

LEMMA AwaitRollbackStep ==
  ASSUME IInv, NEW t \in TxIds, AwaitRollback(t)
  PROVE  IInv'
<1>1. Live(t) /\ UNCHANGED <<pc, number>>
  BY DEF AwaitRollback, Live
<1>2. PICK a \in CoreRollback(Core, txConn[t]) :
        Finish(t, a.core, RollbackFailed(a.resp), TRUE, "rolled_back")
  BY DEF AwaitRollback
<1>3. QED
  BY <1>1, <1>2, RollbackFinishes

----------------------------------------------------------------------------
LEMMA Initially == Init => IInv
<1> SUFFICES ASSUME Init PROVE IInv
  OBVIOUS
<1>1. TypeOK
  <2>1. 0 \in 0 .. MaxTx /\ 0 \in 0 .. MaxWrites
    BY BoundAssumption
  <2>2. /\ connState \in [Conns -> {"none", "idle", "used"}] /\ invalid \in [Conns -> BOOLEAN]
        /\ pc \in [Callers -> {"ready", "begin", "exec", "replay", "query", "tx"}]
        /\ tx \in [TxIds -> {"none", "open", "committing", "rolling", "awaited", "closed"}]
        /\ ended \in [TxIds -> BOOLEAN]
    BY DEF Init
  <2>3. /\ report \in [Writes -> Errors \cup {"none"}]
        /\ verdict \in [TxIds -> Errors \cup {"none", "rolled_back"}]
    BY DEF Init
  <2>4. QED
    BY <2>1, <2>2, <2>3 DEF Init, TypeOK
<1>2. PoolInv
  <2>1. OpenHandles = {}
    BY DEF Init, OpenHandles
  <2>2. IsFiniteSet({}) /\ Cardinality({}) = 0
    BY FS_EmptySet
  <2>3. QED
    BY <2>1, <2>2 DEF Init, PoolInv
<1>3. HandleInv /\ SlotInv
  BY DEF Init, HandleInv, SlotInv, SlotBelongsToItsTransaction
<1>4. ASSUME NEW u \in Callers PROVE CallerInv(u)
  BY DEF Init, CallerInv
<1>5. ASSUME NEW t \in TxIds PROVE TxInv(t)
  BY DEF Init, TxInv, Live
<1>6. ASSUME NEW w \in Writes PROVE WriteInv(w)
  BY DEF Init, WriteInv, Reported
<1>7. QED
  BY <1>6, <1>5, <1>4, <1>3, <1>2, <1>1 DEF IInv, Parts

LEMMA Stuttering == IInv /\ UNCHANGED vars => IInv'
<1> SUFFICES ASSUME IInv, UNCHANGED vars PROVE IInv'
  OBVIOUS
<1>0. UNCHANGED <<shared, maxOpen, maxIdle, connState, invalid, slot, pending, applied, pc, held, number, writing,
                  begun, started, txOf, tx, txConn, ended, interrupted, report, verdict, queried>>
  BY DEF vars, poolVars, connVars, coreVars, callerVars, countVars, txVars, answerVars
<1>1. TypeOK' /\ PoolInv'
  BY <1>0 DEF IInv, TypeOK, PoolInv, OpenHandles
<1>2. HandleInv' /\ SlotInv'
  BY <1>0 DEF IInv, Parts, HandleInv, SlotInv, SlotBelongsToItsTransaction, Live
<1>3. ASSUME NEW u \in Callers PROVE CallerInv(u)'
  BY <1>0 DEF IInv, Parts, CallerInv
<1>4. ASSUME NEW t \in TxIds PROVE TxInv(t)'
  BY <1>0 DEF IInv, Parts, TxInv, Live
<1>5. ASSUME NEW w \in Writes PROVE WriteInv(w)'
  BY <1>0 DEF IInv, Parts, WriteInv, Reported
<1>6. QED
  BY <1>5, <1>4, <1>3, <1>2, <1>1 DEF IInv, Parts

LEMMA CallerSteps ==
  ASSUME IInv, NEW u \in Callers, CallerStep(u)
  PROVE  IInv'
<1>1. CASE \E c \in Conns, call \in {"begin", "exec", "query"} : Connect(u, c, call) \/ Reuse(u, c, call)
  BY <1>1, AcquireStep
<1>2. CASE \E s \in Statements : DBExec(u, s) \/ TxExec(u, s)
  BY <1>2, DBExecStep, TxExecStep
<1>3. CASE \E q \in Queries : DBQuery(u, q) \/ TxQuery(u, q)
  BY <1>3, DBQueryStep, TxQueryStep
<1>4. CASE Ping(u)
  BY <1>4, DBQueryStep
<1>5. CASE BeginRefused(u)
  <2>1. "definite" \in Errors \ {"bad_conn"}
    BY DEF Errors
  <2>2. pc[u] = "begin" /\ Return(u, Core, "definite") /\ UNCHANGED <<report, queried>>
    BY <1>5 DEF BeginRefused
  <2>3. QED
    BY <2>1, <2>2, ReadReturns
<1>6. CASE BeginFails(u) \/ BeginTx(u)
  BY <1>6, BeginFailsStep, BeginTxStep
<1>7. CASE TxCommit(u) \/ TxRollback(u) \/ TxDone(u)
  BY <1>7, SqlTxStep
<1>8. CASE Commit(u) \/ Rollback(u)
  BY <1>8, CommitStep, RollbackStep
<1>9. QED
  BY <1>8, <1>7, <1>6, <1>5, <1>4, <1>3, <1>2, <1>1 DEF CallerStep

LEMMA Steps == IInv /\ [Next]_vars => IInv'
<1>1. ASSUME IInv, Next PROVE IInv'
  <2>1. CASE \E s \in BOOLEAN, r \in PoolRequests : DriverOpen(s, r)
    BY <1>1, <2>1, OpenStep
  <2>2. CASE \E u \in Callers : CallerStep(u)
    BY <1>1, <2>2, CallerSteps
  <2>3. CASE \E t \in TxIds : TxStep(t)
    BY <1>1, <2>3, ContextStep, AwaitRollbackStep DEF TxStep
  <2>4. QED
    BY <1>1, <2>1, <2>2, <2>3 DEF Next
<1>2. QED
  BY <1>1, Stuttering

----------------------------------------------------------------------------
(* The connections, the callers, the transactions, Core's slot and every   *)
(* write stay as the invariant says, for any number of each.               *)
THEOREM Invariance == Spec => []IInv
BY Initially, Steps, PTL DEF Spec

(* Every variable keeps its type.                                          *)
THEOREM TypeCorrect == Spec => []TypeOK
<1>1. IInv => TypeOK
  BY DEF IInv
<1>2. QED
  BY <1>1, Invariance, PTL

(* No connection goes back to the pool with Core's transaction slot: every *)
(* path by which nativeTx.Commit, nativeTx.Rollback, a failed BEGIN or the *)
(* awaitDone goroutine gives one back has released it.                     *)
THEOREM SlotOwned == Spec => []SlotBelongsToItsTransaction
<1>1. IInv => SlotBelongsToItsTransaction
  BY DEF IInv, Parts, SlotInv
<1>2. QED
  BY <1>1, Invariance, PTL

(* A Commit that returns nil has made every acknowledged write durable.    *)
THEOREM CommittedComplete == Spec => []CommittedIsComplete
<1>1. IInv => CommittedIsComplete
  <2> SUFFICES ASSUME IInv, NEW w \in Writes, txOf[w] > 0, verdict[txOf[w]] = "nil", report[w] = "nil"
               PROVE  applied[w] > 0
    BY DEF CommittedIsComplete
  <2> DEFINE n == txOf[w]
  <2>1. /\ TypeOK /\ SlotInv /\ WriteInv(w) /\ n \in 0 .. MaxTx
        /\ \A t \in TxIds : TxInv(t)
    BY DEF IInv, Parts, TypeOK
  <2>2. n \in TxIds
    BY <2>1 DEF TxIds
  <2>3. tx[n] = "closed" /\ n \notin interrupted
    BY <2>1, <2>2 DEF TxInv
  <2>4. w \notin pending
    <3>1. ASSUME w \in pending PROVE Live(n)
      <4>1. slot # NoConn
        BY <2>1, <3>1 DEF SlotInv
      <4>2. QED
        BY <2>1, <3>1, <4>1 DEF SlotInv, SlotBelongsToItsTransaction
    <3>2. QED
      BY <2>3, <3>1 DEF Live
  <2>5. applied[w] = 1
    BY <2>1, <2>3, <2>4 DEF WriteInv
  <2>6. QED
    BY <2>5
<1>2. QED
  BY <1>1, Invariance, PTL

(* A statement takes effect at most once, and a durable write was never    *)
(* reported as a definite failure by its statement or its Commit.          *)
THEOREM EffectsReported == Spec => []EffectsAreReported
<1>1. IInv => EffectsAreReported
  BY DEF IInv, Parts, WriteInv, Reported, EffectsAreReported
<1>2. QED
  BY <1>1, Invariance, PTL

(* database/sql never has more handles open than the artifact allows, for  *)
(* whatever limits the configuration and the setters ask of Driver.Open.   *)
THEOREM PoolOwned == Spec => []PoolWithinOwnership
<1>1. IInv => PoolWithinOwnership
  <2> SUFFICES ASSUME IInv PROVE PoolWithinOwnership
    OBVIOUS
  <2>1. PoolInv /\ maxOpen \in Nat
    BY DEF IInv, TypeOK
  <2>2. Cardinality(OpenHandles) \in Nat
    BY <2>1, FS_CardinalityType DEF PoolInv
  <2>3. QED
    BY <2>1, <2>2 DEF PoolInv, PoolWithinOwnership
<1>2. QED
  BY <1>1, Invariance, PTL
============================================================================
