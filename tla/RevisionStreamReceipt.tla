------------------------- MODULE RevisionStreamReceipt -------------------------
(***************************************************************************)
(* The receipt of a revision stream append (revision_stream.go 686-968):   *)
(* one conditional command that carries the caller's side conditions and   *)
(* side mutations, in a namespace, and the stream's own keys, in an        *)
(* internal keyspace, and the checks by which the SDK accepts an answer to *)
(* it.                                                                     *)
(*                                                                         *)
(* A sealed append is a record: id, namespace, the side items conditions   *)
(* and mutations, and what buildRevisionStreamAppend computed, see         *)
(* RevisionStreamMMR: the expected and the new head, the event, its root   *)
(* and the roots of the Merkle nodes it creates.  These are values longer  *)
(* than 8 bytes that are only compared for equality: codes of              *)
(* ConditionalReceipt from 2*Half up.                                      *)
(***************************************************************************)
EXTENDS ConditionalCore

CONSTANT NodeKeys    \* keys of Merkle nodes, in the order an append creates them

ASSUME NodeKeysAssumption ==
  \A i \in DOMAIN NodeKeys : NodeKeys[i] \notin {"head", "event", "time"}

Long(k) == 2 * Half + k

InternalKeyspace == "__revision_stream_v1__"
InternalKeys == {"head", "event", "time"} \cup {NodeKeys[i] : i \in DOMAIN NodeKeys}
NoStreamReceipt == [form |-> "none"]

-----------------------------------------------------------------------------
(* The command of an append: side items first, then the stream's.          *)

AbsentCondition(key) ==
  [keyspace |-> InternalKeyspace, key |-> key, expected |-> Nil, operator |-> "eq"]

InternalPut(key, value, expectedBefore) ==
  [kind |-> "put", keyspace |-> InternalKeyspace, key |-> key, value |-> value, delta |-> 0,
   strictBefore |-> TRUE, expectedBefore |-> expectedBefore]

Conditions(append) ==
  [i \in DOMAIN append.conditions |->
     [keyspace |-> append.namespace, key |-> append.conditions[i].key,
      expected |-> append.conditions[i].expected, operator |-> append.conditions[i].operator]]
  \o <<[AbsentCondition("head") EXCEPT !.expected = append.expectedHead],
       AbsentCondition("event"), AbsentCondition("time")>>
  \o [i \in DOMAIN append.nodes |-> AbsentCondition(NodeKeys[i])]

Mutations(append) ==
  [i \in DOMAIN append.mutations |->
     [kind |-> append.mutations[i].kind, keyspace |-> append.namespace, key |-> append.mutations[i].key,
      value |-> append.mutations[i].value, delta |-> append.mutations[i].delta,
      strictBefore |-> FALSE, expectedBefore |-> Nil]]
  \o <<InternalPut("event", append.event, Nil), InternalPut("time", append.root, Nil),
       InternalPut("head", append.head, append.expectedHead)>>
  \o [i \in DOMAIN append.nodes |-> InternalPut(NodeKeys[i], append.nodes[i], Nil)]

(* strictBefore is the SDK's own expectation and not part of the command.  *)
revisionStreamCommandSHA(conditions, mutations) ==
  <<conditions, [i \in DOMAIN mutations |->
     <<mutations[i].kind, mutations[i].keyspace, mutations[i].key, mutations[i].value, mutations[i].delta>>]>>

CommandSHA(append) == revisionStreamCommandSHA(Conditions(append), Mutations(append))

-----------------------------------------------------------------------------
(* validateRevisionStreamTransactionReceipt.                               *)

(* A condition reports what it compared, and reports it unchanged.         *)
AppendConditionEvidence(o, c) ==
  /\ ConditionEvidence(o, c, c.keyspace)
  /\ o.before = o.after

IncrementLeavesRange(before, delta) ==
  \/ delta > 0 /\ before > (Half - 1) - delta
  \/ delta < 0 /\ before < -Half - delta

AppendIncrementEvidence(o, m) ==
  /\ o.beforeI64 # NoI64
  /\ bytesMatchI64(o.before, o.beforeI64)
  /\ bytesMatchI64(o.after, o.afterI64)
  /\ ~IncrementLeavesRange(o.beforeI64, m.delta)
  /\ o.afterI64 = Wrap(o.beforeI64 + m.delta)

(* Mutant: what an internal key held before the append is not compared.    *)
AppendAppliedEvidence_AnyBefore(o, m) ==
  CASE m.kind = "put"       -> o.after = m.value
    [] m.kind = "delete"    -> o.after = Nil
    [] m.kind = "increment" -> AppendIncrementEvidence(o, m)

AppendAppliedEvidence(o, m) ==
  /\ m.strictBefore => o.before = m.expectedBefore
  /\ CASE m.kind = "put"       -> o.after = m.value
       [] m.kind = "delete"    -> o.after = Nil
       [] m.kind = "increment" -> AppendIncrementEvidence(o, m)

AppendMutationEvidence(o, m, outcome) ==
  /\ o.keyspace = m.keyspace
  /\ o.key = m.key
  /\ o.matched = "absent"
  /\ m.kind # "increment" => o.beforeI64 = NoI64 /\ o.afterI64 = NoI64
  /\ IF outcome = "conflict" THEN o.before = o.after ELSE AppendAppliedEvidence(o, m)

(* Only an increment of the caller can be a counter conflict.              *)
SideCounterConflict(r, append) ==
  r.outcome = "conflict" /\ r.conflict.kind # "condition_failed" =>
    /\ r.conflict.index \in DOMAIN append.mutations
    /\ CounterConflictEvidence(r.mutations[r.conflict.index], append.mutations[r.conflict.index], r.conflict.kind)

validateRevisionStreamTransactionReceipt(r, append) ==
  /\ Len(r.conditions) = Len(Conditions(append))
  /\ Len(r.mutations) = Len(Mutations(append))
  /\ \A i \in DOMAIN r.conditions : AppendConditionEvidence(r.conditions[i], Conditions(append)[i])
  /\ \A i \in DOMAIN r.mutations : AppendMutationEvidence(r.mutations[i], Mutations(append)[i], r.outcome)
  /\ SideCounterConflict(r, append)

-----------------------------------------------------------------------------
(* The stream receipt of an applied append repeats its head and payload.   *)
decodeRevisionStreamReceipt(s, append) ==
  s = [form |-> "stream", stream |-> append.stream, head |-> append.head, payload |-> append.payload]

(* What the decoder of a result and that of a found lookup share.          *)
AppendReceiptAnswers(wire, append) ==
  /\ wire.receipt # NoReceipt
  /\ decodeConditionalReceipt(wire.receipt, append.id)
  /\ wire.revision = wire.receipt.revision
  /\ wire.receipt.commandSHA = CommandSHA(append)
  /\ validateRevisionStreamTransactionReceipt(wire.receipt, append)
  /\ IF wire.receipt.outcome = "applied"
     THEN decodeRevisionStreamReceipt(wire.streamReceipt, append)
     ELSE wire.streamReceipt = NoStreamReceipt
  /\ decodeOptionalQuorumReceipt(wire.quorum, append.id, CommandSHA(append), wire.receipt)

decodeRevisionStreamAppendResult(wire, append) ==
  /\ AppendReceiptAnswers(wire, append)
  /\ wire.result \in {"applied", "duplicate", "conflict"}
  /\ wire.original = wire.receipt.outcome
  /\ wire.applied = (wire.original = "applied")
  /\ wire.duplicate = (wire.result = "duplicate")
  /\ ~wire.duplicate => wire.result = wire.original

decodeRevisionStreamAppendReceiptLookup(wire, append) ==
  /\ wire.requestID = append.id
  /\ \/ /\ wire.result = "indeterminate"
        /\ wire.receipt = NoReceipt
        /\ wire.revision = 0
        /\ wire.streamReceipt = NoStreamReceipt
        /\ wire.quorum # NoQuorum
        /\ decodeOptionalQuorumReceipt(wire.quorum, append.id, CommandSHA(append), NoReceipt)
        /\ wire.quorum.resultSHA = NoReceipt
        /\ wire.quorum.stage # "applied"
     \/ /\ wire.result = "found"
        /\ AppendReceiptAnswers(wire, append)

-----------------------------------------------------------------------------
(* External: Core executes the command over the namespace and the internal *)
(* keyspace as one transaction.                                            *)
CoreAppendReceipt(append, cells, revision) ==
  LET command == [conditions |-> Conditions(append), mutations |-> Mutations(append)]
      conflict == ConflictOf(command, cells)
      After(m) == IF conflict = NoConflict THEN Result(m, cells[m.key]) ELSE cells[m.key]
  IN  [form       |-> "receipt",
       requestID  |-> append.id,
       commandSHA |-> CommandSHA(append),
       revision   |-> revision,
       outcome    |-> IF conflict = NoConflict THEN "applied" ELSE "conflict",
       conflict   |-> conflict,
       conditions |-> [i \in DOMAIN command.conditions |->
                         LET c == command.conditions[i]
                         IN  [index |-> i, keyspace |-> c.keyspace, key |-> c.key,
                              before |-> cells[c.key], after |-> cells[c.key],
                              matched |-> IF Holds(c, cells[c.key]) THEN "true" ELSE "false",
                              beforeI64 |-> NoI64, afterI64 |-> NoI64]],
       mutations  |-> [i \in DOMAIN command.mutations |->
                         LET m == command.mutations[i]
                         IN  [index |-> i, keyspace |-> m.keyspace, key |-> m.key,
                              before |-> cells[m.key], after |-> After(m), matched |-> "absent",
                              beforeI64 |-> I64Field(m, cells[m.key]),
                              afterI64 |-> I64Field(m, After(m))]],
       sealed     |-> TRUE]

(* The evidence of an accepted receipt justifies its outcome for the whole *)
(* command and, when it is applied, moves the stream from the head the     *)
(* caller expected to the one it sealed, over keys that were free.         *)
AppendJustified(r, append) ==
  /\ Justified(r, [conditions |-> Conditions(append), mutations |-> Mutations(append)])
  /\ r.outcome = "applied" =>
       \A i \in DOMAIN r.mutations :
         r.mutations[i].keyspace = InternalKeyspace =>
           r.mutations[i].before = IF r.mutations[i].key = "head" THEN append.expectedHead ELSE Nil
  /\ r.conflict.kind \in CounterConflicts => r.mutations[r.conflict.index].keyspace = append.namespace
=============================================================================
