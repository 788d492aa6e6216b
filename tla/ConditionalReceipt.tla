-------------------------- MODULE ConditionalReceipt --------------------------
(***************************************************************************)
(* The evidence checks of internal/serverprotocol/conditional.go: when the *)
(* SDK accepts a conditional transaction result, a receipt lookup or a     *)
(* quorum receipt as an answer to one sealed request.                      *)
(*                                                                         *)
(* A stored value is an integer code, so that bytes.Compare is the order   *)
(* of the integers:                                                        *)
(*   Nil (-2)         the key is absent (a nil slice),                     *)
(*   Short (-1)       present bytes that are not 8 long (the empty value), *)
(*   0 .. 2*Half-1    8 bytes, read as an unsigned big-endian integer.     *)
(* Half stands for 2^63.  Indexes are TLA+'s, from 1.  SHA-256 is          *)
(* injective: the command hash is the hashed tuple, the receipt hash is    *)
(* the flag "sealed" (it is the hash of the other fields).                 *)
(***************************************************************************)
EXTENDS Integers, Sequences

CONSTANTS Half,        \* 2^63: an i64 lies in -Half .. Half-1
          Keys,        \* user keys
          Namespaces,  \* conditional namespaces
          RequestIDs   \* idempotency keys chosen by callers

ASSUME HalfAssumption == Half \in Nat \ {0}

Nil == -2
Short == -1
Values == Nil .. 2 * Half - 1
Int64 == -Half .. Half - 1
NoI64 == Half             \* an i64 field that is omitted
Operators == {"eq", "ne", "lt", "le", "gt", "ge"}
CounterConflicts == {"counter_invalid", "counter_overflow", "counter_underflow"}
NoConflict == [kind |-> "none", index |-> 0]

Condition == [key: Keys, expected: Values, operator: Operators]
Mutation == [kind: {"put"}, key: Keys, value: Values \ {Nil}, delta: {0}]
              \cup [kind: {"delete"}, key: Keys, value: {Nil}, delta: {0}]
              \cup [kind: {"increment"}, key: Keys, value: {Nil}, delta: Int64]

(* The key checks of buildConditionalRequest: a key appears once among the *)
(* conditions and once among the mutations, and there is a mutation.       *)
WellFormed(request) ==
  /\ Len(request.mutations) > 0
  /\ \A i, j \in 1 .. Len(request.conditions) :
        request.conditions[i].key = request.conditions[j].key => i = j
  /\ \A i, j \in 1 .. Len(request.mutations) :
        request.mutations[i].key = request.mutations[j].key => i = j

conditionalCommandSHA(request) == <<request.namespace, request.conditions, request.mutations>>

-----------------------------------------------------------------------------
(* Machine arithmetic and byte comparison.                                 *)

Wrap(n) == ((n + Half) % (2 * Half)) - Half

(* Mutant: the sign test for a negative addend is dropped.                 *)
addInt64_NoUnderflow(left, right) ==
  [value |-> Wrap(left + right), overflow |-> right > 0 /\ Wrap(left + right) < left]

addInt64(left, right) ==
  LET value == Wrap(left + right)
  IN  [value    |-> value,
       overflow |-> (right > 0 /\ value < left) \/ (right < 0 /\ value > left)]

(* int64(binary.BigEndian.Uint64(value)) and its inverse.                  *)
FromBytes(v) == IF v < Half THEN v ELSE v - 2 * Half
ToBytes(n) == IF n < 0 THEN n + 2 * Half ELSE n

(* Mutant: an absent counter is not read as zero.                          *)
bytesMatchI64_NilIsNoCounter(v, n) == v # Nil /\ v # Short /\ FromBytes(v) = n

bytesMatchI64(v, n) == IF v = Nil THEN n = 0 ELSE v # Short /\ FromBytes(v) = n

compareNullableBytes(left, right) ==
  IF left = right THEN 0 ELSE IF left < right THEN -1 ELSE 1

conditionalValueMatches(actual, expected, operator) ==
  LET comparison == compareNullableBytes(actual, expected)
  IN  CASE operator = "eq" -> comparison = 0
        [] operator = "ne" -> comparison # 0
        [] operator = "lt" -> comparison < 0
        [] operator = "le" -> comparison <= 0
        [] operator = "gt" -> comparison > 0
        [] operator = "ge" -> comparison >= 0
        [] OTHER -> FALSE

-----------------------------------------------------------------------------
(* An observation reports one key before and after the transaction.        *)

Observation == [index: Nat, keyspace: Namespaces, key: Keys, before: Values, after: Values,
                matched: {"absent", "true", "false"},
                beforeI64: Int64 \cup {NoI64}, afterI64: Int64 \cup {NoI64}]

decodeConditionalObservation(o, index, isCondition) ==
  /\ o.index = index
  /\ (o.matched = "absent") = ~isCondition
  /\ (o.beforeI64 = NoI64) = (o.afterI64 = NoI64)
  /\ o.beforeI64 # NoI64 =>
       bytesMatchI64(o.before, o.beforeI64) /\ bytesMatchI64(o.after, o.afterI64)

decodeConditionalConflict(r) ==
  r.conflict # NoConflict =>
    /\ r.conflict.kind \in CounterConflicts \cup {"condition_failed"}
    /\ r.conflict.index \in 1 .. IF r.conflict.kind = "condition_failed"
                                 THEN Len(r.conditions) ELSE Len(r.mutations)

(* firstRejected: the conflict names the first condition observed to fail, *)
(* and names a condition only if one failed.                               *)
ConflictNamesFirstRejected(r) ==
  LET Rejected(i) == r.conditions[i].matched = "false"
  IN  /\ \A i \in 1 .. Len(r.conditions) : r.conditions[i].before = r.conditions[i].after
      /\ \A i \in 1 .. Len(r.conditions) :
           (Rejected(i) /\ \A j \in 1 .. i - 1 : ~Rejected(j))
             => r.conflict = [kind |-> "condition_failed", index |-> i]
      /\ r.conflict.kind = "condition_failed" => \E i \in 1 .. Len(r.conditions) : Rejected(i)

decodeConditionalReceipt(r, requestID) ==
  /\ r.requestID = requestID
  /\ r.revision # 0
  /\ r.mutations # <<>>
  /\ r.outcome \in {"applied", "conflict"}
  /\ (r.outcome = "applied") = (r.conflict = NoConflict)
  /\ decodeConditionalConflict(r)
  /\ \A i \in 1 .. Len(r.conditions) : decodeConditionalObservation(r.conditions[i], i, TRUE)
  /\ \A i \in 1 .. Len(r.mutations) : decodeConditionalObservation(r.mutations[i], i, FALSE)
  /\ IF r.outcome = "applied"
     THEN \A i \in 1 .. Len(r.conditions) : r.conditions[i].matched = "true"
     ELSE ConflictNamesFirstRejected(r)
  /\ r.sealed

-----------------------------------------------------------------------------
(* validateReceiptAgainstRequest, one observation at a time.               *)

ConditionEvidence(o, c, namespace) ==
  /\ o.keyspace = namespace
  /\ o.key = c.key
  /\ o.matched # "absent"
  /\ o.beforeI64 = NoI64 /\ o.afterI64 = NoI64
  /\ (o.matched = "true") <=> conditionalValueMatches(o.before, c.expected, c.operator)

CounterConflictEvidence(o, m, kind) ==
  /\ m.kind = "increment"
  /\ IF kind = "counter_invalid"
     THEN o.before = Short /\ o.beforeI64 = NoI64 /\ o.afterI64 = NoI64
     ELSE /\ o.beforeI64 # NoI64
          /\ o.beforeI64 = o.afterI64
          /\ addInt64(o.beforeI64, m.delta).overflow
          /\ (kind = "counter_overflow") = (m.delta > 0)
          /\ (kind = "counter_underflow") = (m.delta < 0)

AppliedEvidence(o, m) ==
  CASE m.kind = "put"       -> o.after = m.value
    [] m.kind = "delete"    -> o.after = Nil
    [] m.kind = "increment" ->
         /\ o.beforeI64 # NoI64
         /\ bytesMatchI64(o.before, o.beforeI64)
         /\ bytesMatchI64(o.after, o.afterI64)
         /\ addInt64(o.beforeI64, m.delta) = [value |-> o.afterI64, overflow |-> FALSE]

MutationEvidence(o, m, namespace, r, i) ==
  /\ o.keyspace = namespace
  /\ o.key = m.key
  /\ o.matched = "absent"
  /\ m.kind # "increment" => o.beforeI64 = NoI64 /\ o.afterI64 = NoI64
  /\ IF r.outcome = "conflict"
     THEN /\ o.before = o.after
          /\ (r.conflict.index = i /\ r.conflict.kind # "condition_failed")
               => CounterConflictEvidence(o, m, r.conflict.kind)
     ELSE AppliedEvidence(o, m)

validateReceiptAgainstRequest(r, request) ==
  /\ Len(r.conditions) = Len(request.conditions)
  /\ Len(r.mutations) = Len(request.mutations)
  /\ \A i \in 1 .. Len(r.conditions) :
       ConditionEvidence(r.conditions[i], request.conditions[i], request.namespace)
  /\ \A i \in 1 .. Len(r.mutations) :
       MutationEvidence(r.mutations[i], request.mutations[i], request.namespace, r, i)

-----------------------------------------------------------------------------
(* Quorum receipts.  resultSHA is the receipt whose canonical JSON it      *)
(* hashes, NoReceipt for a JSON null; NoQuorum is the omitted member.      *)

NoReceipt == [form |-> "none"]
NoQuorum == [form |-> "absent"]

decodeOptionalQuorumReceipt(q, requestID, commandSHA, receipt) ==
  q # NoQuorum =>
    /\ q.requestID = requestID
    /\ q.commandSHA = commandSHA
    /\ q.index # 0
    /\ q.stage \in {"accepted", "committed", "applied"}
    /\ q.durability = IF q.stage = "accepted" THEN "local_fsync" ELSE "quorum_fsync"
    /\ receipt # NoReceipt => q.index = receipt.revision /\ q.stage = "applied" /\ q.resultSHA = receipt

(* Mutant: the receipt need not be for this very command.                  *)
ReceiptAnswers_AnyCommand(wire, request) ==
  /\ wire.receipt # NoReceipt
  /\ decodeConditionalReceipt(wire.receipt, request.id)
  /\ wire.revision = wire.receipt.revision
  /\ validateReceiptAgainstRequest(wire.receipt, request)

(* What the decoder of a result and that of a found lookup share.          *)
ReceiptAnswers(wire, request) ==
  /\ wire.receipt # NoReceipt
  /\ decodeConditionalReceipt(wire.receipt, request.id)
  /\ wire.revision = wire.receipt.revision
  /\ wire.receipt.commandSHA = conditionalCommandSHA(request)
  /\ validateReceiptAgainstRequest(wire.receipt, request)
  /\ decodeOptionalQuorumReceipt(wire.quorum, request.id, conditionalCommandSHA(request), wire.receipt)

decodeConditionalTransactionResult(wire, request) ==
  /\ ReceiptAnswers(wire, request)
  /\ wire.result \in {"applied", "duplicate", "conflict"}
  /\ wire.original = wire.receipt.outcome
  /\ wire.applied = (wire.original = "applied")
  /\ wire.duplicate = (wire.result = "duplicate")
  /\ ~wire.duplicate => wire.result = wire.original

(* Mutant: a lookup is matched by its request ID alone.                    *)
decodeConditionalReceiptLookup_ByIDOnly(wire, request) ==
  /\ wire.requestID = request.id
  /\ \/ wire.result = "indeterminate" /\ wire.quorum # NoQuorum
     \/ wire.result = "found" /\ wire.receipt # NoReceipt
          /\ decodeConditionalReceipt(wire.receipt, request.id)

decodeConditionalReceiptLookup(wire, request) ==
  /\ wire.requestID = request.id
  /\ \/ /\ wire.result = "indeterminate"
        /\ wire.receipt = NoReceipt
        /\ wire.revision = 0
        /\ wire.quorum # NoQuorum
        /\ decodeOptionalQuorumReceipt(wire.quorum, request.id, conditionalCommandSHA(request), NoReceipt)
        /\ wire.quorum.resultSHA = NoReceipt
        /\ wire.quorum.stage # "applied"
     \/ /\ wire.result = "found"
        /\ ReceiptAnswers(wire, request)
=============================================================================
