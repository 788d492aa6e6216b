---------------------------- MODULE ConditionalCore ----------------------------
(***************************************************************************)
(* External: the Core engine that executes a sealed conditional request.   *)
(* Its meaning is read off README.md (typed conditions, closed mutations,  *)
(* i64 counters) and off what conditional.go demands of a receipt.  It is  *)
(* stated with mathematical integers and sets, independently of the byte   *)
(* and machine arithmetic of the SDK's checks, which are compared with it. *)
(***************************************************************************)
EXTENDS ConditionalReceipt

(* What a condition says of the value stored under its key.                *)
Holds(c, v) ==
  \/ c.operator = "eq" /\ v = c.expected
  \/ c.operator = "ne" /\ v # c.expected
  \/ c.operator = "lt" /\ v < c.expected
  \/ c.operator = "le" /\ v <= c.expected
  \/ c.operator = "gt" /\ v > c.expected
  \/ c.operator = "ge" /\ v >= c.expected

(* The counter a value stands for: an absent key counts from zero.         *)
Counter(v) == IF v = Nil THEN 0 ELSE FromBytes(v)

(* A mutation fails only if it is an increment of a value that is not a    *)
(* counter or whose exact sum leaves the i64 range.                        *)
Fails(m, v) ==
  /\ m.kind = "increment"
  /\ v = Short \/ Counter(v) + m.delta \notin Int64

FailureKind(m, v) ==
  IF v = Short THEN "counter_invalid"
  ELSE IF m.delta > 0 THEN "counter_overflow" ELSE "counter_underflow"

Result(m, v) ==
  CASE m.kind = "put"       -> m.value
    [] m.kind = "delete"    -> Nil
    [] m.kind = "increment" -> ToBytes(Counter(v) + m.delta)

First(S) == CHOOSE i \in S : \A j \in S : i <= j

RejectedAt(request, cells) ==
  {i \in 1 .. Len(request.conditions) : ~Holds(request.conditions[i], cells[request.conditions[i].key])}

FailedAt(request, cells) ==
  {i \in 1 .. Len(request.mutations) : Fails(request.mutations[i], cells[request.mutations[i].key])}

(* The conflict of a request on a namespace's cells: the first condition   *)
(* that does not hold, else the first counter that cannot be incremented.  *)
ConflictOf(request, cells) ==
  IF RejectedAt(request, cells) # {}
  THEN [kind |-> "condition_failed", index |-> First(RejectedAt(request, cells))]
  ELSE IF FailedAt(request, cells) # {}
  THEN LET i == First(FailedAt(request, cells))
       IN  [kind |-> FailureKind(request.mutations[i], cells[request.mutations[i].key]), index |-> i]
  ELSE NoConflict

(* The cells after the request: all of its mutations or none.              *)
CellsAfter(request, cells) ==
  IF ConflictOf(request, cells) # NoConflict THEN cells
  ELSE [k \in Keys |->
          IF \E i \in 1 .. Len(request.mutations) : request.mutations[i].key = k
          THEN LET i == CHOOSE i \in 1 .. Len(request.mutations) : request.mutations[i].key = k
               IN  Result(request.mutations[i], cells[k])
          ELSE cells[k]]

I64Field(m, v) == IF m.kind = "increment" /\ v # Short THEN Counter(v) ELSE NoI64

(* The durable receipt of executing the request as the given revision.  A  *)
(* condition reports the value it was compared with, before and after,     *)
(* also when a mutation of the same request changes that key.              *)
CoreReceipt(request, cells, revision) ==
  LET after == CellsAfter(request, cells)
      conflict == ConflictOf(request, cells)
  IN  [form       |-> "receipt",
       requestID  |-> request.id,
       commandSHA |-> conditionalCommandSHA(request),
       revision   |-> revision,
       outcome    |-> IF conflict = NoConflict THEN "applied" ELSE "conflict",
       conflict   |-> conflict,
       conditions |-> [i \in 1 .. Len(request.conditions) |->
                         LET c == request.conditions[i]
                         IN  [index |-> i, keyspace |-> request.namespace, key |-> c.key,
                              before |-> cells[c.key], after |-> cells[c.key],
                              matched |-> IF Holds(c, cells[c.key]) THEN "true" ELSE "false",
                              beforeI64 |-> NoI64, afterI64 |-> NoI64]],
       mutations  |-> [i \in 1 .. Len(request.mutations) |->
                         LET m == request.mutations[i]
                         IN  [index |-> i, keyspace |-> request.namespace, key |-> m.key,
                              before |-> cells[m.key], after |-> after[m.key], matched |-> "absent",
                              beforeI64 |-> I64Field(m, cells[m.key]),
                              afterI64 |-> I64Field(m, after[m.key])]],
       sealed     |-> TRUE]

(* The evidence of a receipt justifies its outcome for this request: read  *)
(* with exact arithmetic, the reported values before the transaction lead  *)
(* to the reported outcome and to the reported values after it.  A counter *)
(* is justified as a number: bytesMatchI64 reads an absent value as zero,  *)
(* so an increment that ends at zero may also be reported as absent.       *)
Justified(r, request) ==
  LET Before(i) == r.mutations[i].before
      Met(i) == Holds(request.conditions[i], r.conditions[i].before)
  IN  IF r.outcome = "applied"
      THEN /\ \A i \in 1 .. Len(request.conditions) : Met(i)
           /\ \A i \in 1 .. Len(request.mutations) :
                /\ ~Fails(request.mutations[i], Before(i))
                /\ IF request.mutations[i].kind = "increment"
                   THEN /\ r.mutations[i].after # Short
                        /\ Counter(r.mutations[i].after) = Counter(Before(i)) + request.mutations[i].delta
                   ELSE r.mutations[i].after = Result(request.mutations[i], Before(i))
      ELSE /\ \A i \in 1 .. Len(request.mutations) : r.mutations[i].after = Before(i)
           /\ \/ /\ r.conflict.kind = "condition_failed"
                 /\ ~Met(r.conflict.index)
                 /\ \A j \in 1 .. r.conflict.index - 1 : Met(j)
              \/ /\ \A i \in 1 .. Len(request.conditions) : Met(i)
                 /\ Fails(request.mutations[r.conflict.index], Before(r.conflict.index))
                 /\ r.conflict.kind = FailureKind(request.mutations[r.conflict.index],
                                                  Before(r.conflict.index))
=============================================================================
