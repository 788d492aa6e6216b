----------------------- MODULE ConditionalReceiptProofs -----------------------
(***************************************************************************)
(* The receipt checks of conditional.go are sound and complete with        *)
(* respect to exact integers, for every width of the counter, every        *)
(* request and every receipt: an accepted receipt proves its outcome, and  *)
(* no receipt that Core produces is rejected.                              *)
(***************************************************************************)
EXTENDS ConditionalCore, WellFoundedInduction, TLAPS

USE DEF Nil, Short, Values, Int64, NoI64, NoConflict

(* What the wire decoders guarantee of the fields of a receipt before the  *)
(* checks run, and what a sealed request holds.                            *)
RequestType(request) ==
  /\ request.conditions \in Seq(Condition)
  /\ request.mutations \in Seq(Mutation)
  /\ WellFormed(request)

ReceiptType(r) ==
  /\ r.conditions \in Seq(Observation)
  /\ r.mutations \in Seq(Observation)
  /\ r.conflict \in {NoConflict} \cup [kind: CounterConflicts \cup {"condition_failed"}, index: Nat]

(* A non-empty set of naturals has a least element.                        *)
LEMMA LeastElement ==
  ASSUME NEW S, S \subseteq Nat, S # {}
  PROVE  \E f \in S : \A j \in S : f <= j
<1> DEFINE R == {ss \in Nat \X Nat : ss[1] < ss[2]}
<1>1. R = OpToRel(<, Nat)
  BY DEF OpToRel
<1>2. IsWellFoundedOn(R, Nat)
  BY <1>1, NatLessThanWellFounded, Zenon
<1> HIDE DEF R
<1>3. PICK f \in S : \A j \in S : ~(<<j, f>> \in R)
  BY <1>2, WFMin
<1>4. \A j \in S : ~(j < f)
  BY <1>3 DEF R
<1> QED
  BY <1>4

(* addInt64 (conditional.go 1114) computes the exact sum and reports       *)
(* overflow exactly when that sum is no i64, on the side of the addend.    *)
LEMMA AddInt64Exact ==
  ASSUME NEW x \in Int64, NEW y \in Int64
  PROVE  /\ addInt64(x, y).overflow <=> x + y \notin Int64
         /\ x + y \in Int64 => addInt64(x, y) = [value |-> x + y, overflow |-> FALSE]
         /\ x + y \notin Int64 => (y > 0 \/ y < 0)
<1>1. /\ x + y >= Half => Wrap(x + y) = x + y - 2 * Half
      /\ x + y < -Half => Wrap(x + y) = x + y + 2 * Half
      /\ x + y \in Int64 => Wrap(x + y) = x + y
  BY HalfAssumption DEF Wrap
<1> DEFINE o == (y > 0 /\ Wrap(x + y) < x) \/ (y < 0 /\ Wrap(x + y) > x)
<1>2. addInt64(x, y) = [value |-> Wrap(x + y), overflow |-> o]
  BY DEF addInt64
<1>3. o <=> x + y \notin Int64
  BY <1>1, HalfAssumption
<1>4. addInt64(x, y).overflow = o
  BY <1>2
<1>5. x + y \in Int64 => addInt64(x, y) = [value |-> x + y, overflow |-> FALSE]
  <2> SUFFICES ASSUME x + y \in Int64 PROVE addInt64(x, y) = [value |-> x + y, overflow |-> FALSE]
    OBVIOUS
  <2>1. o = FALSE /\ Wrap(x + y) = x + y
    BY <1>1, <1>3
  <2> HIDE DEF o
  <2> QED
    BY <1>2, <2>1, Zenon
<1>6. x + y \notin Int64 => (y > 0 \/ y < 0)
  BY HalfAssumption
<1> HIDE DEF o
<1> QED
  BY <1>3, <1>6, <1>4, <1>5, Zenon

(* The two readings of eight bytes are inverse to each other.              *)
LEMMA BytesRoundTrip ==
  /\ \A n \in Int64 : ToBytes(n) \in 0 .. 2 * Half - 1 /\ FromBytes(ToBytes(n)) = n
  /\ \A v \in Values : v >= 0 => FromBytes(v) \in Int64
BY HalfAssumption DEF ToBytes, FromBytes

(* A numeric field that matches the bytes is the counter they stand for.   *)
LEMMA MatchIsCounter ==
  ASSUME NEW v \in Values, NEW n \in Int64
  PROVE  bytesMatchI64(v, n) <=> (v # Short /\ Counter(v) = n)
BY HalfAssumption DEF bytesMatchI64, Counter

LEMMA CounterType ==
  ASSUME NEW v \in Values, v # Short
  PROVE  Counter(v) \in Int64
BY HalfAssumption DEF Counter, FromBytes

(* conditionalValueMatches (conditional.go 1119) is the operator's meaning. *)
LEMMA MatchesIsHolds ==
  ASSUME NEW c \in Condition, NEW v \in Values
  PROVE  conditionalValueMatches(v, c.expected, c.operator) <=> Holds(c, v)
<1>1. c.expected \in Int /\ v \in Int /\ c.operator \in Operators
  BY HalfAssumption DEF Condition
<1>2. compareNullableBytes(v, c.expected) = IF v = c.expected THEN 0 ELSE IF v < c.expected THEN -1 ELSE 1
  BY DEF compareNullableBytes
<1>3. CASE c.operator = "eq" BY <1>1, <1>2, <1>3 DEF conditionalValueMatches, Holds
<1>4. CASE c.operator = "ne" BY <1>1, <1>2, <1>4 DEF conditionalValueMatches, Holds
<1>5. CASE c.operator = "lt" BY <1>1, <1>2, <1>5 DEF conditionalValueMatches, Holds
<1>6. CASE c.operator = "le" BY <1>1, <1>2, <1>6 DEF conditionalValueMatches, Holds
<1>7. CASE c.operator = "gt" BY <1>1, <1>2, <1>7 DEF conditionalValueMatches, Holds
<1>8. CASE c.operator = "ge" BY <1>1, <1>2, <1>8 DEF conditionalValueMatches, Holds
<1> QED
  BY <1>1, <1>3, <1>4, <1>5, <1>6, <1>7, <1>8 DEF Operators

-----------------------------------------------------------------------------
(* Soundness, observation by observation.                                  *)

(* An accepted increment of an applied receipt was in range and exact.     *)
LEMMA AppliedEvidenceSound ==
  ASSUME NEW o \in Observation, NEW m \in Mutation, NEW i, decodeConditionalObservation(o, i, FALSE),
         AppliedEvidence(o, m)
  PROVE  /\ ~Fails(m, o.before)
         /\ m.kind = "increment" => o.after # Short /\ Counter(o.after) = Counter(o.before) + m.delta
         /\ m.kind # "increment" => o.after = Result(m, o.before)
<1>1. CASE m.kind = "increment"
  <2>1. o.beforeI64 \in Int64 /\ o.afterI64 \in Int64 /\ m.delta \in Int64
        /\ o.before \in Values /\ o.after \in Values
    BY <1>1, HalfAssumption DEF AppliedEvidence, decodeConditionalObservation, Observation, Mutation
  <2>2. /\ o.before # Short /\ Counter(o.before) = o.beforeI64
        /\ o.after # Short /\ Counter(o.after) = o.afterI64
    BY <1>1, <2>1, MatchIsCounter DEF AppliedEvidence
  <2>3. /\ ~addInt64(o.beforeI64, m.delta).overflow
        /\ addInt64(o.beforeI64, m.delta).value = o.afterI64
    BY <1>1 DEF AppliedEvidence
  <2> QED
    BY <1>1, <2>1, <2>2, <2>3, AddInt64Exact DEF Fails
<1>2. CASE m.kind # "increment"
  BY <1>2 DEF AppliedEvidence, Fails, Result, Mutation
<1> QED
  BY <1>1, <1>2

(* The evidence for a counter conflict shows an increment that fails.      *)
LEMMA CounterConflictSound ==
  ASSUME NEW o \in Observation, NEW m \in Mutation, NEW i, NEW kind \in CounterConflicts,
         decodeConditionalObservation(o, i, FALSE), CounterConflictEvidence(o, m, kind)
  PROVE  Fails(m, o.before) /\ kind = FailureKind(m, o.before)
<1>1. CASE kind = "counter_invalid"
  BY <1>1 DEF CounterConflictEvidence, Fails, FailureKind
<1>2. CASE kind # "counter_invalid"
  <2>1. o.beforeI64 \in Int64 /\ m.delta \in Int64 /\ o.before \in Values /\ m.kind = "increment"
    BY <1>2, HalfAssumption DEF CounterConflictEvidence, Observation, Mutation
  <2>2. o.before # Short /\ Counter(o.before) = o.beforeI64
    BY <1>2, <2>1, MatchIsCounter DEF CounterConflictEvidence, decodeConditionalObservation
  <2>3. Counter(o.before) + m.delta \notin Int64
    BY <1>2, <2>1, <2>2, AddInt64Exact DEF CounterConflictEvidence
  <2>4. kind = IF m.delta > 0 THEN "counter_overflow" ELSE "counter_underflow"
    BY <1>2, <2>1 DEF CounterConflictEvidence, CounterConflicts
  <2> QED
    BY <2>1, <2>2, <2>3, <2>4 DEF Fails, FailureKind
<1> QED
  BY <1>1, <1>2
-----------------------------------------------------------------------------
(* Soundness: a receipt that passes decodeConditionalReceipt (721-784) and *)
(* validateReceiptAgainstRequest (1045-1112) proves its outcome.  Whatever *)
(* Core or the network did, the reported values before the transaction     *)
(* lead, with exact arithmetic, to the reported outcome and values after.  *)
THEOREM AcceptedReceiptJustified ==
  ASSUME NEW request, NEW r, NEW requestID, RequestType(request), ReceiptType(r),
         decodeConditionalReceipt(r, requestID), validateReceiptAgainstRequest(r, request)
  PROVE  Justified(r, request)
<1> DEFINE nc == Len(request.conditions)
           nm == Len(request.mutations)
           Met(i) == Holds(request.conditions[i], r.conditions[i].before)
<1>1. nc \in Nat /\ nm \in Nat /\ Len(r.conditions) = nc /\ Len(r.mutations) = nm
  BY DEF RequestType, validateReceiptAgainstRequest
<1>2. ASSUME NEW i \in 1 .. nc
      PROVE  /\ request.conditions[i] \in Condition
             /\ r.conditions[i] \in Observation
             /\ r.conditions[i].matched \in {"true", "false"}
             /\ (r.conditions[i].matched = "true") <=> Met(i)
  <2>1. request.conditions[i] \in Condition /\ r.conditions[i] \in Observation
    BY <1>1, <1>2 DEF RequestType, ReceiptType
  <2>2. r.conditions[i].before \in Values
    BY <2>1 DEF Observation
  <2>3. ConditionEvidence(r.conditions[i], request.conditions[i], request.namespace)
    BY <1>1, <1>2 DEF validateReceiptAgainstRequest
  <2>4. r.conditions[i].matched \in {"true", "false"}
    BY <2>1, <2>3 DEF ConditionEvidence, Observation
  <2>5. (r.conditions[i].matched = "true") <=> Met(i)
    BY <2>1, <2>2, <2>3, MatchesIsHolds DEF ConditionEvidence
  <2> QED
    BY <2>1, <2>4, <2>5
<1>3. ASSUME NEW i \in 1 .. nm
      PROVE  /\ request.mutations[i] \in Mutation
             /\ r.mutations[i] \in Observation
             /\ decodeConditionalObservation(r.mutations[i], i, FALSE)
             /\ MutationEvidence(r.mutations[i], request.mutations[i], request.namespace, r, i)
  <2>1. request.mutations[i] \in Mutation /\ r.mutations[i] \in Observation
    BY <1>1, <1>3 DEF RequestType, ReceiptType
  <2>2. decodeConditionalObservation(r.mutations[i], i, FALSE)
    BY <1>1, <1>3 DEF decodeConditionalReceipt
  <2>3. MutationEvidence(r.mutations[i], request.mutations[i], request.namespace, r, i)
    BY <1>1, <1>3 DEF validateReceiptAgainstRequest
  <2> QED
    BY <2>1, <2>2, <2>3
<1>4. CASE r.outcome = "applied"
  <2>1. ASSUME NEW i \in 1 .. nc PROVE Met(i)
    BY <1>1, <1>2, <1>4, <2>1 DEF decodeConditionalReceipt
  <2>2. ASSUME NEW i \in 1 .. nm
        PROVE  /\ ~Fails(request.mutations[i], r.mutations[i].before)
               /\ IF request.mutations[i].kind = "increment"
                  THEN /\ r.mutations[i].after # Short
                       /\ Counter(r.mutations[i].after)
                            = Counter(r.mutations[i].before) + request.mutations[i].delta
                  ELSE r.mutations[i].after = Result(request.mutations[i], r.mutations[i].before)
    <3>1. AppliedEvidence(r.mutations[i], request.mutations[i])
      BY <1>3, <1>4, <2>2 DEF MutationEvidence
    <3> QED
      BY <1>3, <2>2, <3>1, AppliedEvidenceSound
  <2> QED
    BY <1>4, <2>1, <2>2 DEF Justified
<1>5. CASE r.outcome = "conflict"
  <2>1. \A i \in 1 .. nm : r.mutations[i].after = r.mutations[i].before
    BY <1>3, <1>5 DEF MutationEvidence
  <2>2. r.conflict # NoConflict /\ decodeConditionalConflict(r) /\ ConflictNamesFirstRejected(r)
    BY <1>5 DEF decodeConditionalReceipt
  <2>3. CASE r.conflict.kind = "condition_failed"
    <3> DEFINE F == {i \in 1 .. nc : r.conditions[i].matched = "false"}
    <3>1. F \subseteq Nat /\ F # {}
      BY <1>1, <2>2, <2>3 DEF ConflictNamesFirstRejected
    <3> HIDE DEF F
    <3>2. PICK f \in F : \A j \in F : f <= j
      BY <3>1, LeastElement
    <3>3. f \in 1 .. nc /\ r.conditions[f].matched = "false"
          /\ \A j \in 1 .. f - 1 : j \in 1 .. nc /\ r.conditions[j].matched # "false"
      BY <1>1, <3>2 DEF F
    <3>4. r.conflict = [kind |-> "condition_failed", index |-> f]
      BY <1>1, <2>2, <3>3 DEF ConflictNamesFirstRejected
    <3>5. r.conflict.index = f
      BY <3>4
    <3>6. ~Met(f)
      BY <1>2, <3>3
    <3>7. \A j \in 1 .. f - 1 : Met(j)
      BY <1>2, <3>3
    <3> QED
      BY <1>5, <2>1, <2>3, <3>5, <3>6, <3>7 DEF Justified
  <2>4. CASE r.conflict.kind # "condition_failed"
    <3> DEFINE x == r.conflict.index
    <3>1. r.conflict.kind \in CounterConflicts /\ x \in 1 .. nm
      BY <1>1, <2>2, <2>4 DEF decodeConditionalConflict
    <3>2. ASSUME NEW i \in 1 .. nc PROVE Met(i)
      <4> SUFFICES ASSUME r.conditions[i].matched = "false" PROVE FALSE
        BY <1>2, <3>2
      <4> DEFINE F == {j \in 1 .. nc : r.conditions[j].matched = "false"}
      <4>1. F \subseteq Nat /\ F # {}
        BY <1>1, <3>2
      <4> HIDE DEF F
      <4>2. PICK f \in F : \A j \in F : f <= j
        BY <4>1, LeastElement
      <4>3. f \in 1 .. nc /\ r.conditions[f].matched = "false"
            /\ \A j \in 1 .. f - 1 : ~(r.conditions[j].matched = "false")
        BY <1>1, <4>2 DEF F
      <4>4. r.conflict = [kind |-> "condition_failed", index |-> f]
        BY <1>1, <2>2, <4>3 DEF ConflictNamesFirstRejected
      <4> QED
        BY <2>4, <4>4
    <3>3. CounterConflictEvidence(r.mutations[x], request.mutations[x], r.conflict.kind)
      BY <1>3, <1>5, <2>4, <3>1 DEF MutationEvidence
    <3>4. Fails(request.mutations[x], r.mutations[x].before)
          /\ r.conflict.kind = FailureKind(request.mutations[x], r.mutations[x].before)
      BY <1>3, <3>1, <3>3, CounterConflictSound
    <3> QED
      BY <1>5, <2>1, <3>2, <3>4 DEF Justified
  <2> QED
    BY <2>3, <2>4
<1> QED
  BY <1>4, <1>5 DEF decodeConditionalReceipt

-----------------------------------------------------------------------------
(* Completeness.                                                           *)

LEMMA FirstIsLeast ==
  ASSUME NEW S, S \subseteq Nat, S # {}
  PROVE  First(S) \in S /\ \A j \in S : First(S) <= j
<1>1. \E f \in S : \A j \in S : f <= j
  BY LeastElement
<1> QED
  BY <1>1 DEF First

(* A mutation that does not fail yields a storable value.                  *)
LEMMA ResultType ==
  ASSUME NEW m \in Mutation, NEW v \in Values, ~Fails(m, v)
  PROVE  /\ Result(m, v) \in Values
         /\ m.kind = "increment" => /\ v # Short
                                    /\ Result(m, v) \notin {Nil, Short}
                                    /\ Counter(Result(m, v)) = Counter(v) + m.delta
<1>1. CASE m.kind = "increment"
  <2>1. v # Short /\ Counter(v) + m.delta \in Int64
    BY <1>1 DEF Fails
  <2>2. Result(m, v) = ToBytes(Counter(v) + m.delta)
    BY <1>1 DEF Result
  <2>3. Result(m, v) \in 0 .. 2 * Half - 1 /\ FromBytes(Result(m, v)) = Counter(v) + m.delta
    BY <2>1, <2>2, BytesRoundTrip
  <2> QED
    BY <2>1, <2>3, HalfAssumption DEF Counter
<1>2. CASE m.kind # "increment"
  BY <1>2, HalfAssumption DEF Result, Mutation
<1> QED
  BY <1>1, <1>2

(* The cells after a request: all of its mutations when there is no        *)
(* conflict, and the same cells otherwise.                                 *)
LEMMA CellsAfterMutations ==
  ASSUME NEW request, RequestType(request), NEW cells \in [Keys -> Values]
  PROVE  /\ CellsAfter(request, cells) \in [Keys -> Values]
         /\ ConflictOf(request, cells) # NoConflict => CellsAfter(request, cells) = cells
         /\ ConflictOf(request, cells) = NoConflict =>
              /\ RejectedAt(request, cells) = {}
              /\ \A i \in 1 .. Len(request.mutations) :
                   LET m == request.mutations[i]
                   IN  /\ ~Fails(m, cells[m.key])
                       /\ CellsAfter(request, cells)[m.key] = Result(m, cells[m.key])
<1>1. CASE ConflictOf(request, cells) # NoConflict
  BY <1>1 DEF CellsAfter
<1>2. CASE ConflictOf(request, cells) = NoConflict
  <2> DEFINE ms == request.mutations
  <2>1. RejectedAt(request, cells) = {}
    BY <1>2 DEF ConflictOf
  <2>2. FailedAt(request, cells) = {}
    <3> SUFFICES ASSUME FailedAt(request, cells) # {} PROVE FALSE
      OBVIOUS
    <3>1. FailedAt(request, cells) \subseteq Nat \ {0}
      BY DEF FailedAt, RequestType
    <3>2. First(FailedAt(request, cells)) \in Nat \ {0}
      BY <3>1, FirstIsLeast
    <3> QED
      BY <1>2, <2>1, <3>2 DEF ConflictOf
  <2>3. \A i \in 1 .. Len(ms) : ms[i] \in Mutation /\ ms[i].key \in Keys /\ ~Fails(ms[i], cells[ms[i].key])
    BY <2>2 DEF FailedAt, RequestType, Mutation
  <2>4. ASSUME NEW i \in 1 .. Len(ms)
        PROVE  CellsAfter(request, cells)[ms[i].key] = Result(ms[i], cells[ms[i].key])
    <3>1. (CHOOSE j \in 1 .. Len(ms) : ms[j].key = ms[i].key) = i
      BY <2>4 DEF RequestType, WellFormed
    <3> QED
      BY <1>2, <2>3, <2>4, <3>1 DEF CellsAfter
  <2>5. CellsAfter(request, cells) \in [Keys -> Values]
    <3>1. ASSUME NEW key \in Keys, NEW i \in 1 .. Len(ms), ms[i].key = key
          PROVE  LET j == CHOOSE j \in 1 .. Len(ms) : ms[j].key = key
                 IN  Result(ms[j], cells[key]) \in Values
      <4>1. PICK j \in 1 .. Len(ms) : j = CHOOSE x \in 1 .. Len(ms) : ms[x].key = key
        BY <3>1
      <4>2. ms[j].key = key
        BY <3>1, <4>1
      <4> QED
        BY <2>3, <4>1, <4>2, ResultType
    <3> QED
      BY <1>2, <3>1 DEF CellsAfter
  <2> QED
    BY <1>2, <2>1, <2>3, <2>4, <2>5
<1> QED
  BY <1>1, <1>2

(* The i64 fields Core reports match the bytes they describe.              *)
LEMMA I64FieldMatches ==
  ASSUME NEW m \in Mutation, NEW v \in Values
  PROVE  /\ I64Field(m, v) \in Int64 \cup {NoI64}
         /\ I64Field(m, v) # NoI64 <=> m.kind = "increment" /\ v # Short
         /\ I64Field(m, v) # NoI64 => /\ I64Field(m, v) = Counter(v)
                                     /\ Counter(v) \in Int64
                                     /\ bytesMatchI64(v, I64Field(m, v))
<1>1. CASE m.kind = "increment" /\ v # Short
  <2>1. I64Field(m, v) = Counter(v) /\ Counter(v) \in Int64
    BY <1>1, CounterType DEF I64Field
  <2>2. bytesMatchI64(v, Counter(v))
    BY <1>1, <2>1, MatchIsCounter
  <2> QED
    BY <1>1, <2>1, <2>2, HalfAssumption
<1>2. CASE ~(m.kind = "increment" /\ v # Short)
  BY <1>2 DEF I64Field
<1> QED
  BY <1>1, <1>2

(* The evidence Core gives for one mutation passes every check on it.      *)
LEMMA GenuineMutation ==
  ASSUME NEW request, RequestType(request), NEW cells \in [Keys -> Values], NEW revision,
         NEW i \in 1 .. Len(request.mutations)
  PROVE  LET r == CoreReceipt(request, cells, revision)
         IN  /\ r.mutations[i] \in [index: {i}, keyspace: {request.namespace}, key: {request.mutations[i].key},
                                    before: Values, after: Values, matched: {"absent"},
                                    beforeI64: Int64 \cup {NoI64}, afterI64: Int64 \cup {NoI64}]
             /\ decodeConditionalObservation(r.mutations[i], i, FALSE)
             /\ MutationEvidence(r.mutations[i], request.mutations[i], request.namespace, r, i)
<1> DEFINE r == CoreReceipt(request, cells, revision)
           o == r.mutations[i]
           m == request.mutations[i]
           after == CellsAfter(request, cells)
           before == cells[m.key]
<1>1. m \in Mutation /\ m.key \in Keys /\ before \in Values /\ after[m.key] \in Values
  BY CellsAfterMutations, SMTT(30) DEF RequestType, Mutation
<1>2. o = [index |-> i, keyspace |-> request.namespace, key |-> m.key, before |-> before,
           after |-> after[m.key], matched |-> "absent",
           beforeI64 |-> I64Field(m, before), afterI64 |-> I64Field(m, after[m.key])]
  BY DEF CoreReceipt
<1>3. r.conflict = ConflictOf(request, cells)
      /\ r.outcome = IF ConflictOf(request, cells) = NoConflict THEN "applied" ELSE "conflict"
  BY DEF CoreReceipt
<1> HIDE DEF r, o, m, after, before
<1>4. /\ I64Field(m, before) \in Int64 \cup {NoI64} /\ I64Field(m, after[m.key]) \in Int64 \cup {NoI64}
      /\ I64Field(m, before) # NoI64 <=> m.kind = "increment" /\ before # Short
      /\ I64Field(m, after[m.key]) # NoI64 <=> m.kind = "increment" /\ after[m.key] # Short
  BY <1>1, I64FieldMatches
<1>5. /\ I64Field(m, before) # NoI64 => /\ bytesMatchI64(before, I64Field(m, before))
                                       /\ I64Field(m, before) = Counter(before)
                                       /\ Counter(before) \in Int64
      /\ I64Field(m, after[m.key]) # NoI64 => /\ bytesMatchI64(after[m.key], I64Field(m, after[m.key]))
                                             /\ I64Field(m, after[m.key]) = Counter(after[m.key])
  BY <1>1, I64FieldMatches
<1>6. ASSUME ConflictOf(request, cells) = NoConflict
      PROVE  decodeConditionalObservation(o, i, FALSE) /\ MutationEvidence(o, m, request.namespace, r, i)
  <2>1. ~Fails(m, before) /\ after[m.key] = Result(m, before)
    BY <1>6, CellsAfterMutations DEF m, before, after
  <2>2. m.kind = "increment" => /\ before # Short /\ after[m.key] # Short
                               /\ Counter(after[m.key]) = Counter(before) + m.delta
    BY <1>1, <2>1, ResultType
  <2>3. m.kind = "increment" =>
          addInt64(Counter(before), m.delta) = [value |-> Counter(after[m.key]), overflow |-> FALSE]
    <3> SUFFICES ASSUME m.kind = "increment"
                 PROVE  addInt64(Counter(before), m.delta)
                          = [value |-> Counter(after[m.key]), overflow |-> FALSE]
      OBVIOUS
    <3>1. Counter(before) \in Int64 /\ m.delta \in Int64 /\ Counter(before) + m.delta \in Int64
      BY <1>1, <1>4, <1>5, <2>1, <2>2 DEF Fails, Mutation
    <3>2. addInt64(Counter(before), m.delta) = [value |-> Counter(before) + m.delta, overflow |-> FALSE]
      BY <3>1, AddInt64Exact
    <3> QED
      BY <2>2, <3>2, Zenon
  <2>4. AppliedEvidence(o, m)
    BY <1>1, <1>2, <1>4, <1>5, <2>1, <2>2, <2>3 DEF AppliedEvidence, Result, Mutation
  <2>5. decodeConditionalObservation(o, i, FALSE)
    BY <1>2, <1>4, <1>5, <2>2 DEF decodeConditionalObservation
  <2>6. MutationEvidence(o, m, request.namespace, r, i)
    BY <1>2, <1>3, <1>4, <1>6, <2>4 DEF MutationEvidence
  <2> QED
    BY <2>5, <2>6
<1>7. ASSUME ConflictOf(request, cells) # NoConflict
      PROVE  decodeConditionalObservation(o, i, FALSE) /\ MutationEvidence(o, m, request.namespace, r, i)
  <2>1. after[m.key] = before
    BY <1>7, CellsAfterMutations DEF m, before, after
  <2>2. decodeConditionalObservation(o, i, FALSE)
    BY <1>2, <1>4, <1>5, <2>1 DEF decodeConditionalObservation
  <2>3. ASSUME r.conflict.index = i, r.conflict.kind # "condition_failed"
        PROVE  CounterConflictEvidence(o, m, r.conflict.kind)
    <3> DEFINE S == FailedAt(request, cells)
    <3>1. RejectedAt(request, cells) = {} /\ S # {}
          /\ r.conflict = [kind |-> FailureKind(request.mutations[First(S)],
                                               cells[request.mutations[First(S)].key]),
                           index |-> First(S)]
      BY <1>3, <1>7, <2>3 DEF ConflictOf
    <3>2. S \subseteq Nat
      BY DEF FailedAt, RequestType
    <3>3. First(S) = i /\ i \in S
      BY <2>3, <3>1, <3>2, FirstIsLeast
    <3>4. Fails(m, before)
      BY <3>3 DEF FailedAt, m, before
    <3> HIDE DEF S
    <3>5. r.conflict.kind = FailureKind(m, before)
      BY <3>1, <3>3 DEF m, before
    <3>6. CASE before = Short
      BY <1>2, <1>4, <2>1, <3>4, <3>5, <3>6 DEF CounterConflictEvidence, FailureKind, Fails
    <3>7. CASE before # Short
      <4>1. m.kind = "increment" /\ Counter(before) \in Int64 /\ m.delta \in Int64
            /\ Counter(before) + m.delta \notin Int64
        BY <1>1, <1>4, <1>5, <3>4, <3>7 DEF Fails, Mutation
      <4>2. addInt64(Counter(before), m.delta).overflow /\ (m.delta > 0 \/ m.delta < 0)
        BY <4>1, AddInt64Exact
      <4>3. r.conflict.kind = IF m.delta > 0 THEN "counter_overflow" ELSE "counter_underflow"
        BY <3>5, <3>7 DEF FailureKind
      <4> QED
        BY <1>2, <1>4, <1>5, <2>1, <3>7, <4>1, <4>2, <4>3 DEF CounterConflictEvidence
    <3> QED
      BY <3>6, <3>7
  <2>4. MutationEvidence(o, m, request.namespace, r, i)
    BY <1>2, <1>3, <1>4, <1>7, <2>1, <2>3 DEF MutationEvidence
  <2> QED
    BY <2>2, <2>4
<1>8. o \in [index: {i}, keyspace: {request.namespace}, key: {m.key},
            before: Values, after: Values, matched: {"absent"},
            beforeI64: Int64 \cup {NoI64}, afterI64: Int64 \cup {NoI64}]
  BY <1>1, <1>2, <1>4
<1> QED
  BY <1>6, <1>7, <1>8, Zenon DEF r, o, m

(* The conflict Core reports is that of the first condition that does not  *)
(* hold or else of some increment of the request.                          *)
LEMMA ConflictShape ==
  ASSUME NEW request, RequestType(request), NEW cells \in [Keys -> Values]
  PROVE  LET conflict == ConflictOf(request, cells)
             Rejected == RejectedAt(request, cells)
         IN  /\ Rejected # {} => /\ conflict = [kind |-> "condition_failed", index |-> First(Rejected)]
                                 /\ First(Rejected) \in Rejected
                                 /\ \A j \in Rejected : First(Rejected) <= j
             /\ Rejected = {} => \/ conflict = NoConflict
                                 \/ /\ conflict # NoConflict
                                    /\ conflict.kind \in CounterConflicts
                                    /\ conflict.index \in 1 .. Len(request.mutations)
<1> DEFINE conflict == ConflictOf(request, cells)
           Rejected == RejectedAt(request, cells)
           Failed == FailedAt(request, cells)
           kind == FailureKind(request.mutations[First(Failed)], cells[request.mutations[First(Failed)].key])
<1>1. Rejected \subseteq Nat /\ Failed \subseteq Nat /\ Failed \subseteq 1 .. Len(request.mutations)
  BY DEF RejectedAt, FailedAt, RequestType
<1>2. /\ Rejected # {} => conflict = [kind |-> "condition_failed", index |-> First(Rejected)]
      /\ Rejected = {} /\ Failed # {} => conflict = [kind |-> kind, index |-> First(Failed)]
      /\ Rejected = {} /\ Failed = {} => conflict = NoConflict
  BY DEF ConflictOf
<1>3. kind \in CounterConflicts
  BY DEF FailureKind, CounterConflicts
<1> HIDE DEF conflict, Rejected, Failed, kind
<1>4. Rejected # {} => First(Rejected) \in Rejected /\ \A j \in Rejected : First(Rejected) <= j
  BY <1>1, FirstIsLeast
<1>5. Failed # {} => First(Failed) \in Failed
  BY <1>1, FirstIsLeast
<1>6. Rejected = {} /\ Failed # {} => /\ conflict # NoConflict
                                      /\ conflict.kind \in CounterConflicts
                                      /\ conflict.index \in 1 .. Len(request.mutations)
  <2> SUFFICES ASSUME Rejected = {}, Failed # {}
               PROVE  /\ conflict # NoConflict
                      /\ conflict.kind \in CounterConflicts
                      /\ conflict.index \in 1 .. Len(request.mutations)
    OBVIOUS
  <2>1. conflict = [kind |-> kind, index |-> First(Failed)]
    BY <1>2
  <2>2. First(Failed) \in 1 .. Len(request.mutations)
    BY <1>1, <1>5
  <2> QED
    BY <1>3, <2>1, <2>2 DEF CounterConflicts
<1> QED
  BY <1>2, <1>4, <1>6, Zenon DEF conflict, Rejected

(* Completeness: every receipt Core writes for a sealed request is         *)
(* accepted by decodeConditionalReceipt and validateReceiptAgainstRequest, *)
(* for every store, so a durable outcome is never refused by the SDK.      *)
THEOREM GenuineReceiptAccepted ==
  ASSUME NEW request, RequestType(request), NEW cells \in [Keys -> Values], NEW revision \in Nat \ {0}
  PROVE  LET r == CoreReceipt(request, cells, revision)
         IN  decodeConditionalReceipt(r, request.id) /\ validateReceiptAgainstRequest(r, request)
<1> DEFINE r == CoreReceipt(request, cells, revision)
           conflict == ConflictOf(request, cells)
           nc == Len(request.conditions)
           nm == Len(request.mutations)
           Rejected == RejectedAt(request, cells)
<1>1. nc \in Nat /\ nm \in Nat \ {0} /\ Len(r.conditions) = nc /\ Len(r.mutations) = nm
  BY DEF RequestType, WellFormed, CoreReceipt
<1>2. /\ r.conflict = conflict /\ r.requestID = request.id /\ r.revision = revision /\ r.sealed
      /\ r.outcome = IF conflict = NoConflict THEN "applied" ELSE "conflict"
  BY DEF CoreReceipt
<1>3. \A i \in 1 .. nc : /\ decodeConditionalObservation(r.conditions[i], i, TRUE)
                         /\ ConditionEvidence(r.conditions[i], request.conditions[i], request.namespace)
                         /\ r.conditions[i].matched \in {"true", "false"}
                         /\ i \in Rejected => r.conditions[i].matched = "false"
                         /\ i \notin Rejected => r.conditions[i].matched = "true"
                         /\ conflict # NoConflict => r.conditions[i].before = r.conditions[i].after
  <2> HIDE DEF r, conflict, Rejected, nc
  <2> SUFFICES ASSUME NEW i \in 1 .. nc, NEW o, o = r.conditions[i]
               PROVE  /\ decodeConditionalObservation(o, i, TRUE)
                      /\ ConditionEvidence(o, request.conditions[i], request.namespace)
                      /\ o.matched \in {"true", "false"}
                      /\ i \in Rejected => o.matched = "false"
                      /\ i \notin Rejected => o.matched = "true"
                      /\ conflict # NoConflict => o.before = o.after
    BY Zenon
  <2> DEFINE c == request.conditions[i]
             v == cells[c.key]
  <2>1. c \in Condition
    BY DEF RequestType, nc
  <2>2. v \in Values
    BY <2>1 DEF Condition
  <2>3. o = [index |-> i, keyspace |-> request.namespace, key |-> c.key, before |-> v, after |-> v,
             matched |-> IF Holds(c, v) THEN "true" ELSE "false", beforeI64 |-> NoI64, afterI64 |-> NoI64]
    BY DEF CoreReceipt, nc, r
  <2>4. i \in Rejected <=> ~Holds(c, v)
    BY DEF RejectedAt, nc, Rejected
  <2> HIDE DEF c, v
  <2>5. conditionalValueMatches(v, c.expected, c.operator) <=> Holds(c, v)
    BY <2>1, <2>2, MatchesIsHolds
  <2>6. /\ o.index = i /\ o.keyspace = request.namespace /\ o.key = c.key /\ o.before = v /\ o.after = v
        /\ o.beforeI64 = NoI64 /\ o.afterI64 = NoI64
        /\ o.matched = IF Holds(c, v) THEN "true" ELSE "false"
    BY <2>3
  <2>7. decodeConditionalObservation(o, i, TRUE)
    BY <2>6 DEF decodeConditionalObservation
  <2>8. (o.matched = "true") <=> Holds(c, v)
    BY <2>6
  <2>9. ConditionEvidence(o, c, request.namespace)
    BY <2>5, <2>6, <2>8 DEF ConditionEvidence
  <2>10. /\ o.matched \in {"true", "false"}
         /\ i \in Rejected => o.matched = "false"
         /\ i \notin Rejected => o.matched = "true"
    BY <2>4, <2>6
  <2>11. conflict # NoConflict => o.before = o.after
    BY <2>6
  <2> QED
    BY <2>7, <2>9, <2>10, <2>11, Zenon DEF c
<1>4. \A i \in 1 .. nm : /\ decodeConditionalObservation(r.mutations[i], i, FALSE)
                         /\ MutationEvidence(r.mutations[i], request.mutations[i], request.namespace, r, i)
  BY GenuineMutation
<1>5. Rejected \subseteq 1 .. nc
  BY DEF RejectedAt
<1>6. /\ Rejected # {} => /\ conflict = [kind |-> "condition_failed", index |-> First(Rejected)]
                          /\ First(Rejected) \in Rejected
                          /\ \A j \in Rejected : First(Rejected) <= j
      /\ Rejected = {} => \/ conflict = NoConflict
                          \/ /\ conflict # NoConflict
                             /\ conflict.kind \in CounterConflicts
                             /\ conflict.index \in 1 .. nm
  BY ConflictShape, Zenon
<1> HIDE DEF Rejected, conflict, r
<1>7. decodeConditionalConflict(r)
  <2>1. CASE Rejected # {}
    <3>1. conflict = [kind |-> "condition_failed", index |-> First(Rejected)]
      BY <1>6, <2>1
    <3>2. First(Rejected) \in 1 .. nc
      BY <1>5, <1>6, <2>1
    <3> QED
      BY <1>1, <1>2, <3>1, <3>2 DEF decodeConditionalConflict
  <2>2. CASE Rejected = {}
    <3>1. CASE conflict = NoConflict
      BY <1>2, <3>1 DEF decodeConditionalConflict
    <3>2. CASE conflict # NoConflict
      <4>1. conflict.kind \in CounterConflicts /\ conflict.index \in 1 .. nm
        BY <1>6, <2>2, <3>2
      <4>2. conflict.kind # "condition_failed"
        BY <4>1 DEF CounterConflicts
      <4> QED
        BY <1>1, <1>2, <4>1, <4>2 DEF decodeConditionalConflict
    <3> QED
      BY <3>1, <3>2
  <2> QED
    BY <2>1, <2>2
<1>8. conflict = NoConflict => \A i \in 1 .. nc : r.conditions[i].matched = "true"
  <2>1. conflict = NoConflict => Rejected = {}
    BY <1>6
  <2> QED
    BY <1>3, <2>1
<1>9. conflict # NoConflict => ConflictNamesFirstRejected(r)
  <2> SUFFICES ASSUME conflict # NoConflict PROVE ConflictNamesFirstRejected(r)
    OBVIOUS
  <2>1. ASSUME NEW i \in 1 .. nc, r.conditions[i].matched = "false",
               \A j \in 1 .. i - 1 : ~(r.conditions[j].matched = "false")
        PROVE  r.conflict = [kind |-> "condition_failed", index |-> i]
    <3>1. i \in Rejected
      BY <1>3, <2>1
    <3>2. First(Rejected) \in 1 .. nc /\ First(Rejected) <= i
      BY <1>5, <1>6, <3>1
    <3>3. r.conditions[First(Rejected)].matched = "false"
      BY <1>3, <1>6, <3>1, <3>2
    <3>4. First(Rejected) = i
      BY <1>1, <2>1, <3>2, <3>3
    <3> QED
      BY <1>2, <1>6, <3>1, <3>4
  <2>2. r.conflict.kind = "condition_failed" => \E i \in 1 .. nc : r.conditions[i].matched = "false"
    <3>1. conflict.kind = "condition_failed" => Rejected # {}
      BY <1>6 DEF CounterConflicts
    <3> QED
      BY <1>2, <1>3, <1>5, <3>1
  <2> QED
    BY <1>1, <1>3, <2>1, <2>2 DEF ConflictNamesFirstRejected
<1>10. r.mutations # <<>>
  BY <1>1
<1>11. decodeConditionalReceipt(r, request.id)
  BY <1>1, <1>2, <1>3, <1>4, <1>7, <1>8, <1>9, <1>10 DEF decodeConditionalReceipt
<1>12. validateReceiptAgainstRequest(r, request)
  BY <1>1, <1>3, <1>4 DEF validateReceiptAgainstRequest
<1> QED
  BY <1>11, <1>12 DEF r
=============================================================================
