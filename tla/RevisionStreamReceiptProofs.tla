---------------------- MODULE RevisionStreamReceiptProofs ----------------------
(***************************************************************************)
(* The receipt checks of revision_stream.go are sound and complete for     *)
(* every append, whatever its side items and however many Merkle nodes it  *)
(* creates: an accepted receipt proves the side effects and the step of    *)
(* the stream together, and no receipt that Core produces is rejected.     *)
(* With ConditionalReceiptProofs this gives the invariants of              *)
(* ReceiptDecoding for answers to requests and to appends.                 *)
(***************************************************************************)
EXTENDS ReceiptDecoding, ConditionalReceiptProofs

USE DEF Nil, Short, Values, Int64, NoI64, NoConflict

(* What the wire decoders guarantee of an observation.  Values of internal *)
(* keys are only compared, those of the namespace may be counters.         *)
StreamObservation ==
  [index: Nat, keyspace: Namespaces \cup {InternalKeyspace}, key: Keys \cup InternalKeys,
   before: Int, after: Int, matched: {"absent", "true", "false"},
   beforeI64: Int64 \cup {NoI64}, afterI64: Int64 \cup {NoI64}]

AppendReceiptType(r) ==
  /\ r.conditions \in Seq(StreamObservation)
  /\ r.mutations \in Seq(StreamObservation)
  /\ \A i \in DOMAIN r.mutations :
       r.mutations[i].keyspace # InternalKeyspace =>
         r.mutations[i].before \in Values /\ r.mutations[i].after \in Values
  /\ r.conflict \in {NoConflict} \cup [kind: CounterConflicts \cup {"condition_failed"}, index: Nat]

(* The items of the command of an append.                                  *)
CommandCondition(append) ==
  [keyspace: {append.namespace, InternalKeyspace}, key: Keys \cup InternalKeys,
   expected: Int, operator: Operators]

SideItem(append, m) ==
  [kind |-> m.kind, keyspace |-> append.namespace, key |-> m.key, value |-> m.value, delta |-> m.delta,
   strictBefore |-> FALSE, expectedBefore |-> Nil]

StreamItems(append) ==
  {InternalPut("head", append.head, append.expectedHead)}
    \cup {InternalPut(k, v, Nil) : k \in InternalKeys \ {"head"}, v \in Int}

CommandMutation(append) == {SideItem(append, m) : m \in Mutation} \cup StreamItems(append)

-----------------------------------------------------------------------------
(* Sequences.                                                              *)

LEMMA FunctionIsSeq ==
  ASSUME NEW S, NEW n \in Nat, NEW f \in [1 .. n -> S]
  PROVE  f \in Seq(S) /\ Len(f) = n
OBVIOUS

LEMMA ConcatParts ==
  ASSUME NEW S, NEW s \in Seq(S), NEW t \in Seq(S)
  PROVE  /\ s \o t \in Seq(S)
         /\ Len(s) \in Nat /\ Len(t) \in Nat /\ Len(s \o t) = Len(s) + Len(t)
         /\ \A i \in 1 .. Len(s) : (s \o t)[i] = s[i]
OBVIOUS

-----------------------------------------------------------------------------
LEMMA ConditionsType ==
  ASSUME NEW append, AppendType(append)
  PROVE  Conditions(append) \in Seq(CommandCondition(append))
<1> DEFINE S == CommandCondition(append)
           side == [i \in DOMAIN append.conditions |->
                      [keyspace |-> append.namespace, key |-> append.conditions[i].key,
                       expected |-> append.conditions[i].expected, operator |-> append.conditions[i].operator]]
           own == <<[AbsentCondition("head") EXCEPT !.expected = append.expectedHead],
                    AbsentCondition("event"), AbsentCondition("time")>>
           nodes == [i \in DOMAIN append.nodes |-> AbsentCondition(NodeKeys[i])]
<1>1. side \in Seq(S)
  <2>1. Len(append.conditions) \in Nat /\ DOMAIN append.conditions = 1 .. Len(append.conditions)
    BY DEF AppendType
  <2>2. ASSUME NEW i \in DOMAIN append.conditions PROVE side[i] \in S
    <3>1. append.conditions[i] \in Condition
      BY <2>1, <2>2 DEF AppendType
    <3>2. /\ append.conditions[i].key \in Keys /\ append.conditions[i].expected \in Int
          /\ append.conditions[i].operator \in Operators
      BY <3>1, HalfAssumption DEF Condition
    <3> QED
      BY <2>2, <3>2 DEF CommandCondition
  <2>3. side \in [1 .. Len(append.conditions) -> S]
    <3> HIDE DEF S
    <3>1. side = [i \in DOMAIN append.conditions |-> side[i]]
      OBVIOUS
    <3> HIDE DEF side
    <3> QED
      BY <2>1, <2>2, <3>1
  <2> QED
    BY <2>1, <2>3, FunctionIsSeq, Zenon
<1>2. \A k \in InternalKeys : AbsentCondition(k) \in S
  BY DEF AbsentCondition, CommandCondition, Operators
<1>3. own \in Seq(S)
  <2>1. {"head", "event", "time"} \subseteq InternalKeys
    BY DEF InternalKeys
  <2>2. [AbsentCondition("head") EXCEPT !.expected = append.expectedHead] \in S
    BY <2>1 DEF AbsentCondition, CommandCondition, Operators, AppendType
  <2> HIDE DEF S
  <2> QED
    BY <1>2, <2>1, <2>2
<1>4. nodes \in Seq(S)
  <2>1. Len(append.nodes) \in Nat /\ DOMAIN append.nodes = 1 .. Len(append.nodes)
    BY DEF AppendType
  <2>2. \A i \in DOMAIN append.nodes : NodeKeys[i] \in InternalKeys
    BY DEF AppendType, InternalKeys
  <2> HIDE DEF S
  <2> QED
    BY <1>2, <2>1, <2>2
<1>5. Conditions(append) = side \o own \o nodes
  BY DEF Conditions
<1> HIDE DEF S, side, own, nodes
<1>6. side \o own \in Seq(S)
  BY <1>1, <1>3
<1> QED
  BY <1>4, <1>5, <1>6 DEF S

LEMMA MutationsType ==
  ASSUME NEW append, AppendType(append)
  PROVE  /\ Mutations(append) \in Seq(CommandMutation(append))
         /\ Len(append.mutations) \in Nat
         /\ DOMAIN append.mutations = 1 .. Len(append.mutations)
         /\ Len(append.mutations) <= Len(Mutations(append))
         /\ \A i \in DOMAIN append.mutations : Mutations(append)[i] = SideItem(append, append.mutations[i])
<1> DEFINE S == CommandMutation(append)
           side == [i \in DOMAIN append.mutations |-> SideItem(append, append.mutations[i])]
           own == <<InternalPut("event", append.event, Nil), InternalPut("time", append.root, Nil),
                    InternalPut("head", append.head, append.expectedHead)>>
           nodes == [i \in DOMAIN append.nodes |-> InternalPut(NodeKeys[i], append.nodes[i], Nil)]
<1>0. Len(append.mutations) \in Nat /\ DOMAIN append.mutations = 1 .. Len(append.mutations)
  BY DEF AppendType
<1>1. side \in Seq(S) /\ Len(side) = Len(append.mutations)
  <2>1. ASSUME NEW i \in DOMAIN append.mutations PROVE side[i] \in S
    <3>1. append.mutations[i] \in Mutation
      BY <1>0, <2>1 DEF AppendType
    <3> QED
      BY <2>1, <3>1 DEF CommandMutation
  <2>2. side \in [1 .. Len(append.mutations) -> S]
    <3> HIDE DEF S
    <3>1. side = [i \in DOMAIN append.mutations |-> side[i]]
      OBVIOUS
    <3> HIDE DEF side
    <3> QED
      BY <1>0, <2>1, <3>1
  <2> QED
    BY <1>0, <2>2, FunctionIsSeq, Zenon
<1>2. \A k \in InternalKeys \ {"head"}, v \in Int : InternalPut(k, v, Nil) \in S
  BY DEF CommandMutation, StreamItems
<1>3. own \in Seq(S)
  <2>1. {"event", "time"} \subseteq InternalKeys \ {"head"}
    BY DEF InternalKeys
  <2>2. InternalPut("head", append.head, append.expectedHead) \in S
    BY DEF CommandMutation, StreamItems
  <2>3. append.event \in Int /\ append.root \in Int
    BY DEF AppendType
  <2> HIDE DEF S
  <2> QED
    BY <1>2, <2>1, <2>2, <2>3
<1>4. nodes \in Seq(S)
  <2>1. Len(append.nodes) \in Nat /\ DOMAIN append.nodes = 1 .. Len(append.nodes)
        /\ \A i \in DOMAIN append.nodes : append.nodes[i] \in Int
    BY DEF AppendType
  <2>2. \A i \in DOMAIN append.nodes : NodeKeys[i] \in InternalKeys \ {"head"}
    BY NodeKeysAssumption DEF AppendType, InternalKeys
  <2> HIDE DEF S
  <2> QED
    BY <1>2, <2>1, <2>2
<1>5. Mutations(append) = side \o own \o nodes
  BY DEF Mutations, SideItem
<1>6. \A i \in DOMAIN append.mutations : side[i] = SideItem(append, append.mutations[i])
  OBVIOUS
<1> HIDE DEF S, side, own, nodes
<1>7. /\ side \o own \in Seq(S) /\ Len(side \o own) = Len(side) + Len(own) /\ Len(own) \in Nat
      /\ \A i \in 1 .. Len(side) : (side \o own)[i] = side[i]
  BY <1>1, <1>3, ConcatParts
<1>8. /\ Mutations(append) \in Seq(S) /\ Len(nodes) \in Nat
      /\ Len(Mutations(append)) = Len(side \o own) + Len(nodes)
      /\ \A i \in 1 .. Len(side \o own) : Mutations(append)[i] = (side \o own)[i]
  BY <1>4, <1>5, <1>7, ConcatParts
<1> QED
  BY <1>0, <1>1, <1>6, <1>7, <1>8 DEF S

-----------------------------------------------------------------------------
(* The test of revision_stream.go 930, which avoids the addition, and the  *)
(* one of addInt64, which inspects the wrapped sum, both say that the      *)
(* mathematical sum is no i64.                                             *)
LEMMA RangeTestsAgree ==
  ASSUME NEW before \in Int64, NEW delta \in Int64
  PROVE  /\ IncrementLeavesRange(before, delta) <=> before + delta \notin Int64
         /\ IncrementLeavesRange(before, delta) <=> addInt64(before, delta).overflow
         /\ before + delta \in Int64 => Wrap(before + delta) = before + delta
<1>1. IncrementLeavesRange(before, delta) <=> before + delta \notin Int64
  BY HalfAssumption DEF IncrementLeavesRange
<1>2. before + delta \in Int64 => Wrap(before + delta) = before + delta
  BY HalfAssumption DEF Wrap
<1>3. addInt64(before, delta).overflow <=> before + delta \notin Int64
  BY AddInt64Exact
<1> QED
  BY <1>1, <1>2, <1>3

(* Comparison of values that are only compared.                            *)
LEMMA MatchesIsHoldsWide ==
  ASSUME NEW c, NEW v \in Int, c.expected \in Int, c.operator \in Operators
  PROVE  conditionalValueMatches(v, c.expected, c.operator) <=> Holds(c, v)
<1>1. compareNullableBytes(v, c.expected) = IF v = c.expected THEN 0 ELSE IF v < c.expected THEN -1 ELSE 1
  BY DEF compareNullableBytes
<1>2. CASE c.operator = "eq" BY <1>1, <1>2 DEF conditionalValueMatches, Holds
<1>3. CASE c.operator = "ne" BY <1>1, <1>3 DEF conditionalValueMatches, Holds
<1>4. CASE c.operator = "lt" BY <1>1, <1>4 DEF conditionalValueMatches, Holds
<1>5. CASE c.operator = "le" BY <1>1, <1>5 DEF conditionalValueMatches, Holds
<1>6. CASE c.operator = "gt" BY <1>1, <1>6 DEF conditionalValueMatches, Holds
<1>7. CASE c.operator = "ge" BY <1>1, <1>7 DEF conditionalValueMatches, Holds
<1> QED
  BY <1>2, <1>3, <1>4, <1>5, <1>6, <1>7 DEF Operators

(* What is known of an item of the command.                                *)
LEMMA ItemShape ==
  ASSUME NEW append, AppendType(append), NEW m \in CommandMutation(append)
  PROVE  /\ m.kind \in {"put", "delete", "increment"}
         /\ m.kind = "increment" => m.delta \in Int64 /\ m.keyspace # InternalKeyspace
         /\ m.kind = "delete" => m.value = Nil
         /\ m.keyspace = InternalKeyspace =>
              /\ m.kind = "put" /\ m.strictBefore
              /\ m.expectedBefore = IF m.key = "head" THEN append.expectedHead ELSE Nil
<1>1. CASE m \in {SideItem(append, x) : x \in Mutation}
  <2>1. PICK x \in Mutation : m = SideItem(append, x)
    BY <1>1
  <2>2. /\ m.kind = x.kind /\ m.delta = x.delta /\ m.value = x.value
        /\ m.keyspace = append.namespace
    BY <2>1 DEF SideItem
  <2>3. append.namespace # InternalKeyspace
    BY DEF AppendType
  <2> QED
    BY <2>2, <2>3 DEF Mutation
<1>2. CASE m = InternalPut("head", append.head, append.expectedHead)
  BY <1>2 DEF InternalPut
<1>3. CASE m \in {InternalPut(k, v, Nil) : k \in InternalKeys \ {"head"}, v \in Int}
  BY <1>3 DEF InternalPut
<1> QED
  BY <1>1, <1>2, <1>3 DEF CommandMutation, StreamItems

LEMMA AppendAppliedSound ==
  ASSUME NEW append, AppendType(append), NEW m \in CommandMutation(append), NEW o \in StreamObservation,
         o.keyspace = m.keyspace, AppendAppliedEvidence(o, m), NEW i, decodeConditionalObservation(o, i, FALSE),
         o.keyspace # InternalKeyspace => o.before \in Values /\ o.after \in Values
  PROVE  /\ ~Fails(m, o.before)
         /\ m.kind = "increment" => o.after # Short /\ Counter(o.after) = Counter(o.before) + m.delta
         /\ m.kind # "increment" => o.after = Result(m, o.before)
         /\ o.keyspace = InternalKeyspace =>
              o.before = IF m.key = "head" THEN append.expectedHead ELSE Nil
<1>0. /\ m.kind \in {"put", "delete", "increment"}
      /\ m.kind = "increment" => m.delta \in Int64 /\ m.keyspace # InternalKeyspace
      /\ m.kind = "delete" => m.value = Nil
      /\ m.keyspace = InternalKeyspace =>
           /\ m.kind = "put" /\ m.strictBefore
           /\ m.expectedBefore = IF m.key = "head" THEN append.expectedHead ELSE Nil
  BY ItemShape
<1>1. o.keyspace = InternalKeyspace => o.before = IF m.key = "head" THEN append.expectedHead ELSE Nil
  BY <1>0 DEF AppendAppliedEvidence
<1>2. CASE m.kind = "increment"
  <2>1. AppendIncrementEvidence(o, m)
    BY <1>2 DEF AppendAppliedEvidence
  <2>2. o.beforeI64 \in Int64 /\ o.afterI64 \in Int64 /\ m.delta \in Int64
        /\ o.before \in Values /\ o.after \in Values
    BY <1>0, <1>2, <2>1, HalfAssumption
       DEF AppendIncrementEvidence, StreamObservation, decodeConditionalObservation
  <2>3. /\ o.before # Short /\ Counter(o.before) = o.beforeI64
        /\ o.after # Short /\ Counter(o.after) = o.afterI64
    BY <2>1, <2>2, MatchIsCounter DEF AppendIncrementEvidence
  <2>4. o.beforeI64 + m.delta \in Int64 /\ o.afterI64 = o.beforeI64 + m.delta
    BY <2>1, <2>2, RangeTestsAgree DEF AppendIncrementEvidence
  <2> QED
    BY <1>1, <1>2, <2>3, <2>4 DEF Fails
<1>3. CASE m.kind # "increment"
  BY <1>0, <1>1, <1>3 DEF AppendAppliedEvidence, Fails, Result
<1> QED
  BY <1>2, <1>3

(* A counter conflict is one of a side increment that fails.               *)
LEMMA SideConflictSound ==
  ASSUME NEW o \in StreamObservation, NEW m \in Mutation, NEW kind \in CounterConflicts, NEW i,
         o.before \in Values, o.after \in Values,
         decodeConditionalObservation(o, i, FALSE), CounterConflictEvidence(o, m, kind)
  PROVE  Fails(m, o.before) /\ kind = FailureKind(m, o.before)
<1>1. CASE kind = "counter_invalid"
  BY <1>1 DEF CounterConflictEvidence, Fails, FailureKind
<1>2. CASE kind # "counter_invalid"
  <2>1. o.beforeI64 \in Int64 /\ m.delta \in Int64 /\ m.kind = "increment"
    BY <1>2, HalfAssumption DEF CounterConflictEvidence, StreamObservation, Mutation
  <2>2. o.before # Short /\ Counter(o.before) = o.beforeI64
    BY <1>2, <2>1, MatchIsCounter DEF CounterConflictEvidence, decodeConditionalObservation
  <2>3. Counter(o.before) + m.delta \notin Int64
    BY <1>2, <2>1, <2>2, AddInt64Exact DEF CounterConflictEvidence
  <2>4. kind = IF m.delta > 0 THEN "counter_overflow" ELSE "counter_underflow"
    BY <1>2, <2>1 DEF CounterConflictEvidence, CounterConflicts
  <2> QED
    BY <2>1, <2>2, <2>3, <2>4 DEF Fails, FailureKind
<1> QED
  BY <1>1, <1>2

-----------------------------------------------------------------------------
(* Soundness: the receipt of an append that passes                         *)
(* decodeConditionalReceiptWithLimit and                                   *)
(* validateRevisionStreamTransactionReceipt (revision_stream.go 882-968)   *)
(* proves its outcome for the side items and the stream's keys together.   *)
(* If it is applied, the head was the one the caller expected and the keys *)
(* of the event, its time and its Merkle nodes were free.                  *)
THEOREM AcceptedAppendJustified ==
  ASSUME NEW append, NEW r, AppendType(append), AppendReceiptType(r),
         decodeConditionalReceipt(r, append.id), validateRevisionStreamTransactionReceipt(r, append)
  PROVE  AppendJustified(r, append)
<1> DEFINE cs == Conditions(append)
           ms == Mutations(append)
           request == [conditions |-> cs, mutations |-> ms]
           nc == Len(cs)
           nm == Len(ms)
           Met(i) == Holds(cs[i], r.conditions[i].before)
<1>0. cs \in Seq(CommandCondition(append)) /\ ms \in Seq(CommandMutation(append))
  BY ConditionsType, MutationsType
<1>1. /\ nc \in Nat /\ nm \in Nat /\ Len(r.conditions) = nc /\ Len(r.mutations) = nm
      /\ DOMAIN r.conditions = 1 .. nc /\ DOMAIN r.mutations = 1 .. nm
  BY <1>0 DEF AppendReceiptType, validateRevisionStreamTransactionReceipt
<1>2. ASSUME NEW i \in 1 .. nc
      PROVE  /\ r.conditions[i].matched \in {"true", "false"}
             /\ (r.conditions[i].matched = "true") <=> Met(i)
  <2>1. cs[i] \in CommandCondition(append) /\ r.conditions[i] \in StreamObservation
    BY <1>0, <1>1, <1>2 DEF AppendReceiptType
  <2>2. cs[i].expected \in Int /\ cs[i].operator \in Operators /\ r.conditions[i].before \in Int
    BY <2>1 DEF CommandCondition, StreamObservation
  <2>3. ConditionEvidence(r.conditions[i], cs[i], cs[i].keyspace)
    BY <1>1, <1>2 DEF validateRevisionStreamTransactionReceipt, AppendConditionEvidence
  <2>4. r.conditions[i].matched \in {"true", "false"}
    BY <2>1, <2>3 DEF ConditionEvidence, StreamObservation
  <2>5. (r.conditions[i].matched = "true") <=> Met(i)
    BY <2>2, <2>3, MatchesIsHoldsWide DEF ConditionEvidence
  <2> QED
    BY <2>4, <2>5
<1>3. ASSUME NEW i \in 1 .. nm
      PROVE  /\ ms[i] \in CommandMutation(append)
             /\ r.mutations[i] \in StreamObservation
             /\ decodeConditionalObservation(r.mutations[i], i, FALSE)
             /\ AppendMutationEvidence(r.mutations[i], ms[i], r.outcome)
             /\ r.mutations[i].keyspace = ms[i].keyspace /\ r.mutations[i].key = ms[i].key
             /\ r.mutations[i].keyspace # InternalKeyspace =>
                  r.mutations[i].before \in Values /\ r.mutations[i].after \in Values
  <2>1. ms[i] \in CommandMutation(append) /\ r.mutations[i] \in StreamObservation
    BY <1>0, <1>1, <1>3 DEF AppendReceiptType
  <2>2. decodeConditionalObservation(r.mutations[i], i, FALSE)
    BY <1>1, <1>3 DEF decodeConditionalReceipt
  <2>3. AppendMutationEvidence(r.mutations[i], ms[i], r.outcome)
    BY <1>1, <1>3 DEF validateRevisionStreamTransactionReceipt
  <2>4. r.mutations[i].keyspace = ms[i].keyspace /\ r.mutations[i].key = ms[i].key
    BY <2>3 DEF AppendMutationEvidence
  <2>5. r.mutations[i].keyspace # InternalKeyspace =>
          r.mutations[i].before \in Values /\ r.mutations[i].after \in Values
    BY <1>1, <1>3 DEF AppendReceiptType
  <2> QED
    BY <2>5, <2>1, <2>4, <2>2, <2>3
<1>r. request.conditions = cs /\ request.mutations = ms
  OBVIOUS
<1> HIDE DEF cs, ms, request
<1>4. CASE r.outcome = "applied"
  <2>1. \A i \in 1 .. nc : Met(i)
    BY <1>1, <1>2, <1>4 DEF decodeConditionalReceipt
  <2>2. ASSUME NEW i \in 1 .. nm
        PROVE  /\ ~Fails(ms[i], r.mutations[i].before)
               /\ IF ms[i].kind = "increment"
                  THEN /\ r.mutations[i].after # Short
                       /\ Counter(r.mutations[i].after) = Counter(r.mutations[i].before) + ms[i].delta
                  ELSE r.mutations[i].after = Result(ms[i], r.mutations[i].before)
               /\ r.mutations[i].keyspace = InternalKeyspace =>
                    r.mutations[i].before = IF r.mutations[i].key = "head" THEN append.expectedHead ELSE Nil
    <3>1. AppendAppliedEvidence(r.mutations[i], ms[i])
      BY <1>3, <1>4, <2>2 DEF AppendMutationEvidence
    <3> QED
      BY <1>3, <2>2, <3>1, AppendAppliedSound
  <2>3. Justified(r, request)
    BY <1>4, <1>r, <2>1, <2>2 DEF Justified
  <2>4. r.conflict.kind \notin CounterConflicts
    BY <1>4 DEF decodeConditionalReceipt, CounterConflicts
  <2> QED
    BY <1>1, <2>2, <2>3, <2>4 DEF AppendJustified, request, cs, ms
<1>5. CASE r.outcome = "conflict"
  <2>1. \A i \in 1 .. nm : r.mutations[i].after = r.mutations[i].before
    BY <1>3, <1>5 DEF AppendMutationEvidence
  <2>2. r.conflict # NoConflict /\ decodeConditionalConflict(r) /\ ConflictNamesFirstRejected(r)
    BY <1>5 DEF decodeConditionalReceipt
  <2> DEFINE F == {i \in 1 .. nc : r.conditions[i].matched = "false"}
  <2>3. ASSUME F # {}
        PROVE  \E f \in 1 .. nc : /\ r.conflict = [kind |-> "condition_failed", index |-> f]
                                  /\ ~Met(f) /\ \A j \in 1 .. f - 1 : Met(j)
    <3>1. F \subseteq Nat
      BY <1>1
    <3> HIDE DEF F
    <3>2. PICK f \in F : \A j \in F : f <= j
      BY <2>3, <3>1, LeastElement
    <3>3. f \in 1 .. nc /\ r.conditions[f].matched = "false"
          /\ \A j \in 1 .. f - 1 : j \in 1 .. nc /\ ~(r.conditions[j].matched = "false")
      BY <1>1, <3>2 DEF F
    <3>4. r.conflict = [kind |-> "condition_failed", index |-> f]
      BY <1>1, <2>2, <3>3 DEF ConflictNamesFirstRejected
    <3>5. ~Met(f) /\ \A j \in 1 .. f - 1 : Met(j)
      BY <1>2, <3>3
    <3> QED
      BY <3>3, <3>4, <3>5
  <2>4. CASE r.conflict.kind = "condition_failed"
    <3>1. F # {}
      BY <1>1, <2>2, <2>4 DEF ConflictNamesFirstRejected
    <3>2. PICK f \in 1 .. nc : /\ r.conflict = [kind |-> "condition_failed", index |-> f]
                               /\ ~Met(f) /\ \A j \in 1 .. f - 1 : Met(j)
      BY <2>3, <3>1
    <3>3. r.conflict.index = f
      BY <3>2
    <3>4. Justified(r, request)
      BY <1>5, <1>r, <2>1, <2>4, <3>2, <3>3 DEF Justified
    <3> QED
      BY <1>5, <2>4, <3>4 DEF AppendJustified, CounterConflicts, request, cs, ms
  <2>5. CASE r.conflict.kind # "condition_failed"
    <3> DEFINE x == r.conflict.index
               side == append.mutations
    <3>1. F = {}
      <4> SUFFICES ASSUME F # {}
                   PROVE  FALSE
        OBVIOUS
      <4>1. \E f \in 1 .. nc : /\ r.conflict = [kind |-> "condition_failed", index |-> f]
                                /\ ~Met(f) /\ \A j \in 1 .. f - 1 : Met(j)
        BY <2>3
      <4>2. r.conflict.kind = "condition_failed"
        BY <4>1
      <4> QED
        BY <2>5, <4>2
    <3>2. \A i \in 1 .. nc : Met(i)
      BY <1>2, <3>1
    <3>3. r.conflict.kind \in CounterConflicts
      BY <2>2, <2>5 DEF decodeConditionalConflict
    <3>4. x \in DOMAIN side /\ CounterConflictEvidence(r.mutations[x], side[x], r.conflict.kind)
      BY <1>5, <2>5 DEF validateRevisionStreamTransactionReceipt, SideCounterConflict
    <3>5. x \in 1 .. nm /\ ms[x] = SideItem(append, side[x]) /\ side[x] \in Mutation
      <4>1. /\ Len(side) \in Nat /\ DOMAIN side = 1 .. Len(side) /\ Len(side) <= nm
            /\ ms[x] = SideItem(append, side[x])
        BY <3>4, MutationsType DEF ms
      <4>2. side[x] \in Mutation
        BY <3>4, <4>1 DEF AppendType
      <4> QED
        BY <1>1, <3>4, <4>1, <4>2
    <3>6. /\ ms[x].kind = side[x].kind /\ ms[x].delta = side[x].delta
          /\ ms[x].keyspace = append.namespace /\ append.namespace # InternalKeyspace
      BY <3>5 DEF SideItem, AppendType
    <3>7. Fails(side[x], r.mutations[x].before) /\ r.conflict.kind = FailureKind(side[x], r.mutations[x].before)
      BY <1>3, <3>3, <3>4, <3>5, <3>6, SideConflictSound
    <3>8. Fails(ms[x], r.mutations[x].before) /\ r.conflict.kind = FailureKind(ms[x], r.mutations[x].before)
      BY <3>6, <3>7 DEF Fails, FailureKind
    <3>9. Justified(r, request)
      BY <1>5, <1>r, <2>1, <3>2, <3>8 DEF Justified
    <3> QED
      BY <1>3, <1>5, <3>5, <3>6, <3>9 DEF AppendJustified, request, cs, ms
  <2> QED
    BY <2>4, <2>5
<1> QED
  BY <1>4, <1>5 DEF decodeConditionalReceipt

-----------------------------------------------------------------------------
(* Completeness: Core's receipt of an append is accepted.                  *)

(* u holds every element of s and of t, first those of s.                  *)
Holding(u, s, t) ==
  /\ \A j \in 1 .. Len(s) : \E i \in 1 .. Len(u) : u[i] = s[j]
  /\ \A j \in 1 .. Len(t) : \E i \in 1 .. Len(u) : u[i] = t[j]

(* The elements of u are those of s, in place, and behind them those of t. *)
Parted(u, s, t) ==
  /\ \A i \in 1 .. Len(u) : i <= Len(s) => u[i] = s[i]
  /\ \A i \in 1 .. Len(u) : i > Len(s) => \E j \in 1 .. Len(t) : u[i] = t[j]

(* A concatenation holds the elements of both its parts.                   *)
LEMMA ConcatElements ==
  ASSUME NEW S, NEW s \in Seq(S), NEW t \in Seq(S), NEW u, u = s \o t
  PROVE  /\ u \in Seq(S)
         /\ Holding(u, s, t)
         /\ Parted(u, s, t)
<1>1. Len(s) \in Nat /\ Len(t) \in Nat /\ Len(u) = Len(s) + Len(t) /\ u \in Seq(S)
  OBVIOUS
<1>2. ASSUME NEW i \in 1 .. Len(u)
      PROVE  /\ i <= Len(s) => u[i] = s[i]
             /\ i > Len(s) => \E j \in 1 .. Len(t) : u[i] = t[j]
  <2>1. CASE i <= Len(s)
    BY <1>1, <2>1
  <2>2. CASE i > Len(s)
    <3>1. i - Len(s) \in 1 .. Len(t) /\ u[i] = t[i - Len(s)]
      BY <1>1, <2>2
    <3> QED
      BY <3>1
  <2> QED
    BY <1>1, <2>1, <2>2
<1>3. ASSUME NEW j \in 1 .. Len(t) PROVE \E i \in 1 .. Len(u) : u[i] = t[j]
  <2>1. Len(s) + j \in 1 .. Len(u) /\ u[Len(s) + j] = t[j]
    BY <1>1
  <2> QED
    BY <2>1
<1>4. ASSUME NEW j \in 1 .. Len(s) PROVE \E i \in 1 .. Len(u) : u[i] = s[j]
  <2>1. j \in 1 .. Len(u) /\ u[j] = s[j]
    BY <1>1
  <2> QED
    BY <2>1
<1> QED
  BY <1>1, <1>2, <1>3, <1>4 DEF Holding, Parted

(* The value an internal key is expected to have.                          *)
ExpectedOf(append, k) == IF k = "head" THEN append.expectedHead ELSE Nil

(* The condition on an internal key.                                       *)
Expects(c, k, v) == c.key = k /\ c.operator = "eq" /\ c.expected = v

(* The keys that an append writes in the internal keyspace.                *)
KeysWritten(append) == {"head", "event", "time"} \cup {NodeKeys[i] : i \in DOMAIN append.nodes}

(* Each internal key that an append writes has a condition.                *)
LEMMA KeysConditioned ==
  ASSUME NEW append, AppendType(append), NEW k \in KeysWritten(append)
  PROVE  \E i \in 1 .. Len(Conditions(append)) : Expects(Conditions(append)[i], k, ExpectedOf(append, k))
<1> DEFINE S == CommandCondition(append)
           side == [i \in DOMAIN append.conditions |->
                      [keyspace |-> append.namespace, key |-> append.conditions[i].key,
                       expected |-> append.conditions[i].expected, operator |-> append.conditions[i].operator]]
           own == <<[AbsentCondition("head") EXCEPT !.expected = append.expectedHead],
                    AbsentCondition("event"), AbsentCondition("time")>>
           nodes == [i \in DOMAIN append.nodes |-> AbsentCondition(NodeKeys[i])]
           T == {side[i] : i \in DOMAIN side} \cup {own[i] : i \in DOMAIN own} \cup {nodes[i] : i \in DOMAIN nodes}
<1>1. /\ Len(append.conditions) \in Nat /\ DOMAIN append.conditions = 1 .. Len(append.conditions)
      /\ Len(append.nodes) \in Nat /\ DOMAIN append.nodes = 1 .. Len(append.nodes)
  BY DEF AppendType
<1>2. side \in [1 .. Len(append.conditions) -> T] /\ nodes \in [1 .. Len(append.nodes) -> T]
  <2>1. DOMAIN side = DOMAIN append.conditions /\ DOMAIN nodes = DOMAIN append.nodes
    OBVIOUS
  <2>2. side = [i \in DOMAIN side |-> side[i]] /\ nodes = [i \in DOMAIN nodes |-> nodes[i]]
    OBVIOUS
  <2> HIDE DEF side, nodes, own
  <2> QED
    BY <1>1, <2>1, <2>2
<1>3. side \in Seq(T) /\ nodes \in Seq(T)
  <2> HIDE DEF side, nodes, T
  <2> QED
    BY <1>1, <1>2, FunctionIsSeq, Zenon
<1>4. own \in Seq(T)
  <2>1. own \in [1 .. 3 -> T]
    <3>1. own = [i \in 1 .. 3 |-> own[i]] /\ DOMAIN own = 1 .. 3
      OBVIOUS
    <3> HIDE DEF own, side, nodes
    <3> QED
      BY <3>1
  <2> HIDE DEF own, T
  <2> QED
    BY <2>1, FunctionIsSeq
<1>5. Conditions(append) = side \o own \o nodes
  BY DEF Conditions
<1>6. /\ Expects(own[1], "head", append.expectedHead) /\ Expects(own[2], "event", Nil)
      /\ Expects(own[3], "time", Nil) /\ Len(own) = 3
  BY DEF Expects, AbsentCondition
<1>7. \A i \in DOMAIN append.nodes : Expects(nodes[i], NodeKeys[i], Nil)
  BY DEF Expects, AbsentCondition
<1>8. Len(nodes) = Len(append.nodes)
  BY <1>1
<1> HIDE DEF side, own, nodes, T
<1>9. PICK front : front = side \o own
  OBVIOUS
<1>a. front \in Seq(T) /\ Holding(front, side, own)
  BY <1>3, <1>4, <1>9, ConcatElements
<1>b. Conditions(append) = front \o nodes
  BY <1>5, <1>9
<1>c. PICK cs : cs = Conditions(append)
  OBVIOUS
<1>d. Holding(cs, front, nodes)
  BY <1>3, <1>a, <1>b, <1>c, ConcatElements
<1>10. CASE k \in {"head", "event", "time"}
  <2>1. PICK j \in 1 .. Len(own) : Expects(own[j], k, ExpectedOf(append, k))
    BY <1>6, <1>10 DEF ExpectedOf
  <2>2. PICK i \in 1 .. Len(front) : front[i] = own[j]
    BY <1>a DEF Holding
  <2>3. PICK l \in 1 .. Len(cs) : cs[l] = own[j]
    BY <1>d, <2>2 DEF Holding
  <2> QED
    BY <1>c, <2>1, <2>3
<1>11. CASE k \notin {"head", "event", "time"}
  <2>1. PICK j \in DOMAIN append.nodes : k = NodeKeys[j]
    BY <1>11 DEF KeysWritten
  <2>2. Expects(nodes[j], k, ExpectedOf(append, k)) /\ j \in 1 .. Len(nodes)
    BY <1>1, <1>7, <1>8, <1>11, <2>1 DEF ExpectedOf
  <2>3. PICK l \in 1 .. Len(cs) : cs[l] = nodes[j]
    BY <1>d, <2>2 DEF Holding
  <2> QED
    BY <1>c, <2>2, <2>3
<1> QED
  BY <1>10, <1>11

(* Behind the side mutations an append writes the internal keys.           *)
LEMMA StreamItemsBehind ==
  ASSUME NEW append, AppendType(append), NEW i \in 1 .. Len(Mutations(append)), i > Len(append.mutations)
  PROVE  Mutations(append)[i].keyspace = InternalKeyspace /\ Mutations(append)[i].key \in KeysWritten(append)
<1> DEFINE side == [j \in DOMAIN append.mutations |-> SideItem(append, append.mutations[j])]
           own == <<InternalPut("event", append.event, Nil), InternalPut("time", append.root, Nil),
                    InternalPut("head", append.head, append.expectedHead)>>
           nodes == [j \in DOMAIN append.nodes |-> InternalPut(NodeKeys[j], append.nodes[j], Nil)]
           T == {side[j] : j \in DOMAIN side} \cup {own[j] : j \in DOMAIN own} \cup {nodes[j] : j \in DOMAIN nodes}
<1>1. /\ Len(append.mutations) \in Nat /\ DOMAIN append.mutations = 1 .. Len(append.mutations)
      /\ Len(append.nodes) \in Nat /\ DOMAIN append.nodes = 1 .. Len(append.nodes)
  BY DEF AppendType
<1>2. side \in [1 .. Len(append.mutations) -> T] /\ nodes \in [1 .. Len(append.nodes) -> T]
  <2>1. DOMAIN side = DOMAIN append.mutations /\ DOMAIN nodes = DOMAIN append.nodes
    OBVIOUS
  <2>2. side = [j \in DOMAIN side |-> side[j]] /\ nodes = [j \in DOMAIN nodes |-> nodes[j]]
    OBVIOUS
  <2> HIDE DEF side, nodes, own
  <2> QED
    BY <1>1, <2>1, <2>2
<1>3. side \in Seq(T) /\ nodes \in Seq(T)
  <2> HIDE DEF side, nodes, T
  <2> QED
    BY <1>1, <1>2, FunctionIsSeq, Zenon
<1>4. own \in Seq(T)
  <2>1. own \in [1 .. 3 -> T]
    <3>1. own = [j \in 1 .. 3 |-> own[j]] /\ DOMAIN own = 1 .. 3
      OBVIOUS
    <3> HIDE DEF own, side, nodes
    <3> QED
      BY <3>1
  <2> HIDE DEF own, T
  <2> QED
    BY <2>1, FunctionIsSeq
<1>5. Mutations(append) = side \o own \o nodes
  BY DEF Mutations, SideItem
<1>6. /\ own[1].key = "event" /\ own[2].key = "time" /\ own[3].key = "head" /\ Len(own) = 3
      /\ \A j \in 1 .. 3 : own[j].keyspace = InternalKeyspace
      /\ Len(nodes) = Len(append.nodes) /\ Len(side) = Len(append.mutations)
  BY <1>1 DEF InternalPut
<1>7. \A j \in DOMAIN append.nodes : nodes[j].key = NodeKeys[j] /\ nodes[j].keyspace = InternalKeyspace
  BY DEF InternalPut
<1>9. PICK front : front = side \o own
  OBVIOUS
<1>8. front \in Seq(T) /\ Parted(front, side, own)
  BY <1>3, <1>4, <1>9, ConcatElements
<1>a. front \in Seq(T) /\ Parted(front, side, own) /\ Len(front) \in Nat
  BY <1>8
<1>b. PICK ms : ms = Mutations(append)
  OBVIOUS
<1>c. Parted(ms, front, nodes)
  BY <1>3, <1>5, <1>9, <1>a, <1>b, ConcatElements
<1>10. i \in Nat /\ i >= 1 /\ i > Len(side) /\ Len(side) \in Nat /\ i \in 1 .. Len(ms)
  BY <1>1, <1>6, <1>b
<1>11. \/ \E j \in 1 .. Len(own) : ms[i] = own[j]
       \/ \E j \in 1 .. Len(nodes) : ms[i] = nodes[j]
  <2>1. CASE i <= Len(front)
    <3>1. ms[i] = front[i] /\ i \in 1 .. Len(front)
      BY <1>a, <1>c, <1>10, <2>1 DEF Parted
    <3> QED
      BY <1>a, <1>10, <3>1 DEF Parted
  <2>2. CASE ~(i <= Len(front))
    <3>1. i > Len(front)
      BY <1>a, <1>10, <2>2
    <3> QED
      BY <1>c, <1>10, <3>1 DEF Parted
  <2> QED
    BY <2>1, <2>2
<1>12. ASSUME NEW j \in 1 .. Len(own), ms[i] = own[j]
       PROVE  ms[i].keyspace = InternalKeyspace /\ ms[i].key \in KeysWritten(append)
  BY <1>6, <1>12 DEF KeysWritten
<1>13. ASSUME NEW j \in 1 .. Len(nodes), ms[i] = nodes[j]
       PROVE  ms[i].keyspace = InternalKeyspace /\ ms[i].key \in KeysWritten(append)
  <2>1. j \in DOMAIN append.nodes
    BY <1>1, <1>6
  <2> QED
    BY <1>7, <1>13, <2>1 DEF KeysWritten
<1> QED
  BY <1>b, <1>11, <1>12, <1>13

(* A namespace and the internal keyspace.                                  *)
AppendStore(cells) ==
  /\ \A k \in Keys : cells[k] \in Values
  /\ \A k \in InternalKeys : cells[k] \in Int

(* The command of an append as one conditional request.                    *)
AppendCommand(append) == [conditions |-> Conditions(append), mutations |-> Mutations(append)]

(* The conflict of a command, from the items that are rejected or fail.    *)
ConflictIs(command, cells, conflict) ==
  \/ /\ RejectedAt(command, cells) # {}
     /\ conflict = [kind |-> "condition_failed", index |-> First(RejectedAt(command, cells))]
     /\ First(RejectedAt(command, cells)) \in RejectedAt(command, cells)
     /\ \A j \in RejectedAt(command, cells) : First(RejectedAt(command, cells)) <= j
  \/ /\ RejectedAt(command, cells) = {}
     /\ \E i \in FailedAt(command, cells) :
          conflict = [kind |-> FailureKind(command.mutations[i], cells[command.mutations[i].key]), index |-> i]
  \/ /\ RejectedAt(command, cells) = {}
     /\ FailedAt(command, cells) = {}
     /\ conflict = NoConflict

(* A mutation that fails is a counter conflict.                            *)
LEMMA FailureIsCounter == \A m, v : FailureKind(m, v) \in CounterConflicts
BY DEF FailureKind, CounterConflicts

(* Core's conflict names the first rejected condition or, when every       *)
(* condition holds, a mutation that fails.                                 *)
LEMMA CommandConflict ==
  ASSUME NEW command, NEW cells, Len(command.conditions) \in Nat, Len(command.mutations) \in Nat
  PROVE  ConflictIs(command, cells, ConflictOf(command, cells))
<1> DEFINE Rejected == RejectedAt(command, cells)
           Failed == FailedAt(command, cells)
<1>1. Rejected \subseteq Nat /\ Failed \subseteq Nat
  BY DEF RejectedAt, FailedAt
<1>2. CASE Rejected # {}
  <2>1. First(Rejected) \in Rejected /\ \A j \in Rejected : First(Rejected) <= j
    BY <1>1, <1>2, FirstIsLeast
  <2> QED
    BY <1>2, <2>1 DEF ConflictOf, ConflictIs
<1>3. CASE Rejected = {} /\ Failed # {}
  <2>1. First(Failed) \in Failed
    BY <1>1, <1>3, FirstIsLeast
  <2> QED
    BY <1>3, <2>1 DEF ConflictOf, ConflictIs
<1>4. CASE Rejected = {} /\ Failed = {}
  BY <1>4 DEF ConflictOf, ConflictIs
<1> QED
  BY <1>2, <1>3, <1>4

(* A side item behaves as the mutation it carries; the stream's items put  *)
(* a value.                                                                *)
SideItemOf(m, x, append) ==
  /\ x \in Mutation /\ m = SideItem(append, x)
  /\ m.kind = x.kind /\ m.key = x.key /\ m.keyspace = append.namespace /\ m.delta = x.delta /\ ~m.strictBefore
  /\ \A v : /\ Fails(m, v) <=> Fails(x, v)
            /\ Result(m, v) = Result(x, v)
            /\ FailureKind(m, v) = FailureKind(x, v)
            /\ I64Field(m, v) = I64Field(x, v)

(* A mutation of the stream's own keys.                                    *)
StreamItemOf(m, append) ==
  /\ m.kind = "put" /\ m.keyspace = InternalKeyspace /\ m.key \in InternalKeys /\ m.value \in Int
  /\ m.strictBefore /\ m.expectedBefore = ExpectedOf(append, m.key)
  /\ \A v : ~Fails(m, v) /\ Result(m, v) = m.value /\ I64Field(m, v) = NoI64

(* The mutations of a command are the caller's, in place, or the stream's. *)
LEMMA ItemKinds ==
  ASSUME NEW append, AppendType(append), NEW m \in CommandMutation(append)
  PROVE  (\E x \in Mutation : SideItemOf(m, x, append)) \/ StreamItemOf(m, append)
<1>1. CASE m \in {SideItem(append, x) : x \in Mutation}
  <2>1. PICK x \in Mutation : m = SideItem(append, x)
    BY <1>1
  <2>2. /\ m.kind = x.kind /\ m.delta = x.delta /\ m.value = x.value /\ m.key = x.key
        /\ m.keyspace = append.namespace /\ ~m.strictBefore
    BY <2>1 DEF SideItem
  <2>3. \A v : /\ Fails(m, v) <=> Fails(x, v)
               /\ Result(m, v) = Result(x, v)
               /\ FailureKind(m, v) = FailureKind(x, v)
               /\ I64Field(m, v) = I64Field(x, v)
    BY <2>2, Zenon DEF Fails, Result, FailureKind, I64Field
  <2> QED
    BY <2>1, <2>2, <2>3 DEF SideItemOf
<1>2. ASSUME NEW k \in InternalKeys, NEW v \in Int, m = InternalPut(k, v, ExpectedOf(append, k))
      PROVE  StreamItemOf(m, append)
  <2>1. /\ m.kind = "put" /\ m.keyspace = InternalKeyspace /\ m.key = k /\ m.value = v
        /\ m.strictBefore /\ m.expectedBefore = ExpectedOf(append, k)
    BY <1>2 DEF InternalPut
  <2>2. \A w : ~Fails(m, w) /\ Result(m, w) = m.value /\ I64Field(m, w) = NoI64
    BY <2>1 DEF Fails, Result, I64Field
  <2> QED
    BY <2>1, <2>2 DEF StreamItemOf
<1>3. CASE m = InternalPut("head", append.head, append.expectedHead)
  <2>1. "head" \in InternalKeys /\ append.head \in Int /\ append.expectedHead = ExpectedOf(append, "head")
    BY DEF InternalKeys, AppendType, ExpectedOf
  <2> QED
    BY <1>2, <1>3, <2>1
<1>4. CASE m \in {InternalPut(k, v, Nil) : k \in InternalKeys \ {"head"}, v \in Int}
  <2>1. PICK k \in InternalKeys \ {"head"}, v \in Int : m = InternalPut(k, v, Nil)
    BY <1>4
  <2>2. ExpectedOf(append, k) = Nil
    BY DEF ExpectedOf
  <2> QED
    BY <1>2, <2>1, <2>2
<1> QED
  BY <1>1, <1>3, <1>4 DEF CommandMutation, StreamItems

(* Without a rejected condition the internal keys are as expected.         *)
LEMMA KeysAsExpected ==
  ASSUME NEW append, AppendType(append), NEW cells, RejectedAt(AppendCommand(append), cells) = {},
         NEW k \in KeysWritten(append)
  PROVE  cells[k] = ExpectedOf(append, k)
<1>1. PICK i \in 1 .. Len(Conditions(append)) : Expects(Conditions(append)[i], k, ExpectedOf(append, k))
  BY KeysConditioned
<1>2. Holds(Conditions(append)[i], cells[Conditions(append)[i].key])
  BY DEF RejectedAt, AppendCommand
<1> QED
  BY <1>1, <1>2 DEF Holds, Expects

(* A stream item of the command writes a known key.                        *)
LEMMA WritesKnownKeys ==
  ASSUME NEW append, AppendType(append), NEW i \in 1 .. Len(Mutations(append)),
         Mutations(append)[i].keyspace = InternalKeyspace
  PROVE  Mutations(append)[i].key \in KeysWritten(append) /\ i \notin DOMAIN append.mutations
<1>1. /\ Len(append.mutations) \in Nat
      /\ DOMAIN append.mutations = 1 .. Len(append.mutations)
      /\ \A j \in DOMAIN append.mutations : Mutations(append)[j] = SideItem(append, append.mutations[j])
  BY MutationsType
<1>2. i \notin DOMAIN append.mutations
  <2> SUFFICES ASSUME i \in DOMAIN append.mutations PROVE FALSE
    OBVIOUS
  <2>1. Mutations(append)[i] = SideItem(append, append.mutations[i])
    BY <1>1
  <2>2. SideItem(append, append.mutations[i]).keyspace = append.namespace
    BY DEF SideItem
  <2> QED
    BY <2>1, <2>2 DEF AppendType
<1>3. i > Len(append.mutations)
  BY <1>1, <1>2
<1> QED
  BY <1>2, <1>3, StreamItemsBehind

(* What Core observes of a mutation.                                       *)
MutationObserved(o, i, m, before, after) ==
  o = [index |-> i, keyspace |-> m.keyspace, key |-> m.key, before |-> before, after |-> after,
       matched |-> "absent", beforeI64 |-> I64Field(m, before), afterI64 |-> I64Field(m, after)]

(* A mutation's evidence is well typed and passes the checks on it.        *)
MutationAccepted(o, i, m, outcome) ==
  /\ o \in StreamObservation
  /\ o.keyspace # InternalKeyspace => o.before \in Values /\ o.after \in Values
  /\ decodeConditionalObservation(o, i, FALSE)
  /\ AppendMutationEvidence(o, m, outcome)

(* Core's observation of an internal key passes the checks on it.          *)
LEMMA StreamItemAccepted ==
  ASSUME NEW append, NEW m, StreamItemOf(m, append), NEW i \in Nat, NEW o, NEW before \in Int, NEW after \in Int,
         MutationObserved(o, i, m, before, after), NEW outcome,
         IF outcome = "conflict" THEN after = before
                                 ELSE after = Result(m, before) /\ before = ExpectedOf(append, m.key)
  PROVE  MutationAccepted(o, i, m, outcome)
<1>1. /\ m.kind = "put" /\ m.keyspace = InternalKeyspace /\ m.key \in InternalKeys
      /\ m.expectedBefore = ExpectedOf(append, m.key) /\ Result(m, before) = m.value
      /\ I64Field(m, before) = NoI64 /\ I64Field(m, after) = NoI64
  BY DEF StreamItemOf
<1>2. o = [index |-> i, keyspace |-> InternalKeyspace, key |-> m.key, before |-> before, after |-> after,
           matched |-> "absent", beforeI64 |-> NoI64, afterI64 |-> NoI64]
  BY <1>1 DEF MutationObserved
<1>3. /\ o.index = i /\ o.keyspace = InternalKeyspace /\ o.key = m.key /\ o.before = before /\ o.after = after
      /\ o.matched = "absent" /\ o.beforeI64 = NoI64 /\ o.afterI64 = NoI64
  BY <1>2
<1>4. o \in StreamObservation
  BY <1>1, <1>2 DEF StreamObservation
<1>5. decodeConditionalObservation(o, i, FALSE)
  BY <1>3 DEF decodeConditionalObservation
<1>6. outcome # "conflict" => AppendAppliedEvidence(o, m)
  BY <1>1, <1>3 DEF AppendAppliedEvidence
<1>7. AppendMutationEvidence(o, m, outcome)
  BY <1>1, <1>3, <1>6 DEF AppendMutationEvidence
<1> QED
  BY <1>3, <1>4, <1>5, <1>7 DEF MutationAccepted

(* So does its observation of a mutation of the caller.                    *)
LEMMA SideItemAccepted ==
  ASSUME NEW append, AppendType(append), NEW m, NEW x \in Mutation, SideItemOf(m, x, append), NEW i \in Nat, NEW o,
         NEW before \in Values, NEW after,
         MutationObserved(o, i, m, before, after), NEW outcome,
         IF outcome = "conflict" THEN after = before ELSE after = Result(m, before) /\ ~Fails(m, before)
  PROVE  MutationAccepted(o, i, m, outcome)
<1>1. /\ m.kind = x.kind /\ m.key = x.key /\ m.keyspace = append.namespace /\ m.delta = x.delta /\ ~m.strictBefore
      /\ Fails(m, before) <=> Fails(x, before)
      /\ Result(m, before) = Result(x, before)
      /\ I64Field(m, before) = I64Field(x, before)
      /\ I64Field(m, after) = I64Field(x, after)
  BY DEF SideItemOf
<1>2. /\ x.key \in Keys /\ append.namespace \in Namespaces /\ append.namespace # InternalKeyspace
      /\ x.kind = "increment" => x.delta \in Int64
      /\ x.kind \in {"put", "delete", "increment"}
  BY DEF Mutation, AppendType
<1>3. after \in Values /\ (outcome # "conflict" /\ x.kind = "increment" =>
                             before # Short /\ after # Short /\ Counter(after) = Counter(before) + x.delta)
  BY <1>1, ResultType
<1>a. Values \subseteq Int
  BY HalfAssumption
<1>4. o = [index |-> i, keyspace |-> append.namespace, key |-> x.key, before |-> before, after |-> after,
           matched |-> "absent", beforeI64 |-> I64Field(x, before), afterI64 |-> I64Field(x, after)]
  BY <1>1 DEF MutationObserved
<1>5. PICK b, c : b = I64Field(x, before) /\ c = I64Field(x, after)
  OBVIOUS
<1>6. /\ o.index = i /\ o.keyspace = append.namespace /\ o.key = x.key /\ o.before = before /\ o.after = after
      /\ o.matched = "absent" /\ o.beforeI64 = b /\ o.afterI64 = c
  BY <1>4, <1>5
<1>7. /\ b \in Int64 \cup {NoI64} /\ (b # NoI64 <=> x.kind = "increment" /\ before # Short)
      /\ b # NoI64 => b = Counter(before) /\ b \in Int64 /\ bytesMatchI64(before, b)
  BY <1>5, I64FieldMatches
<1>8. /\ c \in Int64 \cup {NoI64} /\ (c # NoI64 <=> x.kind = "increment" /\ after # Short)
      /\ c # NoI64 => c = Counter(after) /\ c \in Int64 /\ bytesMatchI64(after, c)
  BY <1>3, <1>5, I64FieldMatches
<1>9. o \in StreamObservation
  BY <1>2, <1>3, <1>a, <1>4, <1>5, <1>7, <1>8 DEF StreamObservation
<1>10. (b = NoI64) <=> (c = NoI64)
  BY <1>3, <1>7, <1>8
<1>11. decodeConditionalObservation(o, i, FALSE)
  BY <1>6, <1>7, <1>8, <1>10 DEF decodeConditionalObservation
<1>12. ASSUME outcome # "conflict" PROVE AppendAppliedEvidence(o, m)
  <2>1. CASE x.kind = "increment"
    <3>1. b # NoI64 /\ c # NoI64 /\ c = b + x.delta /\ c \in Int64 /\ b \in Int64
      BY <1>3, <1>7, <1>8, <1>12, <2>1
    <3>2. ~IncrementLeavesRange(b, m.delta) /\ c = Wrap(b + m.delta)
      BY <1>1, <1>2, <2>1, <3>1, RangeTestsAgree
    <3>3. AppendIncrementEvidence(o, m)
      BY <1>6, <1>7, <1>8, <3>1, <3>2 DEF AppendIncrementEvidence
    <3> QED
      BY <1>1, <2>1, <3>3 DEF AppendAppliedEvidence
  <2>2. CASE x.kind # "increment"
    <3>1. o.after = Result(m, before)
      BY <1>6, <1>12
    <3>2. m.kind = "put" => o.after = m.value
      BY <3>1 DEF Result
    <3>3. m.kind = "delete" => o.after = Nil
      BY <3>1 DEF Result
    <3> QED
      BY <1>1, <1>2, <2>2, <3>2, <3>3 DEF AppendAppliedEvidence
  <2> QED
    BY <2>1, <2>2
<1>13. AppendMutationEvidence(o, m, outcome)
  BY <1>1, <1>6, <1>7, <1>8, <1>12 DEF AppendMutationEvidence
<1> QED
  BY <1>3, <1>6, <1>9, <1>11, <1>13 DEF MutationAccepted

(* The evidence of a counter conflict.                                     *)
LEMMA SideConflictAccepted ==
  ASSUME NEW append, NEW m, NEW x \in Mutation, SideItemOf(m, x, append), NEW i, NEW o, NEW before \in Values,
         MutationObserved(o, i, m, before, before), Fails(m, before)
  PROVE  CounterConflictEvidence(o, x, FailureKind(m, before))
<1>1. /\ Fails(x, before) /\ FailureKind(m, before) = FailureKind(x, before)
      /\ I64Field(m, before) = I64Field(x, before)
  BY DEF SideItemOf
<1>2. PICK b : b = I64Field(x, before)
  OBVIOUS
<1>3. o.before = before /\ o.beforeI64 = b /\ o.afterI64 = b
  BY <1>1, <1>2 DEF MutationObserved
<1>4. /\ b \in Int64 \cup {NoI64} /\ (b # NoI64 <=> x.kind = "increment" /\ before # Short)
      /\ b # NoI64 => b = Counter(before) /\ b \in Int64
  BY <1>2, I64FieldMatches
<1>5. x.kind = "increment" /\ x.delta \in Int64
  BY <1>1 DEF Fails, Mutation
<1>6. CASE before = Short
  BY <1>1, <1>3, <1>4, <1>5, <1>6 DEF CounterConflictEvidence, FailureKind
<1>7. CASE before # Short
  <2>1. b \in Int64 /\ b # NoI64 /\ b + x.delta \notin Int64
    BY <1>1, <1>4, <1>5, <1>7 DEF Fails
  <2>2. addInt64(b, x.delta).overflow /\ (x.delta > 0 \/ x.delta < 0)
    BY <1>5, <2>1, AddInt64Exact
  <2>3. FailureKind(x, before) = IF x.delta > 0 THEN "counter_overflow" ELSE "counter_underflow"
    BY <1>7 DEF FailureKind
  <2> QED
    BY <1>1, <1>3, <1>5, <2>1, <2>2, <2>3 DEF CounterConflictEvidence
<1> QED
  BY <1>6, <1>7

(* An append writes its event, its time and its head.                      *)
LEMMA AppendWrites ==
  ASSUME NEW append, AppendType(append)
  PROVE  Len(Mutations(append)) \in Nat \ {0}
<1> DEFINE S == CommandMutation(append)
           side == [j \in DOMAIN append.mutations |-> SideItem(append, append.mutations[j])]
           own == <<InternalPut("event", append.event, Nil), InternalPut("time", append.root, Nil),
                    InternalPut("head", append.head, append.expectedHead)>>
           nodes == [j \in DOMAIN append.nodes |-> InternalPut(NodeKeys[j], append.nodes[j], Nil)]
<1>1. /\ Len(append.mutations) \in Nat /\ DOMAIN append.mutations = 1 .. Len(append.mutations)
      /\ Len(append.nodes) \in Nat /\ DOMAIN append.nodes = 1 .. Len(append.nodes)
  BY DEF AppendType
<1>2. Len(side) \in Nat /\ Len(own) = 3 /\ Len(nodes) \in Nat
  BY <1>1
<1>3. side = [j \in 1 .. Len(append.mutations) |-> side[j]] /\ nodes = [j \in 1 .. Len(append.nodes) |-> nodes[j]]
  BY <1>1
<1>4. Mutations(append) = side \o own \o nodes
  BY DEF Mutations, SideItem
<1>5. own \in Seq({own[1], own[2], own[3]})
  OBVIOUS
<1> HIDE DEF side, own, nodes
<1>6. \E T : side \in Seq(T) /\ own \in Seq(T) /\ nodes \in Seq(T)
  <2> DEFINE T == {side[j] : j \in 1 .. Len(append.mutations)} \cup {own[1], own[2], own[3]}
                    \cup {nodes[j] : j \in 1 .. Len(append.nodes)}
  <2>1. side \in [1 .. Len(append.mutations) -> T] /\ nodes \in [1 .. Len(append.nodes) -> T]
    BY <1>3
  <2>2. own \in Seq(T)
    BY <1>5
  <2> HIDE DEF T
  <2>3. side \in Seq(T) /\ nodes \in Seq(T)
    BY <1>1, <2>1, FunctionIsSeq, Zenon
  <2> QED
    BY <2>2, <2>3
<1>7. PICK T : side \in Seq(T) /\ own \in Seq(T) /\ nodes \in Seq(T)
  BY <1>6
<1>8. side \o own \in Seq(T) /\ Len(side \o own) = Len(side) + Len(own)
  BY <1>7, ConcatParts
<1>9. Len((side \o own) \o nodes) = Len(side \o own) + Len(nodes)
  BY <1>7, <1>8, ConcatParts
<1> QED
  BY <1>2, <1>4, <1>8, <1>9

(* A condition's evidence is well typed and passes the checks on it.       *)
ConditionAccepted(o, i, c, holds) ==
  /\ o \in StreamObservation
  /\ decodeConditionalObservation(o, i, TRUE)
  /\ AppendConditionEvidence(o, c)
  /\ o.matched = IF holds THEN "true" ELSE "false"
  /\ o.before = o.after

(* Core's observation of a condition passes the checks on it.              *)
LEMMA GenuineConditionAccepted ==
  ASSUME NEW append, AppendType(append), NEW c \in CommandCondition(append), NEW v \in Int, NEW i \in Nat, NEW o,
         o = [index |-> i, keyspace |-> c.keyspace, key |-> c.key, before |-> v, after |-> v,
              matched |-> IF Holds(c, v) THEN "true" ELSE "false", beforeI64 |-> NoI64, afterI64 |-> NoI64]
  PROVE  ConditionAccepted(o, i, c, Holds(c, v))
<1>1. /\ o.index = i /\ o.keyspace = c.keyspace /\ o.key = c.key /\ o.before = v /\ o.after = v
      /\ o.beforeI64 = NoI64 /\ o.afterI64 = NoI64
      /\ o.matched = IF Holds(c, v) THEN "true" ELSE "false"
  OBVIOUS
<1>2. /\ c.expected \in Int /\ c.operator \in Operators /\ c.key \in Keys \cup InternalKeys
      /\ c.keyspace \in Namespaces \cup {InternalKeyspace}
  BY DEF CommandCondition, AppendType
<1>3. conditionalValueMatches(v, c.expected, c.operator) <=> Holds(c, v)
  BY <1>2, MatchesIsHoldsWide
<1>4. o \in StreamObservation
  <2>1. PICK t : t = (IF Holds(c, v) THEN "true" ELSE "false") /\ t \in {"true", "false"}
    OBVIOUS
  <2> QED
    BY <1>2, <2>1 DEF StreamObservation
<1>5. decodeConditionalObservation(o, i, TRUE)
  BY <1>1 DEF decodeConditionalObservation
<1>6. (o.matched = "true") <=> Holds(c, v)
  BY <1>1
<1>7. o.matched # "absent"
  BY <1>1
<1>8. AppendConditionEvidence(o, c)
  BY <1>1, <1>3, <1>6, <1>7 DEF AppendConditionEvidence, ConditionEvidence
<1> QED
  BY <1>1, <1>4, <1>5, <1>8 DEF ConditionAccepted

(* The fields of Core's receipt for an append.                             *)
AppendReceiptIs(r, append, cells, revision, conflict, cs, ms) ==
  /\ r.requestID = append.id /\ r.revision = revision /\ r.sealed /\ r.conflict = conflict
  /\ r.commandSHA = CommandSHA(append)
  /\ r.outcome = IF conflict = NoConflict THEN "applied" ELSE "conflict"
  /\ r.conditions = [i \in 1 .. Len(cs) |->
                       [index |-> i, keyspace |-> cs[i].keyspace, key |-> cs[i].key,
                        before |-> cells[cs[i].key], after |-> cells[cs[i].key],
                        matched |-> IF Holds(cs[i], cells[cs[i].key]) THEN "true" ELSE "false",
                        beforeI64 |-> NoI64, afterI64 |-> NoI64]]
  /\ DOMAIN r.mutations = 1 .. Len(ms) /\ r.mutations \in Seq({r.mutations[i] : i \in 1 .. Len(ms)})
  /\ Len(r.mutations) = Len(ms)
  /\ \A i \in 1 .. Len(ms) :
       MutationObserved(r.mutations[i], i, ms[i], cells[ms[i].key],
                        IF conflict = NoConflict THEN Result(ms[i], cells[ms[i].key]) ELSE cells[ms[i].key])

(* Core's receipt of an append has the fields that AppendReceiptIs lists.  *)
LEMMA AppendReceiptFields ==
  ASSUME NEW append, AppendType(append), NEW cells, NEW revision
  PROVE  AppendReceiptIs(CoreAppendReceipt(append, cells, revision), append, cells, revision,
                         ConflictOf(AppendCommand(append), cells), Conditions(append), Mutations(append))
<1> DEFINE r == CoreAppendReceipt(append, cells, revision)
           cs == Conditions(append)
           ms == Mutations(append)
           conflict == ConflictOf(AppendCommand(append), cells)
           After(m) == IF conflict = NoConflict THEN Result(m, cells[m.key]) ELSE cells[m.key]
           obs == [i \in DOMAIN ms |->
                     [index |-> i, keyspace |-> ms[i].keyspace, key |-> ms[i].key,
                      before |-> cells[ms[i].key], after |-> After(ms[i]), matched |-> "absent",
                      beforeI64 |-> I64Field(ms[i], cells[ms[i].key]),
                      afterI64 |-> I64Field(ms[i], After(ms[i]))]]
<1>1. cs \in Seq(CommandCondition(append)) /\ ms \in Seq(CommandMutation(append))
  BY ConditionsType, MutationsType
<1>2. DOMAIN cs = 1 .. Len(cs) /\ DOMAIN ms = 1 .. Len(ms) /\ Len(ms) \in Nat
  BY <1>1
<1>3. /\ r.requestID = append.id /\ r.revision = revision /\ r.sealed /\ r.conflict = conflict
      /\ r.commandSHA = CommandSHA(append)
      /\ r.outcome = IF conflict = NoConflict THEN "applied" ELSE "conflict"
  BY DEF CoreAppendReceipt, AppendCommand
<1>4. r.mutations = obs
  BY DEF CoreAppendReceipt, AppendCommand
<1>5. r.conditions = [i \in DOMAIN cs |->
                       [index |-> i, keyspace |-> cs[i].keyspace, key |-> cs[i].key,
                        before |-> cells[cs[i].key], after |-> cells[cs[i].key],
                        matched |-> IF Holds(cs[i], cells[cs[i].key]) THEN "true" ELSE "false",
                        beforeI64 |-> NoI64, afterI64 |-> NoI64]]
  BY DEF CoreAppendReceipt, AppendCommand
<1> HIDE DEF conflict, r, cs, ms
<1>6. \A i \in 1 .. Len(ms) : MutationObserved(obs[i], i, ms[i], cells[ms[i].key], After(ms[i]))
  BY <1>2 DEF MutationObserved
<1>7. obs = [i \in 1 .. Len(ms) |-> obs[i]]
  BY <1>2
<1> HIDE DEF obs
<1>8. obs \in Seq({obs[i] : i \in 1 .. Len(ms)}) /\ Len(obs) = Len(ms) /\ DOMAIN obs = 1 .. Len(ms)
  <2>1. PICK S : S = {obs[i] : i \in 1 .. Len(ms)}
    OBVIOUS
  <2>2. obs \in [1 .. Len(ms) -> S] /\ DOMAIN obs = 1 .. Len(ms)
    BY <1>7, <2>1
  <2> QED
    BY <1>2, <2>1, <2>2, FunctionIsSeq
<1> QED
  BY <1>2, <1>3, <1>4, <1>5, <1>6, <1>8 DEF AppendReceiptIs, r, cs, ms, conflict

(* Completeness: the receipt Core writes for a sealed append passes        *)
(* decodeConditionalReceiptWithLimit and                                   *)
(* validateRevisionStreamTransactionReceipt, whatever the store holds.     *)
THEOREM GenuineAppendAccepted ==
  ASSUME NEW append, AppendType(append), NEW cells, AppendStore(cells), NEW revision \in Nat \ {0}
  PROVE  LET r == CoreAppendReceipt(append, cells, revision)
         IN  /\ AppendReceiptType(r)
             /\ decodeConditionalReceipt(r, append.id)
             /\ validateRevisionStreamTransactionReceipt(r, append)
<1>1. PICK r : r = CoreAppendReceipt(append, cells, revision)
  OBVIOUS
<1>2. PICK cs : cs = Conditions(append)
  OBVIOUS
<1>3. PICK ms : ms = Mutations(append)
  OBVIOUS
<1>4. PICK conflict : conflict = ConflictOf(AppendCommand(append), cells)
  OBVIOUS
<1> DEFINE nc == Len(cs)
           nm == Len(ms)
           Rejected == RejectedAt(AppendCommand(append), cells)
           Failed == FailedAt(AppendCommand(append), cells)
           After(m) == IF conflict = NoConflict THEN Result(m, cells[m.key]) ELSE cells[m.key]
<1>5. AppendReceiptIs(r, append, cells, revision, conflict, cs, ms)
  BY <1>1, <1>2, <1>3, <1>4, AppendReceiptFields
<1>6. cs \in Seq(CommandCondition(append)) /\ ms \in Seq(CommandMutation(append))
  BY <1>2, <1>3, ConditionsType, MutationsType
<1>7. nc \in Nat /\ nm \in Nat \ {0}
  BY <1>3, <1>6, AppendWrites
<1>8. /\ \A i \in 1 .. nc : cs[i] \in CommandCondition(append)
      /\ \A i \in 1 .. nm : ms[i] \in CommandMutation(append)
  BY <1>6
<1>9. /\ Rejected = {i \in 1 .. nc : ~Holds(cs[i], cells[cs[i].key])}
      /\ Failed = {i \in 1 .. nm : Fails(ms[i], cells[ms[i].key])}
  BY <1>2, <1>3 DEF RejectedAt, FailedAt, AppendCommand
<1>10. ConflictIs(AppendCommand(append), cells, conflict)
  BY <1>2, <1>3, <1>4, <1>7, CommandConflict DEF AppendCommand
<1>11. /\ r.requestID = append.id /\ r.revision = revision /\ r.sealed /\ r.conflict = conflict
       /\ r.outcome = IF conflict = NoConflict THEN "applied" ELSE "conflict"
       /\ DOMAIN r.mutations = 1 .. nm /\ Len(r.mutations) = nm
  BY <1>5 DEF AppendReceiptIs
<1>12. /\ DOMAIN r.conditions = 1 .. nc
       /\ \A i \in 1 .. nc :
            r.conditions[i] =
              [index |-> i, keyspace |-> cs[i].keyspace, key |-> cs[i].key,
               before |-> cells[cs[i].key], after |-> cells[cs[i].key],
               matched |-> IF Holds(cs[i], cells[cs[i].key]) THEN "true" ELSE "false",
               beforeI64 |-> NoI64, afterI64 |-> NoI64]
  BY <1>5 DEF AppendReceiptIs
<1>13. \A k \in Keys \cup InternalKeys : cells[k] \in Int
  BY HalfAssumption DEF AppendStore
<1>14. ASSUME NEW i \in 1 .. nc
       PROVE  ConditionAccepted(r.conditions[i], i, cs[i], Holds(cs[i], cells[cs[i].key]))
  <2>1. cs[i] \in CommandCondition(append) /\ i \in Nat
    BY <1>7, <1>8
  <2>2. cells[cs[i].key] \in Int
    BY <1>13, <2>1 DEF CommandCondition
  <2> QED
    BY <1>12, <2>1, <2>2, GenuineConditionAccepted
<1>15. r.conditions \in Seq(StreamObservation) /\ Len(r.conditions) = nc
  <2>1. \A i \in 1 .. nc : r.conditions[i] \in StreamObservation
    BY <1>14 DEF ConditionAccepted
  <2>2. PICK f : f = r.conditions
    OBVIOUS
  <2>3. f = [i \in 1 .. nc |-> f[i]]
    BY <1>5, <2>2 DEF AppendReceiptIs
  <2>4. f \in [1 .. nc -> StreamObservation]
    BY <2>1, <2>2, <2>3
  <2> QED
    BY <1>7, <2>2, <2>4, FunctionIsSeq
<1>16. conflict = NoConflict => Rejected = {} /\ Failed = {}
  <2>1. First(Rejected) \in Rejected => First(Rejected) # 0
    BY <1>9
  <2>2. \A i \in Failed : i # 0
    BY <1>9
  <2> HIDE DEF Rejected, Failed
  <2>3. CASE Rejected # {}
    <3>1. conflict = [kind |-> "condition_failed", index |-> First(Rejected)]
      BY <1>10, <2>3 DEF ConflictIs, Rejected
    <3> QED
      BY <3>1
  <2>4. CASE Rejected = {} /\ Failed # {}
    <3>1. PICK i \in Failed : conflict.index = i
      BY <1>10, <2>4 DEF ConflictIs, Rejected, Failed
    <3> QED
      BY <2>2, <3>1
  <2> QED
    BY <2>3, <2>4
<1>17. ASSUME NEW i \in 1 .. nm
       PROVE  MutationAccepted(r.mutations[i], i, ms[i], r.outcome)
  <2>1. /\ MutationObserved(r.mutations[i], i, ms[i], cells[ms[i].key], After(ms[i]))
        /\ ms[i] \in CommandMutation(append) /\ i \in Nat
    BY <1>5, <1>7, <1>8 DEF AppendReceiptIs
  <2>2. CASE StreamItemOf(ms[i], append)
    <3>1. ms[i].keyspace = InternalKeyspace /\ ms[i].key \in InternalKeys /\ ms[i].value \in Int
          /\ \A v : Result(ms[i], v) = ms[i].value
      BY <2>2 DEF StreamItemOf
    <3>2. ms[i].key \in KeysWritten(append)
      BY <1>3, <3>1, WritesKnownKeys
    <3>3. conflict = NoConflict => cells[ms[i].key] = ExpectedOf(append, ms[i].key)
      BY <1>16, <3>2, KeysAsExpected
    <3>4. cells[ms[i].key] \in Int /\ After(ms[i]) \in Int
      BY <1>13, <3>1
    <3>5. IF r.outcome = "conflict" THEN After(ms[i]) = cells[ms[i].key]
          ELSE After(ms[i]) = Result(ms[i], cells[ms[i].key]) /\ cells[ms[i].key] = ExpectedOf(append, ms[i].key)
      BY <1>11, <3>3
    <3> HIDE DEF After
    <3> QED
      BY <2>1, <2>2, <3>4, <3>5, StreamItemAccepted
  <2>3. ASSUME NEW x \in Mutation, SideItemOf(ms[i], x, append)
        PROVE  MutationAccepted(r.mutations[i], i, ms[i], r.outcome)
    <3>1. ms[i].key \in Keys
      BY <2>3 DEF SideItemOf, Mutation
    <3>2. cells[ms[i].key] \in Values
      BY <3>1 DEF AppendStore
    <3>3. conflict = NoConflict => ~Fails(ms[i], cells[ms[i].key])
      BY <1>9, <1>16
    <3>4. IF r.outcome = "conflict" THEN After(ms[i]) = cells[ms[i].key]
          ELSE After(ms[i]) = Result(ms[i], cells[ms[i].key]) /\ ~Fails(ms[i], cells[ms[i].key])
      BY <1>11, <3>3
    <3> HIDE DEF After
    <3> QED
      BY <2>1, <2>3, <3>2, <3>4, SideItemAccepted
  <2> QED
    BY <2>1, <2>2, <2>3, ItemKinds
<1>18. r.mutations \in Seq(StreamObservation)
  <2>1. \A i \in 1 .. nm : r.mutations[i] \in StreamObservation
    BY <1>17 DEF MutationAccepted
  <2>2. r.mutations \in Seq({r.mutations[i] : i \in 1 .. nm})
    BY <1>5 DEF AppendReceiptIs
  <2>3. {r.mutations[i] : i \in 1 .. nm} \subseteq StreamObservation
    BY <2>1
  <2>4. PICK f, S : f = r.mutations /\ S = {r.mutations[i] : i \in 1 .. nm}
    OBVIOUS
  <2> QED
    BY <2>2, <2>3, <2>4
<1>19. conflict \in {NoConflict} \cup [kind: CounterConflicts \cup {"condition_failed"}, index: Nat]
       /\ decodeConditionalConflict(r)
  <2>1. CASE conflict = NoConflict
    BY <1>11, <2>1 DEF decodeConditionalConflict
  <2>2. CASE Rejected # {}
    <3>1. conflict = [kind |-> "condition_failed", index |-> First(Rejected)] /\ First(Rejected) \in Rejected
      BY <1>10, <2>2 DEF ConflictIs
    <3>2. First(Rejected) \in 1 .. nc /\ First(Rejected) \in Nat
      BY <1>7, <1>9, <3>1
    <3> HIDE DEF Rejected
    <3>3. conflict.kind = "condition_failed" /\ conflict.index = First(Rejected)
      BY <3>1
    <3>4. conflict \in [kind: CounterConflicts \cup {"condition_failed"}, index: Nat]
      BY <3>1, <3>2
    <3> QED
      BY <1>11, <1>15, <3>2, <3>3, <3>4 DEF decodeConditionalConflict
  <2>3. CASE Rejected = {} /\ Failed # {}
    <3>1. PICK i \in Failed, k \in CounterConflicts : k = FailureKind(ms[i], cells[ms[i].key]) /\ conflict = [kind |-> k, index |-> i]
      BY <1>3, <1>10, <2>3, FailureIsCounter DEF ConflictIs, AppendCommand
    <3>2. i \in 1 .. nm /\ i \in Nat
      BY <1>7, <1>9
    <3>3. k \in CounterConflicts /\ k # "condition_failed"
      BY <3>1 DEF FailureKind, CounterConflicts
    <3>4. conflict.kind = k /\ conflict.index = i
      BY <3>1
    <3>5. conflict \in [kind: CounterConflicts \cup {"condition_failed"}, index: Nat]
      BY <3>1, <3>2, <3>3
    <3> QED
      BY <1>11, <3>2, <3>3, <3>4, <3>5 DEF decodeConditionalConflict
  <2>4. Rejected = {} /\ Failed = {} => conflict = NoConflict
    BY <1>10 DEF ConflictIs
  <2> QED
    BY <2>1, <2>2, <2>3, <2>4
<1>20. AppendReceiptType(r)
  <2>1. \A i \in 1 .. nm : r.mutations[i].keyspace # InternalKeyspace =>
          r.mutations[i].before \in Values /\ r.mutations[i].after \in Values
    BY <1>17 DEF MutationAccepted
  <2> QED
    BY <1>11, <1>15, <1>18, <1>19, <2>1 DEF AppendReceiptType
<1>21. IF r.outcome = "applied" THEN \A i \in 1 .. Len(r.conditions) : r.conditions[i].matched = "true"
       ELSE ConflictNamesFirstRejected(r)
  <2>1. CASE conflict = NoConflict
    <3>1. \A i \in 1 .. nc : Holds(cs[i], cells[cs[i].key])
      BY <1>9, <1>16, <2>1
    <3> QED
      BY <1>11, <1>14, <1>15, <2>1, <3>1 DEF ConditionAccepted
  <2>2. CASE conflict # NoConflict
    <3>1. \A i \in 1 .. nc : r.conditions[i].before = r.conditions[i].after
      BY <1>14 DEF ConditionAccepted
    <3>2. \A i \in 1 .. nc : r.conditions[i].matched = "false" <=> i \in Rejected
      BY <1>9, <1>14 DEF ConditionAccepted
    <3>3. Rejected \subseteq Nat /\ Rejected \subseteq 1 .. nc
      BY <1>7, <1>9
    <3>4. ASSUME NEW i \in 1 .. nc, i \in Rejected, \A j \in 1 .. i - 1 : j \notin Rejected
          PROVE  conflict = [kind |-> "condition_failed", index |-> i]
      <4>1. conflict = [kind |-> "condition_failed", index |-> First(Rejected)]
            /\ First(Rejected) \in Rejected /\ First(Rejected) <= i
        BY <1>10, <3>4 DEF ConflictIs
      <4> HIDE DEF Rejected
      <4>2. First(Rejected) = i
        <5>1. PICK f : f = First(Rejected)
          OBVIOUS
        <5>0. f \in Rejected /\ f <= i
          BY <4>1, <5>1
        <5>a. f \in 1 .. nc
          BY <3>3, <5>0
        <5>2. f \in Rejected /\ f \in Nat /\ f >= 1 /\ f <= i /\ i \in Nat
          BY <1>7, <5>0, <5>a
        <5>3. ~(f <= i - 1)
          BY <3>4, <5>2
        <5> QED
          BY <5>1, <5>2, <5>3
      <4> QED
        BY <4>1, <4>2
    <3>5. ASSUME conflict.kind = "condition_failed" PROVE \E i \in 1 .. nc : i \in Rejected
      <4>1. CASE Rejected # {}
        BY <3>3, <4>1
      <4>2. CASE Rejected = {}
        <5>1. PICK i \in Failed, k \in CounterConflicts : k = FailureKind(ms[i], cells[ms[i].key]) /\ conflict = [kind |-> k, index |-> i]
          BY <1>3, <1>10, <2>2, <4>2, FailureIsCounter DEF ConflictIs, AppendCommand
        <5>2. k # "condition_failed" /\ conflict.kind = k
          BY <5>1 DEF FailureKind
        <5> QED
          BY <3>5, <5>2
      <4> QED
        BY <4>1, <4>2
    <3> HIDE DEF Rejected
    <3>6. ASSUME NEW i \in 1 .. nc, r.conditions[i].matched = "false",
                 \A j \in 1 .. i - 1 : ~(r.conditions[j].matched = "false")
          PROVE  conflict = [kind |-> "condition_failed", index |-> i]
      <4>1. \A j \in 1 .. i - 1 : j \in 1 .. nc
        BY <1>7
      <4> QED
        BY <3>2, <3>4, <3>6, <4>1
    <3>7. ConflictNamesFirstRejected(r)
      BY <1>11, <1>15, <3>1, <3>2, <3>5, <3>6 DEF ConflictNamesFirstRejected
    <3> QED
      BY <1>11, <2>2, <3>7
  <2> QED
    BY <2>1, <2>2
<1>22. decodeConditionalReceipt(r, append.id)
  <2>1. r.mutations # <<>>
    BY <1>7, <1>11
  <2>2. /\ \A i \in 1 .. nc : decodeConditionalObservation(r.conditions[i], i, TRUE)
        /\ \A i \in 1 .. nm : decodeConditionalObservation(r.mutations[i], i, FALSE)
    BY <1>14, <1>17 DEF ConditionAccepted, MutationAccepted
  <2>3. (r.outcome = "applied") <=> (r.conflict = NoConflict)
    BY <1>11
  <2>4. r.outcome \in {"applied", "conflict"} /\ r.revision # 0
    BY <1>11
  <2> QED
    BY <1>11, <1>15, <1>19, <1>21, <2>1, <2>2, <2>3, <2>4 DEF decodeConditionalReceipt
<1>23. SideCounterConflict(r, append)
  <2> SUFFICES ASSUME r.outcome = "conflict", r.conflict.kind # "condition_failed"
               PROVE  /\ r.conflict.index \in DOMAIN append.mutations
                      /\ CounterConflictEvidence(r.mutations[r.conflict.index], append.mutations[r.conflict.index],
                                                 r.conflict.kind)
    BY DEF SideCounterConflict
  <2>1. conflict # NoConflict
    BY <1>11
  <2>2. Rejected = {}
    <3> SUFFICES ASSUME Rejected # {} PROVE FALSE
      OBVIOUS
    <3>1. conflict = [kind |-> "condition_failed", index |-> First(Rejected)]
      BY <1>10 DEF ConflictIs
    <3> QED
      BY <1>11, <3>1
  <2>3. PICK i \in Failed, k \in CounterConflicts : k = FailureKind(ms[i], cells[ms[i].key]) /\ conflict = [kind |-> k, index |-> i]
    BY <1>3, <1>10, <2>1, <2>2, FailureIsCounter DEF ConflictIs, AppendCommand
  <2>4. conflict.kind = k /\ conflict.index = i
    BY <2>3
  <2>5. i \in 1 .. nm /\ Fails(ms[i], cells[ms[i].key]) /\ ms[i] \in CommandMutation(append)
    BY <1>8, <1>9
  <2>6. ~StreamItemOf(ms[i], append)
    BY <2>5 DEF StreamItemOf
  <2>7. PICK x \in Mutation : SideItemOf(ms[i], x, append)
    BY <2>5, <2>6, ItemKinds
  <2>8. ms[i].keyspace # InternalKeyspace /\ ms[i].key \in Keys
    BY <2>7 DEF SideItemOf, AppendType, Mutation
  <2>9. /\ Len(append.mutations) \in Nat /\ DOMAIN append.mutations = 1 .. Len(append.mutations)
        /\ \A j \in DOMAIN append.mutations : ms[j] = SideItem(append, append.mutations[j])
    BY <1>3, MutationsType
  <2>10. i \in DOMAIN append.mutations
    <3>1. ~(i > Len(append.mutations))
      BY <1>3, <2>5, <2>8, StreamItemsBehind
    <3> QED
      BY <1>7, <2>5, <2>9, <3>1
  <2>11. x = append.mutations[i]
    <3>1. SideItem(append, x) = SideItem(append, append.mutations[i]) /\ append.mutations[i] \in Mutation
      BY <2>7, <2>9, <2>10 DEF SideItemOf, AppendType
    <3>2. PICK y \in Mutation : y = append.mutations[i]
      BY <3>1
    <3>3. x.kind = y.kind /\ x.key = y.key /\ x.value = y.value /\ x.delta = y.delta
      BY <3>1, <3>2 DEF SideItem
    <3>4. x = y
      BY <3>3 DEF Mutation
    <3> QED
      BY <3>2, <3>4
  <2>12. MutationObserved(r.mutations[i], i, ms[i], cells[ms[i].key], cells[ms[i].key])
    BY <1>5, <2>1, <2>5 DEF AppendReceiptIs
  <2>13. cells[ms[i].key] \in Values
    BY <2>8 DEF AppendStore
  <2>14. CounterConflictEvidence(r.mutations[i], x, k)
    BY <2>3, <2>5, <2>7, <2>12, <2>13, SideConflictAccepted
  <2> QED
    BY <1>11, <2>4, <2>10, <2>11, <2>14
<1>24. validateRevisionStreamTransactionReceipt(r, append)
  <2>1. /\ \A i \in 1 .. nc : AppendConditionEvidence(r.conditions[i], cs[i])
        /\ \A i \in 1 .. nm : AppendMutationEvidence(r.mutations[i], ms[i], r.outcome)
    BY <1>14, <1>17 DEF ConditionAccepted, MutationAccepted
  <2> QED
    BY <1>2, <1>3, <1>11, <1>12, <1>15, <1>23, <2>1 DEF validateRevisionStreamTransactionReceipt
<1> QED
  BY <1>1, <1>20, <1>22, <1>24

-----------------------------------------------------------------------------
(* The answer as a whole.                                                  *)

(* The fields of a receipt and of an answer.                               *)
ReceiptRecord(r) ==
  r = [form |-> r.form, requestID |-> r.requestID, commandSHA |-> r.commandSHA, revision |-> r.revision,
       outcome |-> r.outcome, conflict |-> r.conflict, conditions |-> r.conditions,
       mutations |-> r.mutations, sealed |-> r.sealed]

AnswerRecord(w) ==
  w = [result |-> w.result, original |-> w.original, applied |-> w.applied, duplicate |-> w.duplicate,
       revision |-> w.revision, receipt |-> w.receipt, streamReceipt |-> w.streamReceipt, quorum |-> w.quorum]

(* What is known of a receipt of a request or of an append.                *)
RequestReceipt(r) == ReceiptRecord(r) /\ ReceiptType(r)
AppendReceipt(r) == ReceiptRecord(r) /\ AppendReceiptType(r)

(* Core's receipt is well typed.                                           *)
LEMMA GenuineReceiptTyped ==
  ASSUME NEW request, RequestType(request), request.namespace \in Namespaces, NEW cells \in [Keys -> Values],
         NEW revision
  PROVE  RequestReceipt(CoreReceipt(request, cells, revision))
<1>1. PICK r : r = CoreReceipt(request, cells, revision)
  OBVIOUS
<1>2. Len(request.conditions) \in Nat /\ Len(request.mutations) \in Nat
  BY DEF RequestType
<1> DEFINE nc == Len(request.conditions)
           nm == Len(request.mutations)
<1>3. ReceiptRecord(r)
  BY <1>1 DEF CoreReceipt, ReceiptRecord
<1>4. /\ r.conditions = [i \in 1 .. nc |->
                         [index |-> i, keyspace |-> request.namespace, key |-> request.conditions[i].key,
                          before |-> cells[request.conditions[i].key], after |-> cells[request.conditions[i].key],
                          matched |-> IF Holds(request.conditions[i], cells[request.conditions[i].key])
                                      THEN "true" ELSE "false",
                          beforeI64 |-> NoI64, afterI64 |-> NoI64]]
      /\ DOMAIN r.mutations = 1 .. nm
      /\ r.mutations = [i \in 1 .. nm |-> r.mutations[i]]
      /\ r.conflict = ConflictOf(request, cells)
  BY <1>1 DEF CoreReceipt
<1>5. ASSUME NEW i \in 1 .. nc PROVE r.conditions[i] \in Observation
  <2>1. request.conditions[i] \in Condition /\ i \in Nat
    BY <1>2 DEF RequestType
  <2>2. PICK c : c = request.conditions[i]
    OBVIOUS
  <2>3. c.key \in Keys /\ cells[c.key] \in Values
    BY <2>1, <2>2 DEF Condition
  <2>4. PICK t \in {"true", "false"} : t = IF Holds(c, cells[c.key]) THEN "true" ELSE "false"
    OBVIOUS
  <2>5. r.conditions[i] = [index |-> i, keyspace |-> request.namespace, key |-> c.key, before |-> cells[c.key],
                           after |-> cells[c.key], matched |-> t, beforeI64 |-> NoI64, afterI64 |-> NoI64]
    BY <1>4, <2>2, <2>4
  <2> QED
    BY <2>1, <2>3, <2>5 DEF Observation
<1>6. ASSUME NEW i \in 1 .. nm PROVE r.mutations[i] \in Observation
  <2>1. request.mutations[i] \in Mutation /\ i \in Nat
    BY <1>2 DEF RequestType
  <2>2. request.mutations[i].key \in Keys
    BY <2>1 DEF Mutation
  <2>3. r.mutations[i] \in [index: {i}, keyspace: {request.namespace}, key: {request.mutations[i].key},
                            before: Values, after: Values, matched: {"absent"},
                            beforeI64: Int64 \cup {NoI64}, afterI64: Int64 \cup {NoI64}]
    BY <1>1, GenuineMutation
  <2> QED
    BY <2>1, <2>2, <2>3 DEF Observation
<1>7. r.conditions \in Seq(Observation)
  <2>1. PICK f : f = r.conditions
    OBVIOUS
  <2>2. f = [i \in 1 .. nc |-> f[i]]
    BY <1>4, <2>1
  <2>3. f \in [1 .. nc -> Observation]
    BY <1>5, <2>1, <2>2
  <2> QED
    BY <1>2, <2>1, <2>3, FunctionIsSeq
<1>8. r.mutations \in Seq(Observation)
  <2>1. PICK f : f = r.mutations
    OBVIOUS
  <2>2. f = [i \in 1 .. nm |-> f[i]]
    BY <1>4, <2>1
  <2>3. f \in [1 .. nm -> Observation]
    BY <1>6, <2>1, <2>2
  <2> QED
    BY <1>2, <2>1, <2>3, FunctionIsSeq
<1>9. r.conflict \in {NoConflict} \cup [kind: CounterConflicts \cup {"condition_failed"}, index: Nat]
  <2>1. ConflictIs(request, cells, r.conflict)
    BY <1>2, <1>4, CommandConflict
  <2>2. RejectedAt(request, cells) \subseteq Nat /\ FailedAt(request, cells) \subseteq Nat
    BY <1>2 DEF RejectedAt, FailedAt
  <2>3. \A m, v : FailureKind(m, v) \in CounterConflicts
    BY DEF FailureKind, CounterConflicts
  <2>4. CASE RejectedAt(request, cells) # {}
    <3>1. PICK f \in Nat : r.conflict = [kind |-> "condition_failed", index |-> f]
      BY <2>1, <2>2, <2>4 DEF ConflictIs
    <3> QED
      BY <3>1
  <2>5. CASE RejectedAt(request, cells) = {} /\ r.conflict # NoConflict
    <3>1. PICK f \in Nat, k \in CounterConflicts : r.conflict = [kind |-> k, index |-> f]
      BY <2>1, <2>2, <2>3, <2>5 DEF ConflictIs
    <3> QED
      BY <3>1
  <2> QED
    BY <2>4, <2>5
<1> QED
  BY <1>1, <1>3, <1>7, <1>8, <1>9 DEF RequestReceipt, ReceiptType

(* The fields of an answer that carries a receipt.                         *)
Carries(w, s, r, dup, q) ==
  /\ AnswerRecord(w)
  /\ w.result = (IF dup THEN "duplicate" ELSE r.outcome) /\ w.original = r.outcome
  /\ w.applied = (r.outcome = "applied") /\ w.duplicate = dup
  /\ w.revision = r.revision /\ w.receipt = r /\ w.streamReceipt = StreamReceiptOf(s, r)
  /\ w.quorum = IF q THEN [form |-> "quorum", requestID |-> r.requestID, commandSHA |-> r.commandSHA,
                           index |-> r.revision, stage |-> "applied", durability |-> "quorum_fsync",
                           resultSHA |-> r]
                     ELSE NoQuorum

(* What ResultOf builds carries its receipt.                               *)
LEMMA ResultCarries ==
  ASSUME NEW s, NEW r, NEW dup, NEW q
  PROVE  Carries(ResultOf(s, r, dup, q), s, r, dup, q)
<1>1. PICK w : w = ResultOf(s, r, dup, q)
  OBVIOUS
<1>2. AnswerRecord(w)
  BY <1>1 DEF ResultOf, AnswerRecord
<1>3. /\ w.result = (IF dup THEN "duplicate" ELSE r.outcome) /\ w.original = r.outcome
      /\ w.applied = (r.outcome = "applied") /\ w.duplicate = dup
  BY <1>1, Zenon DEF ResultOf
<1>4. /\ w.revision = r.revision /\ w.receipt = r /\ w.streamReceipt = StreamReceiptOf(s, r)
      /\ w.quorum = IF q THEN [form |-> "quorum", requestID |-> r.requestID, commandSHA |-> r.commandSHA,
                           index |-> r.revision, stage |-> "applied", durability |-> "quorum_fsync",
                           resultSHA |-> r]
                     ELSE NoQuorum
  BY <1>1, Zenon DEF ResultOf
<1> QED
  BY <1>1, <1>2, <1>3, <1>4, Zenon DEF Carries

(* The quorum's evidence for a receipt is accepted with it.                *)
LEMMA QuorumAccepted ==
  ASSUME NEW r, r.revision # 0, NEW q, NEW v,
         v = IF q THEN [form |-> "quorum", requestID |-> r.requestID, commandSHA |-> r.commandSHA,
                        index |-> r.revision, stage |-> "applied", durability |-> "quorum_fsync",
                        resultSHA |-> r]
                  ELSE NoQuorum
  PROVE  decodeOptionalQuorumReceipt(v, r.requestID, r.commandSHA, r)
<1>1. CASE q
  <2>1. v = [form |-> "quorum", requestID |-> r.requestID, commandSHA |-> r.commandSHA,
             index |-> r.revision, stage |-> "applied", durability |-> "quorum_fsync", resultSHA |-> r]
    BY <1>1
  <2>2. /\ v.requestID = r.requestID /\ v.commandSHA = r.commandSHA /\ v.index = r.revision
        /\ v.stage = "applied" /\ v.durability = "quorum_fsync" /\ v.resultSHA = r
    BY <2>1
  <2> QED
    BY <2>2 DEF decodeOptionalQuorumReceipt
<1>2. CASE ~q
  BY <1>2 DEF decodeOptionalQuorumReceipt
<1> QED
  BY <1>1, <1>2

(* The fields of the lookup that finds an answer's receipt.                *)
LEMMA LookupFields ==
  ASSUME NEW w
  PROVE  LET l == LookupOf(w)
         IN  /\ l.requestID = sent.id
             /\ l.result = (IF w.receipt = NoReceipt THEN "indeterminate" ELSE "found")
             /\ l.revision = w.revision /\ l.receipt = w.receipt
             /\ l.streamReceipt = w.streamReceipt /\ l.quorum = w.quorum
BY Zenon DEF LookupOf

(* A genuine answer to a request is accepted, executed or looked up.       *)
LEMMA GenuineAnswerAccepted ==
  ASSUME ~IsAppend(sent), NEW r, r # NoReceipt, r.revision # 0, NEW dup \in BOOLEAN, NEW q \in BOOLEAN,
         NEW w, Carries(w, sent, r, dup, q),
         decodeConditionalReceipt(r, sent.id), validateReceiptAgainstRequest(r, sent),
         r.commandSHA = conditionalCommandSHA(sent)
  PROVE  decodeConditionalTransactionResult(w, sent) /\ decodeConditionalReceiptLookup(LookupOf(w), sent)
<1>1. r.requestID = sent.id /\ r.outcome \in {"applied", "conflict"}
  BY DEF decodeConditionalReceipt
<1>2. w.receipt = r /\ w.revision = r.revision
  BY DEF Carries
<1>3. decodeOptionalQuorumReceipt(w.quorum, r.requestID, r.commandSHA, r)
  BY QuorumAccepted DEF Carries
<1>4. ReceiptAnswers(w, sent)
  BY <1>1, <1>2, <1>3 DEF ReceiptAnswers
<1>5. /\ w.result \in {"applied", "duplicate", "conflict"}
      /\ w.original = w.receipt.outcome
      /\ w.duplicate <=> (w.result = "duplicate")
      /\ ~w.duplicate => w.result = w.original
      /\ w.duplicate \in BOOLEAN
  BY <1>1, <1>2 DEF Carries
<1>6. w.applied = (w.original = "applied")
  BY Zenon DEF Carries
<1>7. w.duplicate = (w.result = "duplicate")
  BY <1>5, Zenon
<1>8. decodeConditionalTransactionResult(w, sent)
  BY <1>4, <1>5, <1>6, <1>7, Zenon DEF decodeConditionalTransactionResult
<1>9. PICK l : l = LookupOf(w)
  OBVIOUS
<1>10. /\ l.requestID = sent.id /\ l.result = "found"
       /\ l.revision = w.revision /\ l.receipt = w.receipt /\ l.quorum = w.quorum
  BY <1>2, <1>9, LookupFields
<1>11. ReceiptAnswers(l, sent)
  BY <1>4, <1>10 DEF ReceiptAnswers
<1>12. decodeConditionalReceiptLookup(l, sent)
  BY <1>10, <1>11 DEF decodeConditionalReceiptLookup
<1> QED
  BY <1>8, <1>9, <1>12

(* A genuine answer to an append is accepted, executed or looked up.       *)
LEMMA GenuineAppendAnswerAccepted ==
  ASSUME IsAppend(sent), NEW r, r # NoReceipt, r.revision # 0, NEW dup \in BOOLEAN, NEW q \in BOOLEAN,
         NEW w, Carries(w, sent, r, dup, q),
         decodeConditionalReceipt(r, sent.id), validateRevisionStreamTransactionReceipt(r, sent),
         r.commandSHA = CommandSHA(sent)
  PROVE  /\ decodeRevisionStreamAppendResult(w, sent)
         /\ decodeRevisionStreamAppendReceiptLookup(LookupOf(w), sent)
<1>1. r.requestID = sent.id /\ r.outcome \in {"applied", "conflict"}
  BY DEF decodeConditionalReceipt
<1>2. w.receipt = r /\ w.revision = r.revision /\ w.streamReceipt = StreamReceiptOf(sent, r)
  BY DEF Carries
<1>3. decodeOptionalQuorumReceipt(w.quorum, r.requestID, r.commandSHA, r)
  BY QuorumAccepted DEF Carries
<1>a. IF r.outcome = "applied" THEN decodeRevisionStreamReceipt(w.streamReceipt, sent)
      ELSE w.streamReceipt = NoStreamReceipt
  BY <1>2 DEF StreamReceiptOf, decodeRevisionStreamReceipt
<1>4. AppendReceiptAnswers(w, sent)
  BY <1>1, <1>2, <1>3, <1>a DEF AppendReceiptAnswers
<1>5. /\ w.result \in {"applied", "duplicate", "conflict"}
      /\ w.original = w.receipt.outcome
      /\ w.duplicate <=> (w.result = "duplicate")
      /\ ~w.duplicate => w.result = w.original
      /\ w.duplicate \in BOOLEAN
  BY <1>1, <1>2 DEF Carries
<1>6. w.applied = (w.original = "applied")
  BY Zenon DEF Carries
<1>7. w.duplicate = (w.result = "duplicate")
  BY <1>5, Zenon
<1>8. decodeRevisionStreamAppendResult(w, sent)
  BY <1>4, <1>5, <1>6, <1>7, Zenon DEF decodeRevisionStreamAppendResult
<1>9. PICK l : l = LookupOf(w)
  OBVIOUS
<1>10. /\ l.requestID = sent.id /\ l.result = "found"
       /\ l.revision = w.revision /\ l.receipt = w.receipt /\ l.streamReceipt = w.streamReceipt /\ l.quorum = w.quorum
  BY <1>2, <1>9, LookupFields
<1>11. AppendReceiptAnswers(l, sent)
  BY <1>4, <1>10 DEF AppendReceiptAnswers
<1>12. decodeRevisionStreamAppendReceiptLookup(l, sent)
  BY <1>10, <1>11 DEF decodeRevisionStreamAppendReceiptLookup
<1> QED
  BY <1>8, <1>9, <1>12

(* The inductive invariant of ReceiptDecoding.  Altered or not, what is    *)
(* decoded has the types the wire decoders enforce; as long as nothing was *)
(* altered, it passes every check.                                         *)
KindInv == \/ sent \in Requests /\ ~IsAppend(sent) /\ RequestType(sent)
           \/ sent \in Appends /\ IsAppend(sent) /\ AppendType(sent)

TypedInv ==
  /\ AnswerRecord(answer)
  /\ ~IsAppend(sent) => RequestReceipt(answer.receipt)
  /\ IsAppend(sent) => answer.receipt = NoReceipt \/ AppendReceipt(answer.receipt)

DecodingInv ==
  /\ KindInv
  /\ TypedInv
  /\ genuine => answer.receipt # NoReceipt
  /\ GenuineAccepted

(* Core's answers satisfy the invariant: they are typed, and accepted.     *)
LEMMA DecodingInvInit == Init => DecodingInv
<1> SUFFICES ASSUME Init PROVE DecodingInv
  OBVIOUS
<1>1. ASSUME sent \in Requests, WellFormed(sent), NEW cells \in Stores, NEW revision \in Revisions,
             NEW dup \in BOOLEAN, NEW q \in BOOLEAN,
             answer = ResultOf(sent, CoreReceipt(sent, cells, revision), dup, q)
      PROVE  DecodingInv
  <2>1. ~IsAppend(sent) /\ RequestType(sent) /\ sent.namespace \in Namespaces
    BY <1>1, RequestsAssumption DEF RequestType, RequestItems
  <2>2. cells \in [Keys -> Values] /\ revision \in Nat \ {0}
    BY StoresAssumption, ClaimsAssumption
  <2>3. PICK r : r = CoreReceipt(sent, cells, revision)
    OBVIOUS
  <2>4. RequestReceipt(r)
    BY <2>1, <2>2, <2>3, GenuineReceiptTyped
  <2>5. decodeConditionalReceipt(r, sent.id) /\ validateReceiptAgainstRequest(r, sent)
    BY <2>1, <2>2, <2>3, GenuineReceiptAccepted
  <2>6. /\ r.form = "receipt" /\ r.revision = revision /\ r.commandSHA = conditionalCommandSHA(sent)
    BY <2>3 DEF CoreReceipt
  <2>7. r # NoReceipt
    BY <2>6 DEF NoReceipt
  <2>8. Carries(answer, sent, r, dup, q)
    BY <1>1, <2>3, ResultCarries
  <2>9. /\ decodeConditionalTransactionResult(answer, sent)
        /\ decodeConditionalReceiptLookup(LookupOf(answer), sent)
    BY <2>1, <2>2, <2>5, <2>6, <2>7, <2>8, GenuineAnswerAccepted
  <2>10. AnswerRecord(answer) /\ answer.receipt = r
    BY <2>8 DEF Carries
  <2>11. GenuineAccepted
    BY <2>1, <2>9 DEF GenuineAccepted, Accepted, Found
  <2>12. KindInv
    BY <1>1, <2>1 DEF KindInv
  <2>13. TypedInv
    BY <2>1, <2>4, <2>10 DEF TypedInv
  <2> QED
    BY <2>7, <2>10, <2>11, <2>12, <2>13 DEF DecodingInv
<1>2. ASSUME sent \in Appends, NEW cells \in AppendStores, NEW revision \in Revisions,
             NEW dup \in BOOLEAN, NEW q \in BOOLEAN,
             answer = ResultOf(sent, CoreAppendReceipt(sent, cells, revision), dup, q)
      PROVE  DecodingInv
  <2>1. IsAppend(sent) /\ AppendType(sent)
    BY <1>2, AppendsAssumption
  <2>2. AppendStore(cells) /\ revision \in Nat \ {0}
    BY StoresAssumption, ClaimsAssumption DEF AppendStore
  <2>3. PICK r : r = CoreAppendReceipt(sent, cells, revision)
    OBVIOUS
  <2>4. /\ AppendReceiptType(r)
        /\ decodeConditionalReceipt(r, sent.id)
        /\ validateRevisionStreamTransactionReceipt(r, sent)
    BY <2>1, <2>2, <2>3, GenuineAppendAccepted
  <2>5. ReceiptRecord(r)
    BY <2>3 DEF CoreAppendReceipt, ReceiptRecord
  <2>6. r.form = "receipt" /\ r.revision = revision /\ r.commandSHA = CommandSHA(sent)
    BY <2>3 DEF CoreAppendReceipt
  <2>7. r # NoReceipt
    BY <2>6 DEF NoReceipt
  <2>8. Carries(answer, sent, r, dup, q)
    BY <1>2, <2>3, ResultCarries
  <2>9. /\ decodeRevisionStreamAppendResult(answer, sent)
        /\ decodeRevisionStreamAppendReceiptLookup(LookupOf(answer), sent)
    BY <2>1, <2>2, <2>4, <2>6, <2>7, <2>8, GenuineAppendAnswerAccepted
  <2>10. AnswerRecord(answer) /\ answer.receipt = r
    BY <2>8 DEF Carries
  <2>11. GenuineAccepted
    BY <2>1, <2>9 DEF GenuineAccepted, Accepted, Found
  <2>12. KindInv
    BY <1>2, <2>1 DEF KindInv
  <2>13. TypedInv
    BY <2>1, <2>4, <2>5, <2>10 DEF TypedInv, AppendReceipt
  <2> QED
    BY <2>7, <2>10, <2>11, <2>12, <2>13 DEF DecodingInv
<1> QED
  BY <1>1, <1>2 DEF Init

-----------------------------------------------------------------------------
(* One observation of a list replaced by another.                          *)
LEMMA ListAltered ==
  ASSUME NEW S, NEW f \in Seq(S), NEW i \in DOMAIN f, NEW o \in S, NEW g, g = [f EXCEPT ![i] = o]
  PROVE  g \in Seq(S) /\ DOMAIN g = DOMAIN f /\ g[i] = o /\ \A j \in DOMAIN f : j # i => g[j] = f[j]
OBVIOUS

(* An observation with other values, and a receipt that claims them of one *)
(* of its conditions or of its mutations.                                  *)
FalseCondition(o, v, w, t) == [o EXCEPT !.before = v, !.after = w, !.matched = t]
FalseMutation(o, v, w, b, c) == [o EXCEPT !.before = v, !.after = w, !.beforeI64 = b, !.afterI64 = c]

WithCondition(r, i, v, w, t) ==
  [r EXCEPT !.conditions[i].before = v, !.conditions[i].after = w, !.conditions[i].matched = t]
WithMutation(r, i, v, w, b, c) ==
  [r EXCEPT !.mutations[i].before = v, !.mutations[i].after = w,
            !.mutations[i].beforeI64 = b, !.mutations[i].afterI64 = c]

(* A receipt with an altered condition.                                    *)
LEMMA ConditionAltered ==
  ASSUME NEW r, ReceiptRecord(r), NEW i, NEW v, NEW w, NEW t, NEW x, x = WithCondition(r, i, v, w, t),
         NEW S, r.conditions \in Seq(S), i \in DOMAIN r.conditions
  PROVE  /\ ReceiptRecord(x) /\ x.mutations = r.mutations /\ x.conflict = r.conflict
         /\ x.conditions = [r.conditions EXCEPT ![i] = FalseCondition(r.conditions[i], v, w, t)]
<1>1. DOMAIN r = {"form", "requestID", "commandSHA", "revision", "outcome", "conflict", "conditions",
                  "mutations", "sealed"}
  BY DEF ReceiptRecord
<1>2. DOMAIN x = DOMAIN r /\ x = [y \in DOMAIN x |-> x[y]]
  BY DEF WithCondition
<1>3. x.conflict = r.conflict /\ x.mutations = r.mutations
  BY <1>1 DEF WithCondition
<1>4. x.conditions = [r.conditions EXCEPT ![i] = FalseCondition(r.conditions[i], v, w, t)]
  BY <1>1 DEF WithCondition, FalseCondition
<1>5. ReceiptRecord(x)
  BY <1>1, <1>2 DEF ReceiptRecord
<1> QED
  BY <1>3, <1>4, <1>5

(* A receipt with an altered mutation.                                     *)
LEMMA MutationAltered ==
  ASSUME NEW r, ReceiptRecord(r), NEW i, NEW v, NEW w, NEW b, NEW c, NEW x, x = WithMutation(r, i, v, w, b, c),
         NEW S, r.mutations \in Seq(S), i \in DOMAIN r.mutations
  PROVE  /\ ReceiptRecord(x) /\ x.conditions = r.conditions /\ x.conflict = r.conflict
         /\ x.mutations = [r.mutations EXCEPT ![i] = FalseMutation(r.mutations[i], v, w, b, c)]
<1>1. DOMAIN r = {"form", "requestID", "commandSHA", "revision", "outcome", "conflict", "conditions",
                  "mutations", "sealed"}
  BY DEF ReceiptRecord
<1>2. DOMAIN x = DOMAIN r /\ x = [y \in DOMAIN x |-> x[y]]
  BY DEF WithMutation
<1>3. x.conflict = r.conflict /\ x.conditions = r.conditions
  BY <1>1 DEF WithMutation
<1>4. x.mutations = [r.mutations EXCEPT ![i] = FalseMutation(r.mutations[i], v, w, b, c)]
  BY <1>1 DEF WithMutation, FalseMutation
<1>5. ReceiptRecord(x)
  BY <1>1, <1>2 DEF ReceiptRecord
<1> QED
  BY <1>3, <1>4, <1>5

(* The type of the receipt that answers what was sent.                     *)
TypedReceipt(r) == IF IsAppend(sent) THEN AppendReceipt(r) ELSE RequestReceipt(r)

(* The integers and the conflicts that a receipt can name.                 *)
WireI64 == Int64 \cup {NoI64}
ConflictType == {NoConflict} \cup [kind: CounterConflicts \cup {"condition_failed"}, index: Nat]

(* The type of a receipt depends only on its observations and its          *)
(* conflict.                                                               *)
LEMMA TypedByEvidence ==
  ASSUME NEW r, TypedReceipt(r), NEW x, ReceiptRecord(x),
         x.conditions = r.conditions, x.mutations = r.mutations, x.conflict \in ConflictType
  PROVE  TypedReceipt(x)
BY DEF TypedReceipt, AppendReceipt, RequestReceipt, ReceiptType, AppendReceiptType, ConflictType

(* A typed receipt has the fields of a receipt.                            *)
LEMMA TypedHasRecord ==
  ASSUME NEW r, TypedReceipt(r)
  PROVE  ReceiptRecord(r) /\ r.conflict \in ConflictType
BY DEF TypedReceipt, AppendReceipt, RequestReceipt, ReceiptType, AppendReceiptType, ConflictType

(* An observation with other values is an observation of the same key.     *)
ClaimKept(o, p, v, w) ==
  /\ o \in Observation /\ v \in Values /\ w \in Values => p \in Observation
  /\ o \in StreamObservation /\ v \in Int /\ w \in Int => p \in StreamObservation
  /\ o \in StreamObservation => p.keyspace = o.keyspace /\ p.before = v /\ p.after = w

(* A condition with other values and another verdict.                      *)
LEMMA ObservationAltered ==
  ASSUME NEW o, NEW v, NEW w, NEW t \in {"absent", "true", "false"}, NEW p,
         p = FalseCondition(o, v, w, t)
  PROVE  ClaimKept(o, p, v, w)
<1>1. ASSUME o \in Observation, v \in Values, w \in Values PROVE p \in Observation
  BY <1>1 DEF Observation, FalseCondition
<1>2. ASSUME o \in StreamObservation, v \in Int, w \in Int PROVE p \in StreamObservation
  BY <1>2 DEF StreamObservation, FalseCondition
<1>3. ASSUME o \in StreamObservation PROVE p.keyspace = o.keyspace /\ p.before = v /\ p.after = w
  BY <1>3 DEF StreamObservation, FalseCondition
<1> QED
  BY <1>1, <1>2, <1>3 DEF ClaimKept

(* A mutation with other values and other integers.                        *)
LEMMA MutationObservationAltered ==
  ASSUME NEW o, NEW v, NEW w, NEW b \in WireI64, NEW c \in WireI64, NEW p,
         p = FalseMutation(o, v, w, b, c)
  PROVE  ClaimKept(o, p, v, w)
<1>1. ASSUME o \in Observation, v \in Values, w \in Values PROVE p \in Observation
  BY <1>1 DEF Observation, FalseMutation, WireI64
<1>2. ASSUME o \in StreamObservation, v \in Int, w \in Int PROVE p \in StreamObservation
  BY <1>2 DEF StreamObservation, FalseMutation, WireI64
<1>3. ASSUME o \in StreamObservation PROVE p.keyspace = o.keyspace /\ p.before = v /\ p.after = w
  BY <1>3 DEF StreamObservation, FalseMutation, WireI64
<1> QED
  BY <1>1, <1>2, <1>3 DEF ClaimKept

(* What a false observation claims is a value of its keyspace.             *)
LEMMA ClaimsTyped ==
  ASSUME NEW o, NEW v \in ClaimedValues(o)
  PROVE  /\ v \in Int
         /\ ~IsAppend(sent) => v \in Values
         /\ o.keyspace # InternalKeyspace => v \in Values
<1>1. Values \subseteq Int
  BY HalfAssumption
<1> QED
  BY <1>1, ClaimsAssumption DEF ClaimedValues

(* The integers it claims are ones an observation can report, or absent.   *)
LEMMA ClaimedI64Typed ==
  ASSUME NEW o, NEW n \in ClaimedI64(o)
  PROVE  n[1] \in WireI64 /\ n[2] \in WireI64
BY HalfAssumption DEF ClaimedI64, I64Pairs, WireI64

(* A false condition leaves a receipt well typed.                          *)
LEMMA ConditionTyped ==
  ASSUME NEW r, TypedReceipt(r), NEW i \in DOMAIN r.conditions, NEW t \in {"true", "false"},
         NEW v \in ClaimedValues(r.conditions[i]), NEW w \in ClaimedValues(r.conditions[i]), NEW x,
         x = WithCondition(r, i, v, w, t)
  PROVE  TypedReceipt(x)
<1>1. PICK o : o = r.conditions[i]
  OBVIOUS
<1>2. PICK p : p = FalseCondition(o, v, w, t)
  OBVIOUS
<1>3. PICK S : /\ r.conditions \in Seq(S)
               /\ S = IF IsAppend(sent) THEN StreamObservation ELSE Observation
  BY DEF TypedReceipt, AppendReceipt, RequestReceipt, ReceiptType, AppendReceiptType
<1>4. o \in S
  BY <1>1, <1>3
<1>5. /\ v \in Int /\ w \in Int
      /\ ~IsAppend(sent) => v \in Values /\ w \in Values
  BY ClaimsTyped
<1>6. p \in S
  <2>1. t \in {"absent", "true", "false"}
    OBVIOUS
  <2>2. ClaimKept(o, p, v, w)
    BY <1>2, <2>1, ObservationAltered
  <2>3. CASE IsAppend(sent)
    BY <1>3, <1>4, <1>5, <2>2, <2>3 DEF ClaimKept
  <2>4. CASE ~IsAppend(sent)
    BY <1>3, <1>4, <1>5, <2>2, <2>4 DEF ClaimKept
  <2> QED
    BY <2>3, <2>4
<1>7. ReceiptRecord(r)
  BY TypedHasRecord
<1>8. /\ ReceiptRecord(x) /\ x.mutations = r.mutations /\ x.conflict = r.conflict
      /\ x.conditions = [r.conditions EXCEPT ![i] = FalseCondition(r.conditions[i], v, w, t)]
  BY <1>3, <1>7, ConditionAltered
<1>9. x.conditions = [r.conditions EXCEPT ![i] = p]
  BY <1>1, <1>2, <1>8
<1>10. x.conditions \in Seq(S)
  BY <1>3, <1>6, <1>9, ListAltered
<1>11. CASE IsAppend(sent)
  BY <1>3, <1>8, <1>10, <1>11 DEF TypedReceipt, AppendReceipt, AppendReceiptType
<1>12. CASE ~IsAppend(sent)
  BY <1>3, <1>8, <1>10, <1>12 DEF TypedReceipt, RequestReceipt, ReceiptType
<1> QED
  BY <1>11, <1>12

(* So does a false mutation.                                               *)
LEMMA MutationTyped ==
  ASSUME NEW r, TypedReceipt(r), NEW i \in DOMAIN r.mutations,
         NEW v \in ClaimedValues(r.mutations[i]), NEW w \in ClaimedValues(r.mutations[i]),
         NEW b \in WireI64, NEW c \in WireI64, NEW x,
         x = WithMutation(r, i, v, w, b, c)
  PROVE  TypedReceipt(x)
<1>1. PICK o : o = r.mutations[i]
  OBVIOUS
<1>2. PICK p : p = FalseMutation(o, v, w, b, c)
  OBVIOUS
<1>3. PICK S : /\ r.mutations \in Seq(S)
               /\ S = IF IsAppend(sent) THEN StreamObservation ELSE Observation
  BY DEF TypedReceipt, AppendReceipt, RequestReceipt, ReceiptType, AppendReceiptType
<1>4. o \in S
  BY <1>1, <1>3
<1>5. /\ v \in Int /\ w \in Int
      /\ ~IsAppend(sent) => v \in Values /\ w \in Values
      /\ o.keyspace # InternalKeyspace => v \in Values /\ w \in Values
  BY <1>1, ClaimsTyped
<1>6. /\ p \in S
      /\ IsAppend(sent) => p.keyspace = o.keyspace /\ p.before = v /\ p.after = w
  <2>0. ClaimKept(o, p, v, w)
    BY <1>2, MutationObservationAltered
  <2>1. CASE IsAppend(sent)
    BY <1>3, <1>4, <1>5, <2>0, <2>1 DEF ClaimKept
  <2>2. CASE ~IsAppend(sent)
    BY <1>3, <1>4, <1>5, <2>0, <2>2 DEF ClaimKept
  <2> QED
    BY <2>1, <2>2
<1>7. ReceiptRecord(r)
  BY TypedHasRecord
<1>8. /\ ReceiptRecord(x) /\ x.conditions = r.conditions /\ x.conflict = r.conflict
      /\ x.mutations = [r.mutations EXCEPT ![i] = FalseMutation(r.mutations[i], v, w, b, c)]
  BY <1>3, <1>7, MutationAltered
<1>9. x.mutations = [r.mutations EXCEPT ![i] = p]
  BY <1>1, <1>2, <1>8
<1>10. /\ x.mutations \in Seq(S) /\ DOMAIN x.mutations = DOMAIN r.mutations /\ x.mutations[i] = p
       /\ \A j \in DOMAIN r.mutations : j # i => x.mutations[j] = r.mutations[j]
  BY <1>3, <1>6, <1>9, ListAltered
<1>11. CASE IsAppend(sent)
  <2>1. AppendReceiptType(r)
    BY <1>11 DEF TypedReceipt, AppendReceipt
  <2>2. ASSUME NEW j \in DOMAIN x.mutations, x.mutations[j].keyspace # InternalKeyspace
        PROVE  x.mutations[j].before \in Values /\ x.mutations[j].after \in Values
    <3>1. CASE j = i
      BY <1>5, <1>6, <1>10, <1>11, <2>2, <3>1
    <3>2. CASE j # i
      BY <1>10, <2>1, <2>2, <3>2 DEF AppendReceiptType
    <3> QED
      BY <3>1, <3>2
  <2>3. AppendReceiptType(x)
    BY <1>3, <1>8, <1>10, <1>11, <2>1, <2>2 DEF AppendReceiptType
  <2> QED
    BY <1>8, <1>11, <2>3 DEF TypedReceipt, AppendReceipt
<1>12. CASE ~IsAppend(sent)
  BY <1>3, <1>8, <1>10, <1>12 DEF TypedReceipt, RequestReceipt, ReceiptType
<1> QED
  BY <1>11, <1>12

(* A receipt that differs in one scalar field.                             *)
LEMMA ScalarTyped ==
  ASSUME NEW r, TypedReceipt(r), NEW a, NEW c \in ConflictType, NEW x,
         \/ x = [r EXCEPT !.outcome = a, !.conflict = c]
         \/ x = [r EXCEPT !.outcome = a]
         \/ x = [r EXCEPT !.requestID = a]
  PROVE  TypedReceipt(x)
<1>1. ReceiptRecord(r) /\ r.conflict \in ConflictType
  BY TypedHasRecord
<1>2. DOMAIN r = {"form", "requestID", "commandSHA", "revision", "outcome", "conflict", "conditions",
                  "mutations", "sealed"}
  BY <1>1 DEF ReceiptRecord
<1>3. DOMAIN x = DOMAIN r /\ x = [y \in DOMAIN x |-> x[y]]
  OBVIOUS
<1>4. x.conditions = r.conditions /\ x.mutations = r.mutations /\ x.conflict \in ConflictType
  BY <1>1, <1>2
<1>5. ReceiptRecord(x)
  BY <1>2, <1>3 DEF ReceiptRecord
<1> QED
  BY <1>4, <1>5, TypedByEvidence

(* An answer with a well typed receipt, or to an append with none, is well *)
(* typed.                                                                  *)
LEMMA AnswerTyped ==
  ASSUME UNCHANGED sent, AnswerRecord(answer'),
         TypedReceipt(answer'.receipt) \/ (IsAppend(sent) /\ answer'.receipt = NoReceipt)
  PROVE  TypedInv'
<1>1. AnswerRecord(answer)'
  BY DEF AnswerRecord
<1>2. /\ ~IsAppend(sent) => RequestReceipt(answer'.receipt)
      /\ IsAppend(sent) => answer'.receipt = NoReceipt \/ AppendReceipt(answer'.receipt)
  BY DEF TypedReceipt
<1>3. /\ (~IsAppend(sent) => RequestReceipt(answer.receipt))'
      /\ (IsAppend(sent) => answer.receipt = NoReceipt \/ AppendReceipt(answer.receipt))'
  BY <1>2 DEF IsAppend, RequestReceipt, AppendReceipt, ReceiptRecord, ReceiptType, AppendReceiptType, NoReceipt
<1> QED
  BY <1>1, <1>3 DEF TypedInv

(* A resealed receipt makes a well typed answer.                           *)
LEMMA ResealTyped ==
  ASSUME UNCHANGED sent, NEW r, TypedReceipt(r), answer' = Reseal(r)
  PROVE  TypedInv'
<1>1. Carries(answer', sent, r, answer.duplicate, FALSE)
  BY ResultCarries DEF Reseal
<1>2. AnswerRecord(answer') /\ answer'.receipt = r
  BY <1>1 DEF Carries
<1> QED
  BY <1>2, AnswerTyped

(* Each way of altering an answer leaves it well typed.                    *)
LEMMA AlterTyped ==
  ASSUME DecodingInv, Next
  PROVE  TypedInv'
<1>0. Altered
  BY DEF Next, AlterCondition, AlterMutation, AlterOutcome, AlterOuter, AlterStreamReceipt, ReportUndecided
<1>1. PICK r : r = answer.receipt
  OBVIOUS
<1>2. UNCHANGED sent /\ genuine /\ r # NoReceipt
  BY <1>0, <1>1 DEF Altered, DecodingInv
<1>3. TypedReceipt(r) /\ AnswerRecord(answer)
  BY <1>1, <1>2 DEF DecodingInv, TypedInv, TypedReceipt
<1>4. DOMAIN answer = {"result", "original", "applied", "duplicate", "revision", "receipt", "streamReceipt", "quorum"}
  BY <1>3 DEF AnswerRecord
<1>5. ASSUME AlterCondition PROVE TypedInv'
  <2>1. PICK i \in DOMAIN answer.receipt.conditions, t \in {"true", "false"} :
          \E v, w \in ClaimedValues(answer.receipt.conditions[i]) :
            answer' = Reseal([answer.receipt EXCEPT !.conditions[i].before = v, !.conditions[i].after = w,
                                                    !.conditions[i].matched = t])
    BY <1>5 DEF AlterCondition
  <2>2. PICK v, w \in ClaimedValues(r.conditions[i]) : answer' = Reseal(WithCondition(r, i, v, w, t))
    BY <1>1, <2>1 DEF WithCondition
  <2>a. i \in DOMAIN r.conditions
    BY <1>1
  <2>3. TypedReceipt(WithCondition(r, i, v, w, t))
    BY <1>3, <2>a, ConditionTyped
  <2> QED
    BY <1>2, <2>2, <2>3, ResealTyped
<1>6. ASSUME AlterMutation PROVE TypedInv'
  <2>1. PICK i \in DOMAIN answer.receipt.mutations :
          \E v, w \in ClaimedValues(answer.receipt.mutations[i]), n \in ClaimedI64(answer.receipt.mutations[i]) :
            answer' = Reseal([answer.receipt EXCEPT !.mutations[i].before = v, !.mutations[i].after = w,
                                                    !.mutations[i].beforeI64 = n[1], !.mutations[i].afterI64 = n[2]])
    BY <1>6 DEF AlterMutation
  <2>2. PICK v, w \in ClaimedValues(answer.receipt.mutations[i]), n \in ClaimedI64(answer.receipt.mutations[i]) :
          answer' = Reseal([answer.receipt EXCEPT !.mutations[i].before = v, !.mutations[i].after = w,
                                                  !.mutations[i].beforeI64 = n[1], !.mutations[i].afterI64 = n[2]])
    BY <2>1
  <2>b. answer' = Reseal(WithMutation(r, i, v, w, n[1], n[2]))
    BY <1>1, <2>2 DEF WithMutation
  <2>a. i \in DOMAIN r.mutations /\ v \in ClaimedValues(r.mutations[i]) /\ w \in ClaimedValues(r.mutations[i])
    BY <1>1
  <2>3. n[1] \in WireI64 /\ n[2] \in WireI64
    BY ClaimedI64Typed
  <2>4. TypedReceipt(WithMutation(r, i, v, w, n[1], n[2]))
    BY <1>3, <2>3, <2>a, MutationTyped
  <2> QED
    BY <1>2, <2>b, <2>4, ResealTyped
<1>7. ASSUME AlterOutcome PROVE TypedInv'
  <2>1. PICK o \in {"applied", "conflict"},
             c \in {NoConflict} \cup [kind: CounterConflicts \cup {"condition_failed"}, index: Positions] :
          answer' = Reseal([r EXCEPT !.outcome = o, !.conflict = c])
    BY <1>1, <1>7 DEF AlterOutcome
  <2>2. c \in ConflictType
    BY ClaimsAssumption DEF ConflictType
  <2>3. PICK x : x = [r EXCEPT !.outcome = o, !.conflict = c]
    OBVIOUS
  <2>4. TypedReceipt(x)
    BY <1>3, <2>2, <2>3, ScalarTyped
  <2> QED
    BY <1>2, <2>1, <2>3, <2>4, ResealTyped
<1>8. ASSUME AlterOuter PROVE TypedInv'
  <2>1. ASSUME NEW a \in {"applied", "conflict", "duplicate"}, NEW o \in {"applied", "conflict"},
               NEW t \in BOOLEAN, NEW d \in BOOLEAN,
               answer' = [answer EXCEPT !.result = a, !.original = o, !.applied = t, !.duplicate = d]
        PROVE  TypedInv'
    <3>1. AnswerRecord(answer') /\ answer'.receipt = r
      BY <1>1, <1>4, <2>1 DEF AnswerRecord
    <3> QED
      BY <1>2, <1>3, <3>1, AnswerTyped
  <2>2. ASSUME answer' = [answer EXCEPT !.revision = @ + 1] PROVE TypedInv'
    <3>1. AnswerRecord(answer') /\ answer'.receipt = r
      BY <1>1, <1>4, <2>2 DEF AnswerRecord
    <3> QED
      BY <1>2, <1>3, <3>1, AnswerTyped
  <2>3. ASSUME NEW x, TypedReceipt(x), answer' = [answer EXCEPT !.receipt = x] PROVE TypedInv'
    <3>1. AnswerRecord(answer') /\ answer'.receipt = x
      BY <1>4, <2>3 DEF AnswerRecord
    <3> QED
      BY <1>2, <2>3, <3>1, AnswerTyped
  <2>4. ASSUME NEW id \in RequestIDs, answer' = [answer EXCEPT !.receipt.requestID = id] PROVE TypedInv'
    <3>1. PICK x : x = [r EXCEPT !.requestID = id]
      OBVIOUS
    <3>2. answer' = [answer EXCEPT !.receipt = x]
      BY <1>1, <1>4, <2>4, <3>1
    <3>3. TypedReceipt(x)
      BY <1>3, <3>1, ScalarTyped, TypedHasRecord
    <3> QED
      BY <2>3, <3>2, <3>3
  <2>5. ASSUME answer' = [answer EXCEPT !.receipt.outcome = "applied"] PROVE TypedInv'
    <3>1. PICK x : x = [r EXCEPT !.outcome = "applied"]
      OBVIOUS
    <3>2. answer' = [answer EXCEPT !.receipt = x]
      BY <1>1, <1>4, <2>5, <3>1
    <3>3. TypedReceipt(x)
      BY <1>3, <3>1, ScalarTyped, TypedHasRecord
    <3> QED
      BY <2>3, <3>2, <3>3
  <2>6. ASSUME NEW s \in {"accepted", "committed"}, NEW u \in {"local_fsync", "quorum_fsync"},
               answer' = [answer EXCEPT !.quorum.stage = s, !.quorum.durability = u]
        PROVE  TypedInv'
    <3>1. AnswerRecord(answer') /\ answer'.receipt = r
      BY <1>1, <1>4, <2>6 DEF AnswerRecord
    <3> QED
      BY <1>2, <1>3, <3>1, AnswerTyped
  <2> QED
    BY <1>8, <2>1, <2>2, <2>4, <2>5, <2>6 DEF AlterOuter
<1>9. ASSUME AlterStreamReceipt PROVE TypedInv'
  <2>1. PICK a : answer' = [answer EXCEPT !.streamReceipt = a]
    BY <1>9 DEF AlterStreamReceipt
  <2>2. AnswerRecord(answer') /\ answer'.receipt = r
    BY <1>1, <1>4, <2>1 DEF AnswerRecord
  <2> QED
    BY <1>2, <1>3, <2>2, AnswerTyped
<1>10. ASSUME ReportUndecided PROVE TypedInv'
  <2>1. PICK s \in {"accepted", "committed", "applied"}, u \in {"local_fsync", "quorum_fsync"},
             h \in {NoReceipt, answer.receipt}, t \in {NoStreamReceipt, answer.streamReceipt} :
          answer' = [answer EXCEPT !.receipt = NoReceipt, !.revision = 0, !.streamReceipt = t,
                                   !.quorum.stage = s, !.quorum.durability = u, !.quorum.resultSHA = h]
    BY <1>10 DEF ReportUndecided
  <2>2. AnswerRecord(answer') /\ answer'.receipt = NoReceipt
    BY <1>4, <2>1 DEF AnswerRecord
  <2>3. IsAppend(sent)
    BY <1>10 DEF ReportUndecided
  <2> QED
    BY <1>2, <2>2, <2>3, AnswerTyped
<1> QED
  BY <1>5, <1>6, <1>7, <1>8, <1>9, <1>10 DEF Next

(* The invariant is inductive: an altered answer stays typed and is no     *)
(* longer genuine.                                                         *)
LEMMA DecodingInvStep == DecodingInv /\ [Next]_vars => DecodingInv'
<1>1. ASSUME DecodingInv, Next PROVE DecodingInv'
  <2>1. TypedInv'
    BY <1>1, AlterTyped
  <2>2. genuine' = FALSE /\ UNCHANGED sent
    BY <1>1 DEF Next, AlterCondition, AlterMutation, AlterOutcome, AlterOuter, AlterStreamReceipt,
                ReportUndecided, Altered
  <2>3. KindInv'
    BY <1>1, <2>2 DEF DecodingInv, KindInv, IsAppend, RequestType, AppendType, WellFormed
  <2> QED
    BY <2>1, <2>2, <2>3 DEF DecodingInv, GenuineAccepted
<1>2. ASSUME DecodingInv, UNCHANGED vars PROVE DecodingInv'
  <2>1. sent' = sent /\ answer' = answer /\ genuine' = genuine
    BY <1>2 DEF vars
  <2> QED
    BY <1>2, <2>1 DEF DecodingInv, KindInv, TypedInv, GenuineAccepted, Accepted, Found, LookupOf
<1> QED
  BY <1>1, <1>2

(* An accepted answer to a request is justified.                           *)
LEMMA TypedAnswerJustified == DecodingInv => AcceptedIsJustified
<1> SUFFICES ASSUME DecodingInv, ~IsAppend(sent), Accepted
             PROVE  /\ Justified(answer.receipt, sent)
                    /\ answer.applied = (answer.receipt.outcome = "applied")
                    /\ answer.quorum # NoQuorum =>
                         answer.quorum.stage = "applied" /\ answer.quorum.resultSHA = answer.receipt
  BY DEF AcceptedIsJustified
<1>1. PICK r : r = answer.receipt
  OBVIOUS
<1>2. RequestType(sent) /\ ReceiptType(r)
  BY <1>1 DEF DecodingInv, KindInv, TypedInv, RequestReceipt
<1>3. decodeConditionalTransactionResult(answer, sent)
  BY DEF Accepted
<1>4. /\ r # NoReceipt /\ decodeConditionalReceipt(r, sent.id) /\ validateReceiptAgainstRequest(r, sent)
      /\ decodeOptionalQuorumReceipt(answer.quorum, sent.id, conditionalCommandSHA(sent), r)
  BY <1>1, <1>3 DEF decodeConditionalTransactionResult, ReceiptAnswers
<1>5. Justified(r, sent)
  BY <1>2, <1>4, AcceptedReceiptJustified
<1>6. answer.applied = (answer.receipt.outcome = "applied")
  BY <1>3, Zenon DEF decodeConditionalTransactionResult
<1>7. answer.quorum # NoQuorum => answer.quorum.stage = "applied" /\ answer.quorum.resultSHA = r
  BY <1>4 DEF decodeOptionalQuorumReceipt
<1> QED
  BY <1>1, <1>5, <1>6, <1>7

(* An accepted answer to an append, executed or looked up, is justified.   *)
LEMMA TypedAppendAnswerJustified == DecodingInv => AcceptedAppendIsJustified
<1> SUFFICES ASSUME DecodingInv, IsAppend(sent), Accepted \/ Found
             PROVE  IF answer.receipt = NoReceipt
                    THEN answer.streamReceipt = NoStreamReceipt /\ answer.quorum.resultSHA = NoReceipt
                    ELSE /\ AppendJustified(answer.receipt, sent)
                         /\ (answer.receipt.outcome = "applied") <=> (answer.streamReceipt # NoStreamReceipt)
                         /\ answer.streamReceipt # NoStreamReceipt => answer.streamReceipt.head = sent.head
  BY DEF AcceptedAppendIsJustified
<1>1. AppendType(sent)
  BY DEF DecodingInv, KindInv
<1>2. PICK l : l = LookupOf(answer)
  OBVIOUS
<1>3. /\ l.requestID = sent.id
      /\ l.result = (IF answer.receipt = NoReceipt THEN "indeterminate" ELSE "found")
      /\ l.revision = answer.revision /\ l.receipt = answer.receipt
      /\ l.streamReceipt = answer.streamReceipt /\ l.quorum = answer.quorum
  BY <1>2, LookupFields
<1>4. \/ decodeRevisionStreamAppendResult(answer, sent)
      \/ decodeRevisionStreamAppendReceiptLookup(l, sent)
  BY <1>2 DEF Accepted, Found
<1>5. CASE answer.receipt = NoReceipt
  <2>1. l.streamReceipt = NoStreamReceipt /\ l.quorum.resultSHA = NoReceipt
    BY <1>3, <1>4, <1>5 DEF decodeRevisionStreamAppendResult, decodeRevisionStreamAppendReceiptLookup,
                            AppendReceiptAnswers
  <2> QED
    BY <1>3, <1>5, <2>1
<1>6. CASE answer.receipt # NoReceipt
  <2>1. PICK r : r = answer.receipt
    OBVIOUS
  <2>2. AppendReceiptType(r)
    BY <1>6, <2>1 DEF DecodingInv, TypedInv, AppendReceipt
  <2>3. AppendReceiptAnswers(answer, sent) \/ AppendReceiptAnswers(l, sent)
    BY <1>3, <1>4, <1>6 DEF decodeRevisionStreamAppendResult, decodeRevisionStreamAppendReceiptLookup
  <2>4. /\ decodeConditionalReceipt(r, sent.id)
        /\ validateRevisionStreamTransactionReceipt(r, sent)
        /\ IF r.outcome = "applied" THEN decodeRevisionStreamReceipt(answer.streamReceipt, sent)
                                    ELSE answer.streamReceipt = NoStreamReceipt
    BY <1>3, <2>1, <2>3 DEF AppendReceiptAnswers
  <2>5. AppendJustified(r, sent)
    BY <1>1, <2>2, <2>4, AcceptedAppendJustified
  <2>6. ASSUME NEW s, decodeRevisionStreamReceipt(s, sent) PROVE s # NoStreamReceipt /\ s.head = sent.head
    BY <2>6 DEF decodeRevisionStreamReceipt, NoStreamReceipt
  <2> QED
    BY <1>6, <2>1, <2>4, <2>5, <2>6
<1> QED
  BY <1>5, <1>6

-----------------------------------------------------------------------------
(* The invariant holds of every answer.                                    *)
LEMMA DecodingInvariant == Spec => []DecodingInv
BY DecodingInvInit, DecodingInvStep, PTL DEF Spec

(* Completeness, for every request and append, every content of the store  *)
(* and every counter width: while nothing of an answer is altered,         *)
(* decodeConditionalTransactionResult (conditional.go 632-663) or          *)
(* decodeRevisionStreamAppendResult (revision_stream.go 774-818) accepts   *)
(* it, and so does the lookup of the same receipt.                         *)
THEOREM GenuineAlwaysAccepted == Spec => []GenuineAccepted
<1>1. DecodingInv => GenuineAccepted
  BY DEF DecodingInv
<1> QED
  BY <1>1, DecodingInvariant, PTL

(* Soundness of the whole answer to a conditional request: whatever of it  *)
(* was altered and resealed, an accepted one has a receipt whose evidence  *)
(* leads to its outcome, outer fields that repeat it and, if it comes with *)
(* a quorum's evidence, evidence for that very receipt.                    *)
THEOREM AcceptedAlwaysJustified == Spec => []AcceptedIsJustified
BY TypedAnswerJustified, DecodingInvariant, PTL

(* Soundness of the whole answer to an append, executed or looked up: an   *)
(* accepted one proves the side effects and the stream's step together,    *)
(* with a stream receipt for the sealed head exactly when it was applied,  *)
(* or has no receipt and then claims nothing.                              *)
THEOREM AcceptedAppendAlwaysJustified == Spec => []AcceptedAppendIsJustified
BY TypedAppendAnswerJustified, DecodingInvariant, PTL
=============================================================================
