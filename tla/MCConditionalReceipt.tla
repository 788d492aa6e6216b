------------------------ MODULE MCConditionalReceipt ------------------------
(***************************************************************************)
(* ReceiptDecoding for a family of conditional requests and of appends,    *)
(* over a family of stores.                                                *)
(***************************************************************************)
EXTENDS ReceiptDecoding

CONSTANTS a, b, ns, id1, id2, st, p

MCNodeKeys == <<"node1", "node2">>

Cond(k, e, op) == [key |-> k, expected |-> e, operator |-> op]
Put(k, v) == [kind |-> "put", key |-> k, value |-> v, delta |-> 0]
Del(k) == [kind |-> "delete", key |-> k, value |-> Nil, delta |-> 0]
Inc(k, d) == [kind |-> "increment", key |-> k, value |-> Nil, delta |-> d]

ConditionLists ==
  {<<>>} \cup {<<Cond(a, e, op)>> : e \in {Nil, 1}, op \in Operators}
         \cup {<<Cond(a, Short, "gt"), Cond(b, 2, "lt")>>}

MutationLists ==
  {<<m>> : m \in {Put(b, Short), Put(b, 2), Del(b)} \cup {Inc(b, d) : d \in Int64}}
    \cup {<<Inc(a, d), Inc(b, e)>> : d \in {-2, 1}, e \in {-2, 1}}

MCRequests ==
  {[id |-> id1, namespace |-> ns, conditions |-> c, mutations |-> m] :
     c \in ConditionLists, m \in MutationLists}

MCStores == [Keys -> {Nil, Short, 1, Half}]

(* Appends to an empty stream and to one with a head; an append creates    *)
(* one Merkle node, or two when it merges a peak.                          *)
MCAppends ==
  {[id |-> id1, namespace |-> ns, conditions |-> c, mutations |-> m, stream |-> st, payload |-> p,
    expectedHead |-> h, head |-> Long(1), event |-> Long(2), root |-> Long(3),
    nodes |-> IF h = Nil THEN <<Long(4)>> ELSE <<Long(4), Long(5)>>] :
     c \in {<<>>, <<Cond(a, 1, "eq")>>},
     m \in {<<>>, <<Put(a, 2)>>, <<Inc(b, 1)>>, <<Inc(b, -2)>>, <<Del(a), Inc(b, 1)>>},
     h \in {Nil, Long(0)}}

(* The stream is as expected, was moved by another writer, or kept a key   *)
(* of the new event.                                                       *)
MCAppendStores ==
  {[k \in Keys \cup InternalKeys |-> CASE k \in Keys -> side[k]
                                       [] k = "head" -> head
                                       [] k = "time" -> time
                                       [] OTHER -> Nil] :
     side \in [Keys -> {Nil, Short, 1, Half}], head \in {Nil, Long(0), Long(9)}, time \in {Nil, Long(9)}}

MCStreamValues == {Nil, Long(0), Long(1), Long(9)}
=============================================================================
