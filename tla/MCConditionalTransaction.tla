----------------------- MODULE MCConditionalTransaction -----------------------
(***************************************************************************)
(* c1 holds a sealed request; c2 reuses its request ID for a command that  *)
(* the same observations satisfy as well.  The counter starts absent (the  *)
(* first command to run applies) or present (it is a conflict).            *)
(***************************************************************************)
EXTENDS ConditionalTransaction

CONSTANTS c1, c2, k, ns, id1

Increment(operator) ==
  [id |-> id1, namespace |-> ns,
   conditions |-> <<[key |-> k, expected |-> Nil, operator |-> operator]>>,
   mutations |-> <<[kind |-> "increment", key |-> k, value |-> Nil, delta |-> 1]>>]

Requests == [c \in Callers |-> Increment(IF c = c1 THEN "eq" ELSE "le")]

Stores == {[n \in Namespaces |-> [key \in Keys |-> v]] : v \in {Nil, Half - 1}}

Both == {"single", "quorum"}
=============================================================================
