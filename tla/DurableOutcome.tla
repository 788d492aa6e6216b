---------------------------- MODULE DurableOutcome ----------------------------
(***************************************************************************)
(* What the conditional transaction API promises, without attempts,        *)
(* messages or receipts: an idempotency key is bound once, to one command  *)
(* and one outcome, and a caller learns the outcome of its own command or  *)
(* nothing.                                                                *)
(***************************************************************************)
CONSTANTS Callers,     \* holders of a sealed request
          IDs,         \* idempotency keys
          IDOf,        \* IDOf[c] is the key of c's request
          CommandOf    \* CommandOf[c] is the command c's request seals

VARIABLES bound,       \* bound[id] = <<command, outcome>>, or <<>> while undecided
          learned      \* learned[c]: the outcome c was told, "unknown" before

vars == <<bound, learned>>

Init ==
  /\ bound = [id \in IDs |-> <<>>]
  /\ learned = [c \in Callers |-> "unknown"]

Bind(c) ==
  /\ bound[IDOf[c]] = <<>>
  /\ \E outcome \in {"applied", "conflict"} :
       bound' = [bound EXCEPT ![IDOf[c]] = <<CommandOf[c], outcome>>]
  /\ UNCHANGED learned

Learn(c) ==
  /\ learned[c] = "unknown"
  /\ \E outcome \in {"applied", "conflict"} :
       /\ bound[IDOf[c]] = <<CommandOf[c], outcome>>
       /\ learned' = [learned EXCEPT ![c] = outcome]
  /\ UNCHANGED bound

Next == \E c \in Callers : Bind(c) \/ Learn(c)

Spec == Init /\ [][Next]_vars
=============================================================================
