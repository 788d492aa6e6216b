-------------------------- MODULE MCConditionalReads --------------------------
(* Four keys, the scanned prefix on the last three, pages of two entries.  *)
EXTENDS ConditionalReads

MCHasPrefix(k, p) == p = "tail" /\ k > 1
=============================================================================
