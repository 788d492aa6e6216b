------------------------- MODULE MCRevisionStreamQuery -------------------------
(***************************************************************************)
(* Events at times 1 and 3; the windows lie around, between and on them.   *)
(***************************************************************************)
EXTENDS RevisionStreamQuery

TimeWindows == {w \in (1 .. 2) \X (2 .. 4) : w[1] < w[2] /\ w # <<1, 3>>}
=============================================================================
