--------------------------- MODULE MCRevisionStream ---------------------------
(***************************************************************************)
(* Revisions of three bits: the stream grows to revision 7, the last one.  *)
(***************************************************************************)
EXTENDS RevisionStream
=============================================================================
