-------------------------- MODULE MCDataCollection --------------------------
(* Small instances of the collection loop. *)
EXTENDS DataCollection
=============================================================================
