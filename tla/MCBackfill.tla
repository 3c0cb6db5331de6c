----------------------------- MODULE MCBackfill -----------------------------
(* Small instances of one round of a backfill. *)
EXTENDS Backfill
TwoRows == {[lo |-> 0, hi |-> 1], [lo |-> 1, hi |-> 2]}
=============================================================================
