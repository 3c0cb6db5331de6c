---------------------------- MODULE MCRendezvous ----------------------------
(* Clients h1, h2 and h3, two of them serial and one a pool of two. *)
EXTENDS Rendezvous
CONSTANTS h1, h2, h3
SerialAndPool == [p \in Procs |-> IF p = h1 THEN 2 ELSE 1]
=============================================================================
