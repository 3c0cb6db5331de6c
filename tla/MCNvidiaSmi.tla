----------------------------- MODULE MCNvidiaSmi -----------------------------
(***************************************************************************)
(* Two devices, two processes, no attempt or two; one or two sub-checks at a *)
(* time, of all of them.                                                    *)
(***************************************************************************)
EXTENDS NvidiaSmi, TLC

CONSTANTS p1, p2

\* Processes are told apart by nothing but their names.
Symmetry == Permutations({p1, p2})
=============================================================================
