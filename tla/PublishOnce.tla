----------------------------- MODULE PublishOnce -----------------------------
(***************************************************************************)
(* What a backfill promises, without threads, queues or chunk sizes: the   *)
(* seconds of the requested range are handed to publish_one in disjoint    *)
(* pieces, never more than bound of them at a time, and the command        *)
(* returns only when every second has been handed over and its piece has   *)
(* ended.  A job is published by the piece that holds the second it ended, *)
(* so no job is published twice or left out.                               *)
(***************************************************************************)
EXTENDS Integers, FiniteSets

CONSTANT Ranges    \* the ranges of seconds that may be asked for

VARIABLES
  bound,     \* how many pieces may be in progress
  todo,      \* seconds no piece has been started for
  active,    \* pieces in progress
  done,      \* seconds whose piece has ended
  returned   \* the command is over

onceVars == <<bound, todo, active, done, returned>>

OnceInit ==
  /\ bound \in Nat \ {0}
  /\ todo \in Ranges
  /\ active = {}
  /\ done = {}
  /\ returned = FALSE

Start(piece) ==
  /\ piece # {}
  /\ Cardinality(active) < bound
  /\ todo' = todo \ piece
  /\ active' = active \cup {piece}
  /\ UNCHANGED <<bound, done, returned>>

End(piece) ==
  /\ active' = active \ {piece}
  /\ done' = done \cup piece
  /\ UNCHANGED <<bound, todo, returned>>

Return ==
  /\ todo = {}
  /\ active = {}
  /\ returned' = TRUE
  /\ UNCHANGED <<bound, todo, active, done>>

OnceNext ==
  \/ \E piece \in SUBSET todo : Start(piece)
  \/ \E piece \in active : End(piece)
  \/ Return

OnceSpec == OnceInit /\ [][OnceNext]_onceVars
=============================================================================
