----------------------------- MODULE Rendezvous -----------------------------
(***************************************************************************)
(* Backfills of several clusters in lockstep: _publish_chunk of            *)
(* gcm/monitoring/cli/sacct_backfill.py and the barriers of                *)
(* gcm/monitoring/cli/sacct_backfill_server.py.                            *)
(*                                                                         *)
(* The server keeps one barrier for each pair of dates it is asked for,    *)
(* for ever.  A client waits at the barrier of a chunk before it publishes *)
(* the chunk and again after.  A wait that times out breaks the barrier:   *)
(* everybody waiting there, and everybody who comes later, gets an         *)
(* exception.  A client whose chunks are published one after the other     *)
(* dies of it, the threads of a pool only lose the chunk.                  *)
(*                                                                         *)
(* Clients compute the dates of their chunks from their own clock: base is *)
(* the second at which the client evaluated --start and --end.             *)
(***************************************************************************)
EXTENDS Integers, FiniteSets

CONSTANTS
  Procs,     \* the clients
  Parties,   \* the server's --nprocs, their number
  NChunks,   \* chunks of a backfill
  Window,    \* Window[p]: chunks client p has in progress, 1 when serial
  Bases      \* seconds at which a client may have been started

ASSUME RendezvousAssumption ==
  /\ IsFiniteSet(Procs)
  /\ Parties \in Nat \ {0}
  /\ NChunks \in Nat
  /\ Window \in [Procs -> Nat \ {0}]

Chunks == 1..NChunks
Keys == Bases \X Chunks

VARIABLES
  base,     \* what the clock said when client p was started
  luck,     \* "good": timeouts outlast all but a deadlock and no publish raises
  phase,    \* phase[p][c]: how far client p is with chunk c
  alive,    \* clients that have not died of an exception
  barrier,  \* barrier[k]: filling, draining or broken
  inside    \* inside[k]: clients in wait() of that barrier

given == <<base, luck>>
rvVars == <<given, phase, alive, barrier, inside>>

\* "start" and "end" are the two waits; "lost" ended in BrokenBarrierError
\* before the chunk was published, "torn" after.
RvPhases == {"todo", "start", "publishing", "end", "done", "lost", "torn"}

RvTypeOK ==
  /\ base \in [Procs -> Bases]
  /\ luck \in {"good", "any"}
  /\ phase \in [Procs -> [Chunks -> RvPhases]]
  /\ alive \subseteq Procs
  /\ barrier \in [Keys -> {"filling", "draining", "broken"}]
  /\ inside \in [Keys -> SUBSET Procs]

RvInit ==
  /\ base \in [Procs -> Bases]
  /\ luck \in {"good", "any"}
  /\ phase = [p \in Procs |-> [c \in Chunks |-> "todo"]]
  /\ alive = Procs
  /\ barrier = [k \in Keys |-> "filling"]
  /\ inside = [k \in Keys |-> {}]

Key(p, c) == <<base[p], c>>

Waiting(p, c) == p \in inside[Key(p, c)]

-----------------------------------------------------------------------------
(***************************************************************************)
(* threading.Barrier: the last to come opens it, and it closes again when  *)
(* the last has left; until then newcomers stay outside.                   *)
(***************************************************************************)

\* Mutant of Enter: a client that comes while the barrier drains is counted.
EnterDraining(p, c) ==
  /\ barrier[Key(p, c)] # "broken"
  /\ inside' = [inside EXCEPT ![Key(p, c)] = @ \cup {p}]
  /\ barrier' = [barrier EXCEPT ![Key(p, c)] =
                   IF Cardinality(inside[Key(p, c)] \cup {p}) = Parties THEN "draining" ELSE @]

Enter(p, c) ==
  /\ barrier[Key(p, c)] = "filling"
  /\ inside' = [inside EXCEPT ![Key(p, c)] = @ \cup {p}]
  /\ barrier' = [barrier EXCEPT ![Key(p, c)] =
                   IF Cardinality(inside[Key(p, c)] \cup {p}) = Parties THEN "draining" ELSE @]

Leave(p, c) ==
  /\ Waiting(p, c)
  /\ barrier[Key(p, c)] = "draining"
  /\ inside' = [inside EXCEPT ![Key(p, c)] = @ \ {p}]
  /\ barrier' = [barrier EXCEPT ![Key(p, c)] = IF inside[Key(p, c)] = {p} THEN "filling" ELSE @]

InProgress(p) == {c \in Chunks : phase[p][c] \in {"start", "publishing", "end"}}

\* A chunk is taken up in order when the client has a thread for it; the
\* serial loop is a pool of one.
Ready(p, c) ==
  /\ phase[p][c] = "todo"
  /\ \A d \in 1..(c - 1) : phase[p][d] # "todo"
  /\ Cardinality(InProgress(p)) < Window[p]

\* Everybody is waiting for somebody who cannot come.
Stuck ==
  \A p \in alive : \A c \in Chunks :
    /\ ~Ready(p, c) /\ phase[p][c] # "publishing"
    /\ phase[p][c] \in {"start", "end"} => Waiting(p, c) /\ barrier[Key(p, c)] = "filling"

\* Mutant of Breaks: a timeout breaks the barrier for the one who timed out only.
BreaksOnce(p, c) ==
  /\ Waiting(p, c) /\ barrier[Key(p, c)] = "filling" /\ (luck = "good" => Stuck)
  /\ barrier' = [barrier EXCEPT ![Key(p, c)] = "broken"]
  /\ inside' = [inside EXCEPT ![Key(p, c)] = @ \ {p}]

\* The wait times out, or finds the barrier broken when it comes or while it
\* waits.
Breaks(p, c) ==
  /\ \/ barrier[Key(p, c)] = "broken"
     \/ Waiting(p, c) /\ barrier[Key(p, c)] = "filling" /\ (luck = "good" => Stuck)
  /\ barrier' = [barrier EXCEPT ![Key(p, c)] = "broken"]
  /\ inside' = [inside EXCEPT ![Key(p, c)] = @ \ {p}]

-----------------------------------------------------------------------------
(***************************************************************************)
(* _publish_chunk in each client.                                          *)
(***************************************************************************)
MoveTo(p, c, ph) == phase' = [phase EXCEPT ![p][c] = ph]

Take(p, c) ==
  /\ p \in alive
  /\ Ready(p, c)
  /\ MoveTo(p, c, "start")
  /\ UNCHANGED <<given, alive, barrier, inside>>

\* b.wait is called, before publish_chunk and in the finally after it.
Arrive(p, c) ==
  /\ p \in alive
  /\ phase[p][c] \in {"start", "end"} /\ ~Waiting(p, c)
  /\ Enter(p, c)
  /\ UNCHANGED <<given, phase, alive>>

\* Mutant of Begin: the chunk is published as soon as the barrier has been asked.
BeginUnsynchronized(p, c) ==
  /\ p \in alive
  /\ phase[p][c] = "start" /\ Waiting(p, c)
  /\ inside' = [inside EXCEPT ![Key(p, c)] = @ \ {p}]
  /\ MoveTo(p, c, "publishing")
  /\ UNCHANGED <<given, alive, barrier>>

Begin(p, c) ==
  /\ p \in alive
  /\ phase[p][c] = "start"
  /\ Leave(p, c)
  /\ MoveTo(p, c, "publishing")
  /\ UNCHANGED <<given, alive>>

\* publish_chunk returned or raised.
Published(p, c) ==
  /\ p \in alive
  /\ phase[p][c] = "publishing"
  /\ MoveTo(p, c, "end")
  /\ UNCHANGED <<given, alive, barrier, inside>>

\* The wait in the finally is over: an exception of publish_chunk now goes on
\* and ends a serial client.
Finish(p, c) ==
  /\ p \in alive
  /\ phase[p][c] = "end"
  /\ Leave(p, c)
  /\ MoveTo(p, c, "done")
  /\ \/ UNCHANGED alive
     \/ luck = "any" /\ Window[p] = 1 /\ alive' = alive \ {p}
  /\ UNCHANGED given

\* BrokenBarrierError: the serial client dies, the pool goes on.
Fail(p, c) ==
  /\ p \in alive
  /\ \/ phase[p][c] = "start" /\ MoveTo(p, c, "lost")
     \/ phase[p][c] = "end" /\ MoveTo(p, c, "torn")
  /\ Breaks(p, c)
  /\ alive' = IF Window[p] = 1 THEN alive \ {p} ELSE alive
  /\ UNCHANGED given

ClientStep(p) ==
  \E c \in Chunks :
    Take(p, c) \/ Arrive(p, c) \/ Begin(p, c) \/ Published(p, c) \/ Finish(p, c) \/ Fail(p, c)

AllOver ==
  /\ \A p \in alive : \A c \in Chunks : phase[p][c] \in {"done", "lost", "torn"}
  /\ UNCHANGED rvVars

RvNext == (\E p \in Procs : ClientStep(p)) \/ AllOver

\* Every client runs, and waits time out.
RvSpec == RvInit /\ [][RvNext]_rvVars /\ \A p \in Procs : WF_rvVars(ClientStep(p))

-----------------------------------------------------------------------------
\* "In order to prevent H1 from getting ahead of H2": while a client publishes
\* a chunk, every other client has come to that chunk too, and has at most lost
\* it at the wait after its own publish.
Lockstep ==
  \A p, q \in Procs : \A c \in Chunks :
    phase[p][c] = "publishing" => phase[q][c] \in {"start", "publishing", "end", "torn"}

\* The other direction: a client is done with a chunk only when everybody has
\* published it.
DoneTogether ==
  \A p, q \in Procs : \A c \in Chunks :
    phase[p][c] = "done" => phase[q][c] \in {"end", "done", "torn"}

\* The clients go through a chunk in step, from the wait before it to the wait
\* after it, whatever times out (_publish_chunk).
InStep == Lockstep /\ DoneTogether

\* No client waits for ever: each takes every chunk to an end or dies.
ClientsEnd ==
  \A p \in Procs :
    <>(p \notin alive \/ \A c \in Chunks : phase[p][c] \in {"done", "lost", "torn"})

\* Clients that ask for the same dates never break a barrier, unless a timeout
\* is too short for the slowest of them or a publish raises.
SameDatesMeet ==
  luck = "good" /\ (\A p, q \in Procs : base[p] = base[q]) => \A k \in Keys : barrier[k] # "broken"
=============================================================================
