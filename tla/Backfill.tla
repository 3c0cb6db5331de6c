------------------------------ MODULE Backfill ------------------------------
(***************************************************************************)
(* One round of `gcm sacct_backfill new` or `from_file`                    *)
(* (gcm/monitoring/cli/sacct_backfill.py): the intervals of a lazy         *)
(* generator are published one after the other, or by the threads of a     *)
(* pool.  In the pool a producer draws the intervals, takes a permit of a  *)
(* semaphore for each and queues it; a consumer submits what it finds in   *)
(* the queue to the same pool and adds a callback that gives the permit    *)
(* back.  publish_one is one step that begins and one that ends; its       *)
(* inside is in PublishChunk and Rendezvous.                               *)
(*                                                                         *)
(* Both queues are FIFO and have one writer, so the element at the head is *)
(* the chunk of least number in that phase.                                *)
(***************************************************************************)
EXTENDS Integers, Sequences, FiniteSets

CONSTANTS
  Commands,       \* new, from_file or both
  Concurrencies,  \* values of --concurrently: 1 serial, 0 no limit
  Workers,        \* threads of ThreadPoolExecutor()
  MaxTime,        \* bound on the seconds of the range
  Steps,          \* values of --step, in seconds
  Rows,           \* intervals a row of the file may hold
  MaxRows         \* bound on the rows of the file

Interval == [lo : Nat, hi : Nat]

\* ThreadPoolExecutor() has at least five threads (min(32, cpu_count + 4));
\* producer and consumer take two.
ASSUME BackfillAssumption ==
  /\ Commands \subseteq {"new", "from_file"}
  /\ Concurrencies \subseteq Nat
  /\ Workers \in Nat /\ Workers >= 3
  /\ MaxTime \in Nat
  /\ Steps \subseteq Nat
  /\ Rows \subseteq Interval
  /\ MaxRows \in Nat

VARIABLES
  command,       \* the subcommand
  concurrently,  \* --concurrently
  lower, upper,  \* new: the range, both ends included
  step,          \* new: --step
  start,         \* gen_time_bounds: start
  gen,           \* the generator: active, ended
  chunks,        \* the intervals drawn so far
  phase,         \* how far each of them is
  sem,           \* permits left
  producer, consumer,
  closed,        \* the None that ends the queue has been put
  registered,    \* chunks whose done-callback has been added
  released,      \* chunks whose callback has run
  failed,        \* chunks whose publish_one raised
  main           \* the command itself

args == <<command, concurrently, lower, upper, step>>
genVars == <<start, gen, chunks>>
poolVars == <<sem, producer, consumer, closed, registered, released>>
backfillVars == <<args, genVars, phase, poolVars, failed, main>>

FromFile == command = "from_file"
Serial == concurrently = 1
Phases == {"drawn", "permitted", "queued", "submitted", "running", "ended"}

BackfillTypeOK ==
  /\ command \in Commands /\ concurrently \in Concurrencies
  /\ lower \in Nat /\ upper \in Nat /\ step \in Nat /\ start \in Nat
  /\ gen \in {"active", "ended"}
  /\ chunks \in Seq(Interval)
  /\ phase \in Seq(Phases) /\ Len(phase) = Len(chunks)
  /\ sem \in 0..concurrently
  /\ producer \in {"none", "next", "acquire", "put", "ended", "raised"}
  /\ consumer \in {"none", "get", "adding", "waiting", "ended"}
  /\ closed \in BOOLEAN
  /\ registered \subseteq 1..Len(chunks)
  /\ released \subseteq 1..Len(chunks)
  /\ failed \subseteq 1..Len(chunks)
  /\ main \in {"working", "returned", "raised"}

\* BoundedClosedInterval refuses lower > upper before anything is started; range
\* and step mean nothing to from_file.
BackfillInit ==
  /\ command \in Commands /\ concurrently \in Concurrencies
  /\ lower \in 0..MaxTime /\ upper \in lower..MaxTime /\ step \in Steps
  /\ FromFile => upper = 0 /\ \A n \in Steps : step <= n
  /\ start = lower
  /\ gen = "active"
  /\ chunks = <<>>
  /\ phase = <<>>
  /\ sem = concurrently
  /\ producer = IF Serial THEN "none" ELSE "next"
  /\ consumer = IF Serial THEN "none" ELSE "get"
  /\ closed = FALSE
  /\ registered = {}
  /\ released = {}
  /\ failed = {}
  /\ main = "working"

At(ph) == {i \in DOMAIN phase : phase[i] = ph}

-----------------------------------------------------------------------------
(***************************************************************************)
(* The generators: gen_time_bounds and gen_intervals.                      *)
(***************************************************************************)

\* Mutant of NextBounds: the last second of the range is left out when the
\* range is a multiple of the step, and chunks overlap by a second.
NextBoundsOverlapping ==
  IF start + step < upper THEN [lo |-> start, hi |-> start + step] ELSE [lo |-> start, hi |-> upper]

\* What gen_time_bounds yields next.
NextBounds ==
  IF start + step < upper THEN [lo |-> start, hi |-> start + step - 1] ELSE [lo |-> start, hi |-> upper]

GenTimeBounds ==
  /\ step > 1
  /\ chunks' = Append(chunks, NextBounds)
  /\ IF start + step < upper
     THEN start' = start + step /\ UNCHANGED gen
     ELSE gen' = "ended" /\ UNCHANGED start

\* A row of the file, or the end of the file.
GenIntervals ==
  /\ Len(chunks) < MaxRows
  /\ \E row \in Rows : chunks' = Append(chunks, row)
  /\ gen' \in {"active", "ended"}
  /\ UNCHANGED start

GenYields ==
  /\ gen = "active"
  /\ IF FromFile THEN GenIntervals ELSE GenTimeBounds

\* A step of a second or less; a row that is no pair of dates or an empty
\* interval.
GenRaises == gen = "active" /\ (FromFile \/ step <= 1)

\* The file may be empty, a range is not.
GenEnds == gen = "ended" \/ (FromFile /\ chunks = <<>>)

-----------------------------------------------------------------------------
(***************************************************************************)
(* publish_all_serial.                                                     *)
(***************************************************************************)
SerialBegins ==
  /\ Serial /\ main = "working"
  /\ At("running") = {}
  /\ GenYields
  /\ phase' = Append(phase, "running")
  /\ UNCHANGED <<args, poolVars, failed, main>>

SerialEnds ==
  /\ Serial /\ main = "working"
  /\ \E i \in At("running") :
       /\ phase' = [phase EXCEPT ![i] = "ended"]
       /\ \/ UNCHANGED <<failed, main>>
          \/ failed' = failed \cup {i} /\ main' = "raised"
  /\ UNCHANGED <<args, genVars, poolVars>>

\* The first next(it) is not in the for: StopIteration of an empty file
\* escapes, like any other exception of the generator.
SerialStops ==
  /\ Serial /\ main = "working"
  /\ At("running") = {}
  /\ \/ GenEnds /\ main' = IF chunks = <<>> THEN "raised" ELSE "returned"
     \/ GenRaises /\ main' = "raised"
  /\ UNCHANGED <<args, genVars, phase, poolVars, failed>>

-----------------------------------------------------------------------------
(***************************************************************************)
(* The producer of publish_all_parallel.                                   *)
(***************************************************************************)
ProducerDraws ==
  /\ producer = "next"
  /\ GenYields
  /\ phase' = Append(phase, "drawn")
  /\ producer' = "acquire"
  /\ UNCHANGED <<args, sem, consumer, closed, registered, released, failed, main>>

\* Mutant of ProducerAcquires: the semaphore is not asked.
ProducerAcquiresFreely ==
  /\ producer = "acquire"
  /\ phase' = [phase EXCEPT ![Len(phase)] = "permitted"]
  /\ producer' = "put"
  /\ UNCHANGED <<args, genVars, sem, consumer, closed, registered, released, failed, main>>

ProducerAcquires ==
  /\ producer = "acquire"
  /\ concurrently > 0 => sem > 0
  /\ sem' = IF concurrently > 0 THEN sem - 1 ELSE sem
  /\ phase' = [phase EXCEPT ![Len(phase)] = "permitted"]
  /\ producer' = "put"
  /\ UNCHANGED <<args, genVars, consumer, closed, registered, released, failed, main>>

ProducerPuts ==
  /\ producer = "put"
  /\ phase' = [phase EXCEPT ![Len(phase)] = "queued"]
  /\ producer' = "next"
  /\ UNCHANGED <<args, genVars, sem, consumer, closed, registered, released, failed, main>>

\* The generator is exhausted: work_queue.put(None).
ProducerCloses ==
  /\ producer = "next"
  /\ GenEnds
  /\ closed' = TRUE
  /\ producer' = "ended"
  /\ UNCHANGED <<args, genVars, phase, sem, consumer, registered, released, failed, main>>

\* An exception of the generator ends the producer: the future keeps it and
\* the queue is never closed.
ProducerRaises ==
  /\ producer = "next"
  /\ GenRaises
  /\ producer' = "raised"
  /\ UNCHANGED <<args, genVars, phase, sem, consumer, closed, registered, released, failed, main>>

-----------------------------------------------------------------------------
(***************************************************************************)
(* The consumer and the threads it submits to.                             *)
(***************************************************************************)
Least(i, S) == i \in S /\ \A j \in S : i <= j

\* The futures the consumer waits for.
Submitted == At("submitted") \cup At("running") \cup At("ended")

ConsumerSubmits ==
  /\ consumer = "get"
  /\ \E i \in At("queued") :
       /\ Least(i, At("queued"))
       /\ phase' = [phase EXCEPT ![i] = "submitted"]
  /\ consumer' = "adding"
  /\ UNCHANGED <<args, genVars, sem, producer, closed, registered, released, failed, main>>

\* sem.release, if there is a semaphore.
Release(i) ==
  /\ released' = released \cup {i}
  /\ sem' = IF concurrently > 0 THEN sem + 1 ELSE sem

\* Mutant of ConsumerAdds: a callback added to a future that is already done
\* would not run.
ConsumerAddsLate ==
  /\ consumer = "adding"
  /\ registered' = registered \cup (Submitted \ registered)
  /\ released' = released \cup (At("ended") \ registered)
  /\ consumer' = "get"
  /\ UNCHANGED <<args, genVars, phase, sem, producer, closed, failed, main>>

\* add_done_callback on the future submitted last: it runs at once if the
\* future is done.
ConsumerAdds ==
  /\ consumer = "adding"
  /\ \E i \in Submitted \ registered :
       /\ registered' = registered \cup {i}
       /\ IF phase[i] = "ended" THEN Release(i) ELSE UNCHANGED <<released, sem>>
  /\ consumer' = "get"
  /\ UNCHANGED <<args, genVars, phase, producer, closed, failed, main>>

\* None was at the head of the queue.
ConsumerStops ==
  /\ consumer = "get"
  /\ closed /\ At("queued") = {}
  /\ consumer' = "waiting"
  /\ UNCHANGED <<args, genVars, phase, sem, producer, closed, registered, released, failed, main>>

\* wait(fs)
ConsumerEnds ==
  /\ consumer = "waiting"
  /\ Submitted = At("ended")
  /\ consumer' = "ended"
  /\ UNCHANGED <<args, genVars, phase, sem, producer, closed, registered, released, failed, main>>

\* Chunks whose callback a pool thread still has to run.
Releasing == (At("ended") \cap registered) \ released

Busy ==
  Cardinality(At("running") \cup Releasing)
    + (IF producer \in {"ended", "raised"} THEN 0 ELSE 1)
    + (IF consumer = "ended" THEN 0 ELSE 1)

WorkerBegins ==
  /\ Busy < Workers
  /\ \E i \in At("submitted") :
       /\ Least(i, At("submitted"))
       /\ phase' = [phase EXCEPT ![i] = "running"]
  /\ UNCHANGED <<args, genVars, poolVars, failed, main>>

\* publish_one returns or raises; the future keeps the exception.
WorkerEnds ==
  /\ ~Serial
  /\ \E i \in At("running") :
       /\ phase' = [phase EXCEPT ![i] = "ended"]
       /\ failed' \in {failed, failed \cup {i}}
  /\ UNCHANGED <<args, genVars, poolVars, main>>

WorkerReleases ==
  /\ \E i \in Releasing : Release(i)
  /\ UNCHANGED <<args, genVars, phase, producer, consumer, closed, registered, failed, main>>

\* Mutant of PoolReturns: wait and the with are forgotten.
PoolReturnsEarly ==
  /\ ~Serial /\ main = "working"
  /\ producer \in {"ended", "raised"}
  /\ main' = "returned"
  /\ UNCHANGED <<args, genVars, phase, poolVars, failed>>

\* wait([consume_fut, produce_fut]) and the end of the with.  No result is
\* asked for, so no exception comes out.
PoolReturns ==
  /\ ~Serial /\ main = "working"
  /\ producer \in {"ended", "raised"}
  /\ consumer = "ended"
  /\ Releasing = {}
  /\ main' = "returned"
  /\ UNCHANGED <<args, genVars, phase, poolVars, failed>>

Over == main # "working" /\ UNCHANGED backfillVars

BackfillNext ==
  \/ SerialBegins \/ SerialEnds \/ SerialStops
  \/ ProducerDraws \/ ProducerAcquires \/ ProducerPuts \/ ProducerCloses \/ ProducerRaises
  \/ ConsumerSubmits \/ ConsumerAdds \/ ConsumerStops \/ ConsumerEnds
  \/ WorkerBegins \/ WorkerEnds \/ WorkerReleases
  \/ PoolReturns \/ Over

BackfillSpec == BackfillInit /\ [][BackfillNext]_backfillVars /\ WF_backfillVars(BackfillNext)

-----------------------------------------------------------------------------
\* --concurrently, "Maximum number of publishes that can occur concurrently":
\* whatever the order in which callbacks are added and run.
ConcurrencyBounded == concurrently > 0 => Cardinality(At("running")) <= concurrently

Seconds(i) == chunks[i].lo .. chunks[i].hi

\* When `new` returns, every second of the range, and with it every job that
\* ended then, was in exactly one chunk that was published to the end.
EverySecondOnce ==
  ~FromFile /\ main = "returned" =>
    \A t \in lower..upper :
      /\ \E i \in At("ended") : t \in Seconds(i)
      /\ \A i, j \in At("ended") : t \in Seconds(i) \cap Seconds(j) => i = j

\* Serial or in the pool, from a range or a file: the command returns only when
\* the generator was read to its end and every interval of it was published
\* to the end, so a row that cannot be read is not passed over in silence.
ReturnsWhenAllPublished ==
  main = "returned" => GenEnds /\ At("ended") = DOMAIN chunks

\* The threads shut each other down: the command ends when its intervals do,
\* unless the generator of the intervals raises in the pool.
CommandEnds == <>(main # "working" \/ producer = "raised")

\* The docs tell to retry "after the current invocation finishes": it finishes
\* even when the generator of the intervals raises.
InvocationFinishes == <>(main # "working")

\* The chunks that count: the rows of a file may overlap, so that from_file
\* promises nothing of the kind and maps to a backfill that never starts.
Visible(ph) == IF FromFile THEN {} ELSE At(ph)

Abstract ==
  INSTANCE PublishOnce WITH
    bound    <- IF concurrently > 0 THEN concurrently ELSE Workers,
    todo     <- (lower..upper) \ UNION {Seconds(i) : i \in Visible("running") \cup Visible("ended")},
    active   <- {Seconds(i) : i \in Visible("running")},
    done     <- UNION {Seconds(i) : i \in Visible("ended")},
    returned <- ~FromFile /\ main = "returned",
    Ranges   <- {a..b : a \in 0..MaxTime, b \in 0..MaxTime}

\* Serial or in the pool, `new` implements the abstract backfill.
ImplementsPublishOnce == Abstract!OnceSpec
=============================================================================
