--------------------------- MODULE DataCollection ---------------------------
(***************************************************************************)
(* run_data_collection_loop (gcm/monitoring/utils/monitor.py), the loop    *)
(* under every gcm collector but nvml_monitor: in each cycle the tasks run *)
(* in order; a task's get_data returns the records to publish, nearly      *)
(* always a generator that has not started, and                            *)
(* write_to_sink_with_retries publishes them through the sink's write,     *)
(* decorated by log_error.                                                 *)
(***************************************************************************)
EXTENDS SinkWrite

CONSTANTS
  NTasks,     \* length of data_collection_tasks
  Routed,     \* the tasks whose stream the configured sink stores
  Eager,      \* the tasks whose get_data queries Slurm before it returns
  MaxCycles   \* bound on the cycles explored

ASSUME DataCollectionAssumption ==
  /\ NTasks \in Nat \ {0}
  /\ Routed \subseteq 1..NTasks
  /\ Eager \subseteq 1..NTasks
  /\ MaxCycles \in Nat \ {0}

\* run_data_collection_loop always decorates the sink's write (monitor.py:139).
ASSUME WriteIsDecorated == Wrapped = TRUE

VARIABLES
  once,    \* --once
  loop,    \* where run_data_collection_loop is; "done": returned, "dead": an exception left it
  cycle,   \* history: number of the current cycle
  task,    \* index of the current task
  lastId   \* history: identity of the record produced last

loopVars == <<once, loop, cycle, task, lastId>>
vars == <<sinkVars, loopVars>>

TypeOK ==
  /\ SinkTypeOK
  /\ once \in BOOLEAN
  /\ loop \in {"cycle", "task", "writing", "sleep", "done", "dead"}
  /\ cycle \in Nat
  /\ task \in 1..NTasks
  /\ lastId \in Nat

LoopInit ==
  /\ SinkInit
  /\ once \in BOOLEAN
  /\ loop = "cycle"
  /\ cycle = 0
  /\ task = 1
  /\ lastId = 0

-----------------------------------------------------------------------------
\* `while True`: a new cycle begins with the first task.
StartCycle ==
  /\ loop = "cycle"
  /\ cycle < MaxCycles
  /\ cycle' = cycle + 1
  /\ task' = 1
  /\ loop' = "task"
  /\ UNCHANGED <<sinkVars, once, lastId>>

\* Mutant of NextTask: the same task again.
SameTaskAgain == task' = task /\ loop' = "task"

\* Where the loop goes after the current task: the next one, or the end of the
\* cycle, which is the end of the program under --once.
NextTask ==
  IF task < NTasks
    THEN task' = task + 1 /\ loop' = "task"
    ELSE task' = task /\ loop' = IF once THEN "done" ELSE "sleep"

\* get_data returns records and they are handed to write_to_sink_with_retries.
GetData ==
  /\ loop = "task"
  /\ Call(task \in Routed)
  /\ loop' = "writing"
  /\ UNCHANGED <<once, cycle, task, lastId>>

\* get_data returns None: nothing to write.
GetDataNone ==
  /\ loop = "task"
  /\ NextTask
  /\ UNCHANGED <<sinkVars, once, cycle, lastId>>

\* get_data raises: nothing in the loop catches it.
GetDataRaises ==
  /\ loop = "task"
  /\ task \in Eager
  /\ loop' = "dead"
  /\ UNCHANGED <<sinkVars, once, cycle, task, lastId>>

\* write_to_sink_with_retries has returned.
TaskDone ==
  /\ loop = "writing"
  /\ status = "returned"
  /\ status' = "idle"
  /\ NextTask
  /\ UNCHANGED <<limit, routed, gen, chunk, bytes, held, tries, outcome, produced, offered, nchunks,
                 delivered, once, cycle, lastId>>

\* write_to_sink_with_retries has raised: the exception ends the collector.
TaskRaised ==
  /\ loop = "writing"
  /\ status = "raised"
  /\ loop' = "dead"
  /\ UNCHANGED <<sinkVars, once, cycle, task, lastId>>

\* clock.sleep(max(0, interval - elapsed)) always returns.
Sleep ==
  /\ loop = "sleep"
  /\ loop' = "cycle"
  /\ UNCHANGED <<sinkVars, once, cycle, task, lastId>>

-----------------------------------------------------------------------------
LoopStep ==
  \/ StartCycle
  \/ GetDataNone
  \/ GetDataRaises
  \/ TaskDone
  \/ TaskRaised
  \/ Sleep

\* The record the current task yields next.
NewRecord(src, size) ==
  [id |-> lastId + 1, cycle |-> cycle, task |-> task, src |-> src, size |-> size]

YieldRecord(src, size) ==
  /\ Reads(NewRecord(src, size))
  /\ lastId' = lastId + 1
  /\ UNCHANGED <<once, loop, cycle, task>>

\* The sink's side of a call: it neither runs nor looks at the generator.
WriteStep == Writes /\ UNCHANGED loopVars

\* A collector about which nothing more is known.
AnyCollectorStep ==
  \/ GenStarts /\ UNCHANGED loopVars
  \/ \E n \in Sizes : YieldRecord(0, n)
  \/ GenEnds /\ UNCHANGED loopVars
  \/ GenRaises /\ UNCHANGED loopVars
  \/ \E k \in 0..Len(chunk) : ReadFails(k) /\ UNCHANGED loopVars

\* The program has returned or died, or the bound on the cycles is reached.
Ended ==
  /\ loop \in {"done", "dead"} \/ (loop = "cycle" /\ cycle = MaxCycles)
  /\ UNCHANGED vars

LoopNext == LoopStep \/ GetData \/ WriteStep \/ AnyCollectorStep \/ Ended

\* The loop is one thread and sinks and Slurm commands time out, so whatever
\* is enabled is eventually done.
LoopSpec == LoopInit /\ [][LoopNext]_vars /\ WF_vars(LoopNext)

-----------------------------------------------------------------------------
\* Records reach the sink in the order they were produced, none twice,
\* across chunks, tasks and cycles and whatever failed on the way: the loop
\* delivers at most once (log_error around write, monitor.py:139).
AtMostOnceInOrder ==
  \A i, j \in DOMAIN delivered : i < j => delivered[i].id < delivered[j].id

\* Only the collector can end the loop, by raising or by yielding a record
\* that no chunk can hold; a failing sink never does (monitor.py:139).
SinkCannotEndLoop ==
  loop = "dead" =>
    \/ status = "idle" /\ task \in Eager
    \/ gen = "failed"
    \/ \E i \in DOMAIN produced : TooLarge(produced[i])

\* A cycle that has begun is followed by the next one, or the program ends.
CycleEnds ==
  \A n \in 1..(MaxCycles - 1) : cycle = n ~> (cycle = n + 1 \/ loop \in {"done", "dead"})
=============================================================================
