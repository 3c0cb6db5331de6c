----------------------------- MODULE SacctPipeline -----------------------------
(***************************************************************************)
(* The pipeline that carries the jobs of one chunk of a backfill after the    *)
(* other: sacct prints rows, sacct_wrapper (gcm fsacct) puts the rows that    *)
(* have line breaks in them together, asks for a little more than the chunk   *)
(* and filters by the end of the job, and sacct_publish makes payloads of     *)
(* the rows.  sacct, the wrapper and the publisher are three processes; any   *)
(* of them may fail, and publish_chunk, which waits for the wrapper and the    *)
(* publisher in turn, terminates them when a time limit passes.  (PublishChunk *)
(* has the races of that call; here they are the choice whether the SIGCHLD    *)
(* handler reaped a child first.)                                            *)
(*                                                                         *)
(* The row of a job is, for each of its lines, the number of delimiters up to *)
(* the end of the line.  The last column is End, which the wrapper adds.      *)
(***************************************************************************)
EXTENDS Integers, Sequences, Bags

CONSTANTS
  Job,
  End,          \* when a job ended, in seconds
  Selected,     \* when it ended, as far as the selection of sacct goes
  Delims,       \* the delimiters up to the end of each line of its row
  N,            \* fields_number, the delimiters in the header
  Lower, Upper, Step,   \* what the backfill is asked for
  Slack,        \* start_time_slack
  BatchSize,    \* --wrapper-batch-size
  PipeCapacity  \* the rows that fit into the pipe to the publisher

\* The lines of the row of job j, and the delimiters in one of them.
Height(j) == Len(Delims[j])
LineDelims(j, i) == Delims[j][i] - (IF i = 1 THEN 0 ELSE Delims[j][i - 1])

(***************************************************************************)
(* Fields may have line breaks and, in a row of one line, delimiters in them; *)
(* in a row of several lines, the delimiters must not make up for the breaks. *)
(***************************************************************************)
ASSUME RowAssumption ==
  /\ N \in Nat \ {0}
  /\ \A j \in Job :
       /\ Delims[j] \in Seq(Nat) /\ Height(j) > 0
       /\ Delims[j][Height(j)] >= N
       /\ \A i \in 1..Height(j) - 1 : Delims[j][i] < N
       /\ \A i \in 1..Height(j) : LineDelims(j, i) \in (IF Height(j) = 1 THEN Nat ELSE 0..N - 1)

\* When sacct reports a job is up to sacct: its docstring has it 2-3 minutes
\* before or after the End.
ASSUME SelectionAssumption == \A j \in Job : End[j] \in Nat /\ Selected[j] \in Int

ASSUME PipelineAssumption ==
  /\ Lower \in Nat /\ Upper \in Nat /\ Lower <= Upper
  /\ Step \in Nat /\ Step > 1 /\ Slack \in Nat /\ BatchSize \in Nat \ {0}
  /\ PipeCapacity \in Nat \ {0}

VARIABLES
  ignore_line_errors,   \* --ignore-line-errors
  chunking,   \* --chunk-size > 0: the rows are read outside log_error
  serial,     \* chunks are published by publish_all_serial, not by a pool
  lo,         \* start of the chunk
  todo, row,  \* the jobs sacct has still to print, and the row it is printing
  sacct, wrapper, publisher,  \* the processes: running, or how they exited
  waiting,    \* what publish_chunk is about
  prev,       \* prev_line and prev_line_delimiters
  batch,      \* the rows whose ends are parsed together
  parsed,     \* the rows of a parsed batch that have not been filtered yet
  pipe,       \* the rows the publisher has not read yet
  published,  \* the payloads of all chunks, as they are handed to the sink
  skipped,    \* the rows it ignored
  failed,     \* the chunks that publish_chunk logged as failed
  unlogged    \* the chunks with a failure that publish_chunk does not see or log

processes == <<sacct, wrapper, publisher>>
results   == <<published, skipped, failed, unlogged>>
options   == <<ignore_line_errors, chunking, serial>>
vars      == <<options, lo, todo, row, processes, waiting, prev, batch, parsed, pipe, results>>

Exits == {"running", "ok", "failed"}
Waits == {"popen", "wrapper", "publisher", "terminate", "return", "raise"}
NoRow == <<>>
NoPrev == [lines |-> <<>>, delims |-> 0]

\* gen_time_bounds: the end of the chunk that starts at `start`.
ChunkEnd(start) == IF start + Step < Upper THEN start + Step - 1 ELSE Upper
Last_chunk(start) == ~(start + Step < Upper)
Chunk(start) == start..ChunkEnd(start)

\* Mutant of get_patched_sacct_cmd: the lower bound is taken as it is.
NoSlack(start) == {j \in Job : start <= Selected[j] /\ Selected[j] <= ChunkEnd(start)}

\* get_patched_sacct_cmd: the jobs sacct prints for it.
get_patched_sacct_cmd(start) ==
  {j \in Job : start - Slack <= Selected[j] /\ Selected[j] <= ChunkEnd(start)}

Init ==
  /\ ignore_line_errors \in BOOLEAN /\ chunking \in BOOLEAN /\ serial \in BOOLEAN
  /\ lo = Lower
  /\ todo = get_patched_sacct_cmd(Lower)
  /\ row = NoRow
  /\ sacct = "running" /\ wrapper = "running" /\ publisher = "none"
  /\ waiting = "popen"
  /\ prev = NoPrev
  /\ batch = <<>>
  /\ parsed = <<>>
  /\ pipe = <<>>
  /\ published = EmptyBag
  /\ skipped = {}
  /\ failed = {}
  /\ unlogged = {}

---------------------------------------------------------------------------
(* sacct *)

\* The lines that may come next: of the row that is being printed, or of any.
NextLines == IF row = NoRow THEN {<<j, 1>> : j \in todo} ELSE {row}

PrintsLine(line) ==
  LET j == line[1]
      i == line[2]
  IN  /\ todo' = todo \ {j}
      /\ row' = IF i < Height(j) THEN <<j, i + 1>> ELSE NoRow

SacctEnds ==
  /\ sacct = "running"
  /\ todo = {} /\ row = NoRow
  /\ sacct' = "ok"
  /\ UNCHANGED <<options, waiting, lo, todo, row, wrapper, publisher, prev, batch, parsed, pipe, results>>

\* It dies, or stops because nobody reads.
SacctDies ==
  /\ sacct = "running"
  /\ sacct' = "failed"
  /\ todo' = {} /\ row' = NoRow
  /\ UNCHANGED <<options, waiting, lo, wrapper, publisher, prev, batch, parsed, pipe, results>>

---------------------------------------------------------------------------
(* sacct_wrapper *)

Yield(lines, delims) == batch' = Append(batch, [lines |-> lines, delims |-> delims])

\* Mutant of get_sacct_lines: what is left of a row is not forgotten.
GetSacctLinesKeeps(line) ==
  LET d == LineDelims(line[1], line[2])
  IN  \/ d >= N /\ Yield(<<line>>, d) /\ UNCHANGED <<prev, wrapper>>
      \/ /\ d < N /\ prev.delims + d = N
         /\ Yield(Append(prev.lines, line), N)
         /\ prev' = [lines |-> prev.lines, delims |-> 0]
         /\ UNCHANGED wrapper
      \/ /\ d < N /\ prev.delims + d > N
         /\ wrapper' = "failed"
         /\ UNCHANGED <<batch, prev>>
      \/ /\ d < N /\ prev.delims + d < N
         /\ prev' = [lines |-> Append(prev.lines, line), delims |-> prev.delims + d]
         /\ UNCHANGED <<batch, wrapper>>

\* Mutant of get_sacct_lines: too many delimiters are not noticed.
GetSacctLinesUnchecked(line) ==
  LET d == LineDelims(line[1], line[2])
  IN  \/ d >= N /\ Yield(<<line>>, d) /\ UNCHANGED <<prev, wrapper>>
      \/ /\ d < N /\ prev.delims + d = N
         /\ Yield(Append(prev.lines, line), N)
         /\ prev' = NoPrev
         /\ UNCHANGED wrapper
      \/ /\ d < N /\ prev.delims + d # N
         /\ prev' = [lines |-> Append(prev.lines, line), delims |-> prev.delims + d]
         /\ UNCHANGED <<batch, wrapper>>

(***************************************************************************)
(* get_sacct_lines, one line: a row of its own, the end of a broken row, too  *)
(* many delimiters, or a part of a broken row.                              *)
(***************************************************************************)
get_sacct_lines(line) ==
  LET d == LineDelims(line[1], line[2])
  IN  \/ d >= N /\ Yield(<<line>>, d) /\ UNCHANGED <<prev, wrapper>>
      \/ /\ d < N /\ prev.delims + d = N
         /\ Yield(Append(prev.lines, line), N)
         /\ prev' = NoPrev
         /\ UNCHANGED wrapper
      \/ /\ d < N /\ prev.delims + d > N
         /\ wrapper' = "failed"
         /\ UNCHANGED <<batch, prev>>
      \/ /\ d < N /\ prev.delims + d < N
         /\ prev' = [lines |-> Append(prev.lines, line), delims |-> prev.delims + d]
         /\ UNCHANGED <<batch, wrapper>>

ReadLine(line) ==
  /\ sacct = "running" /\ wrapper = "running"
  /\ Len(batch) < BatchSize /\ parsed = <<>>
  /\ PrintsLine(line)
  /\ get_sacct_lines(line)
  /\ UNCHANGED <<options, waiting, lo, sacct, publisher, parsed, pipe, results>>

\* The job of a row, by its last column.
JobOf(r) == r.lines[Len(r.lines)][1]

\* Mutant of InInterval: a job is kept if it ended before the end of the chunk.
InIntervalBelow(r) == End[JobOf(r)] <= ChunkEnd(lo)

InInterval(r) == End[JobOf(r)] \in Chunk(lo)

\* A batch is full, or what is left at the end.
BatchReady ==
  /\ wrapper = "running"
  /\ batch # <<>> /\ parsed = <<>>
  /\ Len(batch) = BatchSize \/ sacct # "running"

\* get_datetimes: the ends of a whole batch are parsed at once.
ParseEnds ==
  /\ BatchReady
  /\ parsed' = batch
  /\ batch' = <<>>
  /\ UNCHANGED <<options, waiting, lo, todo, row, processes, prev, pipe, results>>

(***************************************************************************)
(* filter_sacct_lines_batched, one row: it is printed if it is in the chunk.  *)
(* When the pipe is full the wrapper waits; also for a publisher that is      *)
(* gone, as publish_chunk keeps the read end open meanwhile.                  *)
(***************************************************************************)
filter_sacct_lines_batched ==
  /\ wrapper = "running"
  /\ parsed # <<>>
  /\ parsed' = Tail(parsed)
  /\ IF InInterval(Head(parsed))
     THEN Len(pipe) < PipeCapacity /\ pipe' = Append(pipe, Head(parsed))
     ELSE UNCHANGED pipe
  /\ UNCHANGED <<options, waiting, lo, todo, row, processes, prev, batch, results>>

\* get_datetimes or time_to_time_aware cannot parse a date.
FilterRaises ==
  /\ BatchReady
  /\ wrapper' = "failed"
  /\ UNCHANGED <<options, waiting, lo, todo, row, sacct, publisher, prev, batch, parsed, pipe, results>>

\* sys.exit(p.returncode).
WrapperExits ==
  /\ wrapper = "running"
  /\ sacct # "running" /\ batch = <<>> /\ parsed = <<>>
  /\ wrapper' = sacct
  /\ UNCHANGED <<options, waiting, lo, todo, row, sacct, publisher, prev, batch, parsed, pipe, results>>

---------------------------------------------------------------------------
(* sacct_publish *)

(***************************************************************************)
(* generate_sacct_records and to_payload: one row.  The ValueError of a bad    *)
(* row ends the publisher, with status 0 when a sink reads the generator:      *)
(* log_error takes the exception for one of the sink.                         *)
(***************************************************************************)
generate_sacct_records ==
  /\ publisher = "running"
  /\ pipe # <<>>
  /\ pipe' = Tail(pipe)
  /\ IF Head(pipe).delims = N
     THEN published' = published (+) SetToBag({Head(pipe).lines})
          /\ UNCHANGED <<skipped, publisher, unlogged>>
     ELSE IF ignore_line_errors
     THEN skipped' = skipped \cup {Head(pipe).lines}
          /\ UNCHANGED <<published, publisher, unlogged>>
     ELSE /\ publisher' = IF chunking THEN "failed" ELSE "ok"
          /\ unlogged' = IF chunking THEN unlogged ELSE unlogged \cup {lo}
          /\ UNCHANGED <<published, skipped>>
  /\ UNCHANGED <<options, waiting, lo, todo, row, sacct, wrapper, prev, batch, parsed, failed>>

PublisherEnds ==
  /\ publisher = "running"
  /\ pipe = <<>> /\ wrapper # "running"
  /\ publisher' = "ok"
  /\ UNCHANGED <<options, waiting, lo, todo, row, sacct, wrapper, prev, batch, parsed, pipe, results>>

\* It is killed, or raises before it reads rows, as when the sink cannot be
\* made.  (What a sink raises is logged and does not end it: SinkWrite.)
PublisherDies ==
  /\ publisher = "running"
  /\ publisher' = "failed"
  /\ UNCHANGED <<options, waiting, lo, todo, row, sacct, wrapper, prev, batch, parsed, pipe, results>>

---------------------------------------------------------------------------
(* publish_chunk *)

AfterSigterm(p) == IF p = "running" THEN "failed" ELSE p

\* Popen of the publish command.  When it raises, nothing is logged and only
\* the wrapper is waited for, without a time limit.
PopenPublisher ==
  /\ waiting = "popen"
  /\ \/ publisher' = "running" /\ waiting' = "wrapper" /\ UNCHANGED unlogged
     \/ waiting' = "raise" /\ unlogged' = unlogged \cup {lo} /\ UNCHANGED publisher
  /\ UNCHANGED <<options, lo, todo, row, sacct, wrapper, prev, batch, parsed, pipe,
                 published, skipped, failed>>

(***************************************************************************)
(* Popen.wait finds that process p has exited, unless the handler reaped it:   *)
(* it then reports status 0.  A failure that is seen is logged.               *)
(***************************************************************************)
Waited(p, next) ==
  /\ p # "running"
  /\ \E stolen \in BOOLEAN :
       IF p = "ok" \/ stolen
       THEN /\ waiting' = next
            /\ unlogged' = IF p = "ok" THEN unlogged ELSE unlogged \cup {lo}
            /\ UNCHANGED failed
       ELSE /\ waiting' = "return"
            /\ failed' = failed \cup {lo}
            /\ UNCHANGED unlogged
  /\ UNCHANGED <<options, lo, todo, row, processes, prev, batch, parsed, pipe, published, skipped>>

WrapperWaited   == waiting = "wrapper" /\ Waited(wrapper, "publisher")
PublisherWaited == waiting = "publisher" /\ Waited(publisher, "return")

\* Mutant of SacctTimesOut: only sacct itself is waited for with a time limit.
OnlySacctTimesOut ==
  /\ waiting = "wrapper" /\ wrapper = "running" /\ sacct = "running"
  /\ failed' = failed \cup {lo}
  /\ waiting' = "terminate"
  /\ UNCHANGED <<options, lo, todo, row, processes, prev, batch, parsed, pipe,
                 published, skipped, unlogged>>

\* sacct_timeout_sec passes while the wrapper runs.
SacctTimesOut ==
  /\ waiting = "wrapper" /\ wrapper = "running"
  /\ failed' = failed \cup {lo}
  /\ waiting' = "terminate"
  /\ UNCHANGED <<options, lo, todo, row, processes, prev, batch, parsed, pipe,
                 published, skipped, unlogged>>

\* publish_timeout_sec passes while the publisher runs.
PublishTimesOut ==
  /\ waiting = "publisher" /\ publisher = "running"
  /\ failed' = failed \cup {lo}
  /\ waiting' = "terminate"
  /\ UNCHANGED <<options, lo, todo, row, processes, prev, batch, parsed, pipe,
                 published, skipped, unlogged>>

\* publish_proc.terminate() and, after the first timeout, sacct_proc.terminate():
\* after the second the wrapper has exited.
Terminates ==
  /\ waiting = "terminate"
  /\ wrapper' = AfterSigterm(wrapper) /\ publisher' = AfterSigterm(publisher)
  /\ waiting' = "return"
  /\ UNCHANGED <<options, lo, todo, row, sacct, prev, batch, parsed, pipe, results>>

publish_chunk ==
  PopenPublisher \/ WrapperWaited \/ SacctTimesOut \/ PublisherWaited \/ PublishTimesOut \/ Terminates

\* Both with statements have been left: nobody looks after sacct itself.
ChunkOver ==
  waiting \in {"return", "raise"} /\ wrapper # "running" /\ publisher # "running"

\* An exception ends a serial backfill; in the pool its future keeps it.
Aborted == waiting = "raise" /\ serial

\* The next chunk, with new processes.
NextChunk ==
  /\ ChunkOver
  /\ ~Last_chunk(lo) /\ ~Aborted
  /\ lo' = lo + Step
  /\ todo' = get_patched_sacct_cmd(lo + Step)
  /\ row' = NoRow
  /\ sacct' = "running" /\ wrapper' = "running" /\ publisher' = "none"
  /\ waiting' = "popen"
  /\ prev' = NoPrev
  /\ batch' = <<>>
  /\ parsed' = <<>>
  /\ pipe' = <<>>
  /\ UNCHANGED <<options, results>>

Next ==
  \/ \E line \in NextLines : ReadLine(line)
  \/ SacctEnds \/ SacctDies
  \/ ParseEnds \/ filter_sacct_lines_batched \/ FilterRaises \/ WrapperExits
  \/ generate_sacct_records \/ PublisherEnds \/ PublisherDies
  \/ publish_chunk
  \/ NextChunk

\* The time limits of publish_chunk pass and a publisher reads its input to the
\* end.  Neither sacct nor the wrapper has to do anything.
Spec ==
  /\ Init /\ [][Next]_vars
  /\ WF_vars(publish_chunk) /\ WF_vars(NextChunk)
  /\ WF_vars(generate_sacct_records \/ PublisherEnds)

---------------------------------------------------------------------------

\* The lines of the row of job j.
RowOf(j) == [i \in 1..Height(j) |-> <<j, i>>]

\* A row that to_payload takes: every column of the header is there, no more.
Proper(j) == Delims[j][Height(j)] = N

\* sacct reports job j with its End, or up to the slack earlier.
Timely(j) == Selected[j] \in (End[j] - Slack)..End[j]

Done == ChunkOver /\ (Last_chunk(lo) \/ Aborted)

PlTypeOK ==
  /\ ignore_line_errors \in BOOLEAN /\ chunking \in BOOLEAN /\ serial \in BOOLEAN
  /\ lo \in Lower..Upper
  /\ todo \subseteq Job
  /\ row = NoRow \/ row[1] \in Job
  /\ sacct \in Exits /\ wrapper \in Exits /\ publisher \in Exits \cup {"none"}
  /\ waiting \in Waits
  /\ prev.delims \in 0..N - 1
  /\ Len(batch) <= BatchSize /\ Len(parsed) <= BatchSize
  /\ Len(pipe) <= PipeCapacity
  /\ IsABag(published)

(***************************************************************************)
(* Whatever line breaks and delimiters the fields have, and wherever sacct    *)
(* dies, a payload is the row of one job, all of it and nothing else: no      *)
(* part of a row is glued to another one's (get_sacct_lines, to_payload).     *)
(***************************************************************************)
PayloadsAreRows ==
  \A r \in BagToSet(published) : \E j \in Job : r = RowOf(j) /\ Proper(j)

(***************************************************************************)
(* No job is published twice, although every chunk asks sacct for jobs of     *)
(* the one before (gen_time_bounds, ClosedInterval, start_time_slack).       *)
(***************************************************************************)
NoJobTwice ==
  \A j \in Job : BagIn(RowOf(j), published) => published[RowOf(j)] = 1

(***************************************************************************)
(* And none is lost: when all is done, every job of the range that has a       *)
(* proper row and that sacct reports in time, be it in the chunk before its    *)
(* own, is published, or its chunk is logged as failed and can be done again   *)
(* (get_patched_sacct_cmd, sys.exit(p.returncode), publish_chunk).            *)
(* There are three ways out of this that the code leaves open, those of        *)
(* `unlogged`: the handler reaps a child that failed, the publish command      *)
(* cannot be started (after which a serial backfill does no chunk at all), or  *)
(* without --chunk-size a bad row makes the publisher drop the rest of the     *)
(* rows and exit with 0.  And a job that sacct reports later than its End, or  *)
(* earlier than the slack, is lost when that crosses the bound of a chunk.     *)
(***************************************************************************)
NoneLost ==
  Done => \A j \in Job :
    /\ End[j] \in Lower..ChunkEnd(lo)
    /\ Proper(j) /\ Timely(j)
    /\ \A c \in failed \cup unlogged : End[j] \notin Chunk(c)
    => RowOf(j) \in BagToSet(published)

(***************************************************************************)
(* The pipeline comes to an end, also when sacct hangs, or the publisher is    *)
(* gone and the wrapper waits for room in the pipe (sacct_timeout_sec); but    *)
(* not when the publisher cannot be started, as no time limit holds then.      *)
(***************************************************************************)
PipelineEnds == <>(Done \/ waiting = "raise")

=============================================================================
