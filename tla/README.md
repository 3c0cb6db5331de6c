# Formal models of gcm

TLA+ models of [gcm](../src/README.md), the GPU cluster monitoring tools: the
collectors that scrape Slurm, Kubernetes and NVML and publish what they find,
the backfill of Slurm accounting data, the health checks, and the Go helpers
that attribute GPUs to jobs. The models are checked with TLC on small instances
and proved with TLAPS for every value of their constants. `PROJECT.json` maps
every definition to the lines it models.

## 1. Inventory

| Part | State | Operations | Talks to | Hard because |
| --- | --- | --- | --- | --- |
| Sink write path: `sink/utils.py`, `itertools.py`, `decorators.py`, `utils/error.py` | chunk under construction, retry index, the lazy generator | `write_to_sink_with_retries`, `chunk_by_json_size`, `retry`, `log_error` | collector (generator), exporter (`write`) | generator, chunker and sink are coroutines; who reads the generator decides who sees its exceptions |
| Collection loop: `utils/monitor.py` | cycle, current task | `run_data_collection_loop` | all collectors but `nvml_monitor`; the sink | must survive a failing sink, deliver at most once |
| `slurm_monitor` | `obj.last_sdiag`, shared by two tasks | `collect_slurm`, `collect_sdiag` | the loop, Slurm | a cache that outlives a failed cycle, laziness |
| Other Slurm collectors, `kubernetes_monitor` | none of their own | one or two tasks each | the loop, Slurm CLI or REST, Kubernetes API | parsing, paging, eager scrapes that end the loop |
| `nvml_monitor` | accumulators per GPU | its own loop | NVML, the sink (`sink_impl.write`, directly) | partial failures of devices, summaries |
| `sacct_publish`, `sacct_wrapper` | rest of a broken row, batch of rows | one round of the loop; filter and rejoin of sacct output | Slurm, `publish_chunk`, the sink | rows broken by user input, jobs at the boundary of a chunk, failures that must travel along a pipe |
| `sacct_backfill` `new`, `from_file` | queue, semaphore, futures | generator of intervals, serial loop, producer, consumer, pool | `publish_chunk` | threads shutting each other down, bounds on concurrency, boundaries of intervals |
| `publish_chunk` | two child processes, SIGCHLD handler | spawn, wait, terminate, reap | `sacct`, `sacct_publish` | handler and `Popen.wait` race, timeouts, waits without a timeout |
| `sacct_backfill_server` | one barrier per pair of dates, for ever | `wait` | several `sacct_backfill` clients | barriers break, clients die and come back, clocks differ |
| Exporters, `meta_utils/scribe.py`, `ods.py` | files, HTTP sessions, gauges | `write`, `shutdown` | the outside | partial writes, acknowledgements |
| `shelper`, `slurmprocessor` (Go) | a cache file with an age | `GetGPU2Slurm` | several collector processes, Slurm | shared file written in place, stale data |
| Health check runtime and about 30 checks | exit code and message of one run | `HealthCheckRuntime`, one command per check | subprocesses, NVML, telemetry sink | exit codes lost on the way, killing of processes |
| Command line, configuration, feature flags, schemas | none | | | |
| Scaffolding, packaging, website | none | | | |

What each part has to get right is stated as the properties in section 3 (for
the parts modelled) and in the hazards of `PROJECT.json` (for all of them).

## 2. Modules

    SinkWrite  <-- DataCollection  <-- SlurmMonitor        (EXTENDS)
    PublishChunk
    Backfill   ==> PublishOnce                             (refinement)
    SacctPipeline                                          (sacct, fsacct, sacct_publish)
    Rendezvous
    ExitCodes  <-- GpuChecks, HostChecks, NetworkChecks, ServiceChecks
               <-- HealthCheckRuntime  <-- HealthChecks    (with all four)
    ExitCodes  <-- NvidiaSmiChecks, RunningProcs <-- NvidiaSmi
    NvmlMonitor
    GpuAttribution                                         (shelper, slurmprocessor)

Every module `X` that a run is about has an `MCX` with the constants of its TLC
instance. The theorems are in modules of their own: `SinkWriteProofs`,
`DataCollectionProofs`, `SlurmMonitorProofs` and `BackfillProofs` are about the module of
that name, `ChunkProofs` about PublishChunk, Rendezvous and SacctPipeline,
`HealthCheckProofs` about HealthCheckRuntime and HealthChecks, `NvidiaSmiProofs` about NvidiaSmi and
RunningProcs, `GpuProofs` about NvmlMonitor and GpuAttribution. Options of the command line that decide
control (`--chunk-size`, `--once`, `--concurrently`, the subcommand) are
variables that are chosen in the initial state and never change, so that one run
covers all of them and a theorem is about all of them.

Definitions called "Mutant of X" are wrong versions of `X`, used to confirm that
the properties notice the mistake. They are part of no specification.

**SinkWrite** is one call of `write_to_sink_with_retries`. `status` says whether
the generator is being read or a chunk written. A record is its identity, the
cycle, task and scrape it comes from, and its JSON size. With chunking
(`limit > 0`) the chunker reads the generator: `RecordFits`, `RecordOverflows`,
`RecordTooLarge`, `GenEnds`. Without (`limit = 0`) the sink does, inside `write`:
`SinkReads`, `ReadFails`. `SinkAnswers` is an exporter: it stores some prefix of
the chunk and succeeds, asks for a retry or fails. `log_error` and the retry
decorator decide what the caller sees. `Wrapped` says whether `write` is
decorated, as it is in the loop, or not: the function allows both, but only its
tests call it with an undecorated one (`nvml_monitor` calls `sink_impl.write`
without it). `ChunkingOptimal`
compares the chunks of a call with every way of cutting its records (`Cutting`).

**DataCollection** is `run_data_collection_loop` around SinkWrite: tasks in
order, `get_data` that returns a generator, returns None or raises, the
exception that ends the loop, `--once`. Its collector is any generator.

**SlurmMonitor** replaces that collector by the two generators of
`slurm_monitor`, whose bodies run only when they are read, and by the cache
`last_sdiag` between them.

**PublishChunk** is any number of concurrent calls of `publish_chunk`. `proc` is
the state of a child as the kernel sees it, `code` its exit status. A zombie is
reaped by `Popen.wait` ("waited") or by the SIGCHLD handler ("stolen"); in the
second case `Popen` reports 0. The last poll of a wait that times out, the log
line and each `terminate` are steps of their own, as a child may exit between
them; `expired` remembers the timeouts. Leaving a `with` waits for the child
without a timeout.

**Backfill** is one round of `new` or `from_file`: the generators, the serial
loop, and producer, consumer and futures of `publish_all_parallel`, at the grain
of one step per queue, semaphore or future operation. `phase[i]` follows the
i-th interval from the generator to the end of its publish. The hourly repetition
of `new` starts such a round again and keeps nothing of the one before.

**PublishOnce** is what a backfill promises, without threads: the seconds of the
range are handed out in disjoint pieces, at most `bound` at a time, and the
command returns when all have ended. `ImplementsPublishOnce` maps Backfill to it.

**Rendezvous** is `_publish_chunk` in several clients and the server's barriers,
which are keyed by the dates each client computes from its own clock (`base`). A
wait that times out breaks the barrier for good; a serial client dies of it, a
pool loses the chunk. `luck = "good"` is the case the documentation has in mind:
timeouts longer than any publish and no publish that raises.

**SacctPipeline** is what flows through the pipe of a backfill, over several
chunks: sacct (external) prints the rows of the jobs it takes for ended in the
interval, `get_sacct_lines` puts rows with line breaks together by counting
delimiters, `filter_sacct_lines_batched` keeps those whose End is in the chunk,
`generate_sacct_records` makes payloads. A row is, for each of its lines, the
number of delimiters up to the end of the line (`Delims`). The wrapper parses the
ends of a whole batch at once (`ParseEnds`) and then prints the rows one by one,
and waits whenever the pipe is full. sacct, wrapper and publisher are processes
that run side by side and fail; the pipe has a capacity. `waiting` is where
`publish_chunk` is: at the Popen of the publisher, which may raise (the end of a
serial backfill), or at one of its waits, which time out, or report 0 for a child
that the SIGCHLD handler reaped. `failed` are the chunks that are logged,
`unlogged` those that failed without a word; among them are chunks whose publisher
swallowed the ValueError of a bad row, as it does without chunking. When sacct
reports a job (`Selected`) may be before or after its End; `Timely` are the jobs
that it reports with their End or up to the slack earlier, and `NoneLost` is about
them. `RowAssumption` says for which rows the code is right: delimiters in a field
do not make up for line breaks in the same row.

**ExitCodes** is the order of exit codes (UNKNOWN is the least), the raising of
an overall verdict, and what a shell command can answer: output with a return
code, a timeout or a command that cannot be started
(`handle_subprocess_exception`).

**GpuChecks, HostChecks, NetworkChecks, ServiceChecks** have the verdict of every
health check command as operators, named for the functions of the code, over
what the tools can report. An outcome is a return code with a sequence of tokens,
one for each kind of line the code tells apart, or the value of a call. Each
module ends in a table of commands: the outcomes of one item, the verdicts, how
many items a command loops over, and whether it raises its verdict or sets it.

**HealthCheckRuntime** runs a command of such a table: `__enter__` with the
killswitch, the items, `finish`, and the exits of output and telemetry context in
the order of the ExitStack, each of which may raise. `Command` is a constant, so
the theorems about the runtime are about every table of verdicts and not only
about ours.

**HealthChecks** puts the two together and states what verdicts have to be.
`Follows` says which operator of the code gives the verdicts of which command,
with some argument out of `Thresholds`; `OutcomeAssumption` says what form the
outcomes have and not how many there are, so that its theorems hold for reports
of any length, any return codes, and any number of devices, ports and counters.
TLC evaluates these assumptions on the table of ServiceChecks (`AllCommands`).
`MaxHosts` bounds the host lists of `check_nccl`, in the run only.

**NvidiaSmi** is `check_nvidia_smi` and `nvlink`, which run several sub-checks
with a record each under one exit code and one overall output; `at` is where the
loop over the table of sub-checks is, `check` what the command line selects, and
what is not selected is skipped. The verdicts are in **NvidiaSmiChecks**. **RunningProcs** is the sub-check with a machine of its own:
the attempts, the kill of the processes the last device listed, the wait and the
second reading, among processes that start, come to a GPU, release it, exit, or
stay listed by the driver after they are gone. `retry_count` and `force_kill` are
the options; a retry count of 0 skips the attempts. `outcomes` are the exit codes
of the attempts, `arrived` the processes that came to a GPU since the current
reading of the devices began.

**NvmlMonitor** is the loop of `nvml_monitor`: sampling rounds with a sleep, an
accumulator per device, the log record of each device, the batch of metrics, the
rest of the interval. The utilization of a device stands for all its metrics
(`max_fields` treats them alike). `history` remembers the samples of the cycle.

**GpuAttribution** is `GetGPU2Slurm` in several pipelines of one collector, with
the cache file they share. A call is as many steps as it has commands and file
operations; `os.WriteFile` is two of them. `fate` says which jobs are running or
have ended and for how long. Time is a clock, and `CallLag` bounds the time a
call takes. A query of scontrol answers with a list of blocks, one per array task
or component, which are applied in order: the last block about a GPU wins. The
indices of a block are those of all nodes of the job (`GRES`). Of each job slurmd
knows one process; if there is no `SLURM_JOB_GPUS` in its environment, because the
job has no GPUs or the process is exiting, the call ends there (`NoGPUsInEnv`), and
the jobs it has not come to stay in `todo`.

## 3. Runs

| Run | Result | Bounds |
| --- | --- | --- |
| `sink_write` | chunks fit and are as few as any cutting allows (`ChunkingOptimal`, against all ways of cutting the records); nothing is skipped; a call that returns has stored everything; a record is stored at most once per try, and without chunking at most once | 4 records of sizes 1, 3, 7, 8 and a limit of 9: exact fits, a size that never shares a chunk, a size that is refused; 2 retries |
| `collection_loop` | at most once and in order; only the collector ends the loop; every cycle is followed by the next | 2 tasks, one eager, one not routed, 2 cycles, 2 records each |
| `slurm_monitor` | Sdiag rows are fresh; what a cycle publishes is one snapshot, with one Sdiag row (`CycleIsOneScrape`) | 3 cycles: good, failed, good |
| `publish_chunk` | no child outlives its call; what is logged failed or was late, and what failed or was late is logged, but for statuses the handler took (`LogExact`); every call ends | 2 concurrent calls |
| `backfill` | `--concurrently` is a bound; every second of the range is in exactly one published chunk; the threads shut each other down; refinement of PublishOnce | ranges in 0..7, steps 1 to 3 (1 is refused), up to 4 chunks, `--concurrently` 0, 1, 2, 4 threads, 3 rows of 2 overlapping intervals |
| `rendezvous` | clients are in step before and after each chunk (`InStep`); equal dates and good luck never break a barrier; nobody waits for ever | 3 clients, one of them a pool of 2, 3 chunks, 2 clocks |
| `sacct_pipeline` | a payload is one whole row; no job twice; a job of the range with a proper row that sacct reports in time is published, or its chunk failed (`NoneLost`); the pipeline ends | 3 chunks, 5 jobs: on both sides of a boundary, reported early, reported late, with line breaks, with delimiters, with both; with and without chunking, serial and in a pool; batches of 2, a pipe of 2 rows |
| `health_checks` | exit status, record and printed line agree; crashes and commands that failed are not healthy; the worst item decides; `NothingHidden`: the lines of a report do not hide each other, one bad device of the manifest suffices, counters add up, every host is tested | all commands, up to 2 items, reports of up to 2 lines, 2 devices, 2 ports of 2 counters, up to 6 hosts; the thresholds of the commands' table |
| `nvidia_smi` | OK after a reading means that whoever is on a GPU came since; no sub-check is outvoted; records are the sub-checks' own verdicts and a crash leaves no false one (`AnswersAreReal`); killing is the last resort: after all attempts, none of them OK | 2 processes, 2 devices, retry counts 0 and 2, with and without the kill; every sub-check alone and with one other |
| `gpu_attribution` | labels are of jobs that ran within `cache_duration` and two calls, on an index the source has for them; GPUs of jobs that slurmctld has known for longer are labelled; no arbitrary owner; a corrupt cache heals | 2 pipelines, 2 GPUs, 2 jobs of the host, one of them with another index on another host, and one job of another host, `cache_duration` 1, calls of at most 1 tick |
| `nvml_monitor` | records are of their interval; maximum, minimum and average of the batch are exactly those of the busy devices in them; cycles keep their pace | 2 devices, 3 utilizations, 2 rounds a cycle, lateness of 1 |
| `invocation_hangs` | **violated**: an exception of the interval generator leaves the pool waiting for ever | as `backfill` |

The violated run is described in `PROJECT.json` under `findings` with the line of
the repository it contradicts. Other places where the code does not do
what a page or a comment says were met while modelling. The models do what the code
does, the properties say what is left, and `PROJECT.json` describes them under
`hazards`: the loop never retries a write whatever `--retries` says; with
chunking a failed scrape ends `slurm_monitor`; a failed `sacct` passes for a
success when the SIGCHLD handler reaps it; documented rendezvous commands that
start in different seconds never meet, and a restarted client meets its own
ghost; "Uncorrected error" is a warning; the killswitch of nvlink_status
overwrites the verdict of nvlink_errors; a DCGM 3 test that failed on the second
GPU only passes (`check_dcgmi.py:207`); running_procs_and_kill is OK after a
successful kill, where its page says WARN, and with a retry count of 0 it is OK
without having read a device; idle GPUs do not count in the least utilization;
GPUs of a multi-node job are merged over its nodes (`slurm_helpers.go:171`); a
process without `SLURM_JOB_GPUS` keeps slurmd's map from the jobs after it
(`local.go:83`); jobs that sacct reports late are lost at the bound of a chunk.
Some more are plain from the code and need no model: exceptions of
the futures of a backfill are dropped (`sacct_backfill.py:307`); `check_module`
asks the killswitch of uptime and `package_version` that of service_status; a
check takes a command that a signal killed for a success; events between the
listing and the clearing of the SEL are lost.

The runs check what is hard to get right. Type invariants of the modules that have
theorems are proved instead (section 4), and are conjuncts of the inductive
invariants there.

*Why these bounds are enough to be of use.* Each was chosen so that every
disjunct of every next-state relation is taken and so that the interesting
coincidences occur: a record that fits exactly, a record held back when the
generator ends, a retry of the last chunk, a scrape that fails between two good
ones, a future that is done before its callback is added, a last chunk of one
second, a fast client that comes to the second wait while the others leave the
first, a cache file that two writers leave corrupt, a job reported in the chunk
before its own, a process that exits between listing and kill, a child that exits between a timeout and its SIGTERM. Every property is broken by at least one plausible change of the code
under its run's own bounds (`mutants`).

*Deadlock.* `sink_write` ends when its one call does. `backfill` really may stop:
that is what `invocation_hangs` shows; `CommandEnds` says it happens in no other
case. `health_checks`, `nvidia_smi`, `nvml_monitor` (with `--once`, or after an
exception) and `sacct_pipeline` are programs that end.

*Fairness.* SinkWrite, DataCollection, SlurmMonitor and Backfill assume weak
fairness of the whole next-state relation only: some thread that can go on does.
A collector is one thread, exporters and Slurm commands have timeouts, and the
threads of a backfill share no lock but queue and semaphore. PublishChunk assumes
that each call's thread runs and that a publisher whose input has ended exits; a
hung publisher keeps the call for ever on two paths (see the hazards).
Rendezvous assumes that every client runs and that waits time out. SacctPipeline
assumes that `publish_chunk` runs and its time limits pass, that the backfill goes
on to the next chunk, and that a publisher reads its input to the end; sacct and
the wrapper need not do anything. `PipelineEnds` leaves out a publisher that
cannot be started: its wrapper is waited for without a limit. NvidiaSmi and
NvmlMonitor state that their one thread runs; no property needs it. GpuAttribution
assumes that batches keep coming, that commands end
(scontrol has no timeout in the code) and that time passes.

## 4. Theorems

| Theorem | Says, for every value of the constants | Inductive invariant |
| --- | --- | --- |
| `SinkTypeCorrect`, `TypeCorrect`, `SMTypeCorrect`, `ChunkTypeCorrect`, `BackfillTypeCorrect`, `RvTypeCorrect`, `PlTypeCorrect`, `RtTypeCorrect`, `NvmlTypeCorrect` | type invariants; that of Backfill includes that permits stay between 0 and `--concurrently`, that of SacctPipeline (`PlTypeOK`) that what is left of a broken row has fewer delimiters than the header | themselves, or conjuncts of the invariants below |
| `NothingIsSkipped` | `NothingSkipped` | `SkipInv`: what was produced is what was offered, then the current chunk, then the record held back |
| `ReturnAlwaysMeansDelivered` | `ReturnMeansDelivered` | `StoredInv`: while a chunk is written, everything offered is in the sink or in that chunk, which is written again until it is stored whole or the call raises |
| `DuplicatesAlwaysBounded` | `DuplicatesBounded` | `DupInv`: a record of the chunk was stored at most once for each try so far, one held back or not yet read not at all. Counts copies by `Cardinality`, hence the lemma `CopiesGrow` |
| `ChunkingIsOptimal` | `ChunkingOptimal`, for any records and limits | `OptInv`: the chunks so far cut the records before the current one (`Own`), and no as many chunks reach further (`Ahead`), so that none of all ways of cutting has fewer at the end (`Least`): the greedy chunker stays ahead. Needs that a part of a list that fits fits (`SliceFacts`) and that the code's running byte count is the length of the encoding |
| `DeliversAtMostOnce` | `AtMostOnceInOrder` | `OrderInv`: identities increase along the sink's content followed by the chunk and the record held back, and are bounded by the last one given out. Needs that `log_error` decorates `write`: without it the theorem is false |
| `SinkNeverEndsLoop` | `SinkCannotEndLoop` | `FaultInv`: an exception that leaves a call is the generator's or the chunker's |
| `SdiagIsNeverStale` | `NoStaleSdiag` | `FreshInv`: whenever `collect_sdiag` can read the cache it is empty or of this cycle, because `collect_slurm` has run to its end, was never started and left it empty, or emptied it before it failed |
| `CycleIsAlwaysOneScrape` | `CycleIsOneScrape` | `SnapshotInv`: no two scrapes in one cycle; all records known to sink and call are of the scrape of their cycle; no Sdiag row of this cycle before `collect_sdiag` has run. Uses `FreshInv`, for the cache, and `OrderInv`, as two rows are one when their identities are equal |
| `NoChildIsLeft`, `FailureLogExact` | `NoChildLeft`; `LogExact`, for any number of concurrent calls | `CallInv`, one call at a time |
| `CallsOnlyMoveForward` | every step of a thread, a child or the handler takes some call further and none back (`OnlyForward`, an action property), and a call is over after at most 13 of them (`ProgressBounded`) | `CallInv`: a child is started once |
| `ClientsInLockstep` | `InStep`, when the server was started for the number of clients | `RvInv`: one of five stages for each pair of base and chunk |
| `SameDatesAlwaysMeet` | `SameDatesMeet`, when the server was started for the number of clients | `MeetInv`: `RvInv`, chunks are taken up in order, a barrier with everybody in it has opened, nobody has died. The model breaks a barrier without a timeout only when all clients are stuck; that they never are follows for the least chunk somebody is not done with (`NotStuck`) |
| `PayloadsAreWholeRows`, `NoJobIsPublishedTwice`, `NoJobIsLost` | `PayloadsAreRows`, `NoJobTwice`, `NoneLost`, for any rows, ranges, steps, slack and batch size | `PlInv`: what is left of a broken row is the beginning of the row sacct is printing, with its delimiters (`Gluing`); a job is in one place only of `todo`, batch, `parsed`, pipe and published (`Apart`, `Once`); a process that ended well left nothing behind (`Endings`); a timely job of an earlier chunk is published or the chunk failed, one of this chunk is published, on the way, or the chunk has failed or will (`Kept`) |
| `ReturnedIsPublished` | a command that returned has read its generator to the end and published every interval | `Control`: which ends of threads imply which |
| `ConcurrencyIsBounded` | `ConcurrencyBounded` | `Permits`: permits left plus chunks between acquire and callback make `--concurrently` |
| `EverySecondPublishedOnce` | `EverySecondOnce` | `Tiling`: the chunks drawn are disjoint and cover the range up to where the generator stands |
| `RefinesPublishOnce` | `ImplementsPublishOnce`: Backfill refines PublishOnce (which states safety only) | `RefineInv`: `Control`, `Permits`, `Tiling` and that no interval is empty. A chunk is a piece of PublishOnce from the step in which it begins to run; pieces are sets of seconds, so that two chunks are told apart needs that they are disjoint and not empty, that there is room for another needs `Permits`, and that nothing is left at the return needs `Control` |
| `BackfillNeverStuck` | `NeverStuck`: unless the generator raised in the pool, the guard of some action of producer, consumer, threads or command holds, for any number of threads (three at least), permits and chunks | `Control`, `Permits` and `Handing`: at most one future, the one in the consumer's hand, has no callback yet, and a producer that ended has closed the queue. A producer that waits for a permit then finds somebody who holds one and can go on (`HeldMoves`) |
| `ReportsAlwaysAgree`, `CrashesNotHealthy`, `WorstItemDecides`, `HealthyIsEarned` | the properties of the runtime, for every table of commands, outcomes and verdicts and any number of items | `RtInv`: the type, what `overall` is of the items seen (`BodyInv`) for as long as the body runs, and what the exit code is of `overall` on the way out through the contexts; `RaiseCommutes` says that the order of items does not matter |
| `BlindIsNeverHealthy` | `BlindNotHealthy`, for any number of items and lines, any return codes and thresholds | `SeenInv`: what was seen are outcomes of the command. With `HealthyIsEarned` it is left to show, one lemma for each check, that no verdict on a failed command is OK |
| `NothingIsEverHidden` | `NothingHidden`, for any number of lines, devices, ports, counters and hosts | `SeenInv`. Verdicts grow with the set of lines (`GradedGrows`); a check that is OK is OK with each device, for PCI by counting (`PciStateOk`); sums of counters are numbers of errors (`ErrorsCounted`); the groups of hosts cover them (`HostsTested`) |
| `OkAlwaysMeansFree`, `KillingIsLastResort` | `OkMeansFree`; `KillIsLastResort`, an action property; for any number of devices and processes, and any retry count, 0 and less included | `RpInv`: who is on a device that was read without a finding has arrived since (`ReadIsFree`); a process in `pids` that lives was seen by the last attempt, and who comes to the kill with one has made all attempts, none of them OK (`KillIsEarned`); a process that has not started is in no list (`Unseen`) |
| `WorstSubCheckIsReported`, `AnswersAreAlwaysReal` | `WorstSubCheckReported`, `AnswersAreReal`, for every selection of sub-checks | `SmiInv`: records and items are of sub-checks the loop has come to (`LoopOrder`), the code of the current one is that of its items, a crash is the last of them, `overall` is not below any item. The verdicts of the sub-checks are exit codes or exceptions (`SubChecksAreSound`), for every number of GPUs |
| `RecordsAreOfInterval`, `PaceIsKept` | `RecordsOfInterval`, `CyclesKeepPace`, for any number of devices and any intervals | `NvmlInv`: an accumulator is the peak of the history of its device and the job is the last one in it (`DeviceInv`), the records are those of the devices published so far (`LogsInv`), and a cycle in each phase is late by at most the lags it had (`PaceInv`) |
| `BatchAlwaysAgrees` | `BatchAgreesWithLogs`, for any number of devices and utilizations | `BatchInv`, with `NvmlInv`. The lemma `MetricsAgree` is about the sum, the least and the greatest of any number of values |
| `LabelsAreRecent` | `LabelsRecent` | `AttrInv`: every map, in the cache or in a call, has an age; its entries are jobs seen within that age, on indices the source has for them (`Recent`), every GPU of a job that was running before has an owner (`Complete`), and one of the driver has no GPU that was shared before (`Unshared`). A cache that may be read is at most `CacheDuration` older than the call that wrote it |
| `LongRunningAreLabelled` | `LongRunningLabelled` | `AttrInv` |
| `NoOwnerIsArbitrary` | `NoArbitraryOwner` | `AttrInv` |

The assumptions are those of the modules (`ASSUME`), which TLC evaluates on
every run: numbers are naturals, a pool has three threads at least, `write` is
decorated in the loop, `slurm_monitor` has two lazy tasks, a table of commands
has verdicts that are exit codes or exceptions, the verdicts in HealthChecks are
those of the code on outcomes of the proper form, intervals are positive, rows of
sacct are as described in section 2, jobs are finitely many, scontrol shows a job
of the host that it is asked for, and jobs of other hosts have no GPU here. Two
theorems have a hypothesis of their own, those of the rendezvous: `--nprocs` of the
server is the number of clients, as its documentation demands. The constants of the
run satisfy it.

Some properties are weaker than a reader may expect, because the code is:
`LogExact` leaves out statuses that the handler took and counts a timeout as a
cause, as a child may still end well after it; `OkMeansFree` is about retry counts
from 1; `LabelsRecent` and `LongRunningLabelled` allow for indices of other hosts,
and the second is about slurmctld only; `NothingHidden` is about whole tests of
DCGM; `NoneLost` leaves out jobs that sacct does not report in time and chunks that
failed without a log line (`unlogged`).

*How sums and least elements are proved.* Induction principles that take an
operator cannot be instantiated by the provers. Where an induction over numbers
is needed (`TotalIsSum`, `TotalBounds`, `ValuesBounded`, `NotStuck`, `TaggedSum`)
the proofs take the least number for which the claim fails, which exists because
the order of the naturals is well founded (`LeastNumber`). That a recursively
defined sum satisfies its own equation is shown in the same way (`SumExists`,
`SizesExist`).

Only model-checked: liveness (`CycleEnds`, `ChunkEnds`, `CommandEnds`,
`ClientsEnd`, `PipelineEnds`, `Converges`), which needs fairness and `ENABLED`.
What can be said of `CommandEnds` and `ChunkEnds` without fairness is proved:
`BackfillNeverStuck` is about the guards of the actions, written out instead of
`ENABLED`, and `CallsOnlyMoveForward` bounds the steps of a call. Every other
property of a passing run is stated by a theorem.

## 5. Not modelled

Wording and layout of records, log lines and command lines. Authentication and
transport of the rendezvous, and clients that are killed and started again.
Start-up errors (an unknown sink, wrong options), which end a program before its
loop. Signals other than SIGCHLD. The export thread of the OpenTelemetry SDK.
Processes killed in the middle of a line of output, and reuse of pids.

Parsing of the outputs of squeue, sinfo, scontrol, sacctmgr and sshare and of the
REST and Kubernetes APIs: functions of one text without a state; the loop takes
their result for any generator. Exporters but for what SinkWrite knows of them,
and the acknowledgements of `meta_utils/scribe.py`. Option parsing, generated
feature flags and schemas. `bin/create_new_health_check.py`, which writes
templates.

## 6. Plan

Done: the write path, the loop and `slurm_monitor`; the backfill with its
children, threads, barriers and pipe; the health checks and their runtime;
`nvml_monitor`; the attribution of GPUs. Next, in this order:

1. The acknowledgements of `meta_utils/scribe.py`, paging of the REST and
   Kubernetes clients, host lists.
2. Proofs that the clients of the rendezvous and the processes of the pipeline
   only move forward, as for `publish_chunk`.
