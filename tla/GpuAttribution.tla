---------------------------- MODULE GpuAttribution ----------------------------
(***************************************************************************)
(* Which Slurm job does a measurement of a GPU belong to?  The processors of  *)
(* an OpenTelemetry collector (slurmprocessor: one for each pipeline of       *)
(* metrics, logs or traces) ask shelper for a map of GPUs to jobs with every  *)
(* batch and label the batch with it.  shelper asks slurmctld, through a      *)
(* cache in a file that all pipelines share; or slurmd and the environments   *)
(* of the jobs' processes; or the driver and these environments.             *)
(*                                                                         *)
(* Time is a clock that ticks; a call takes at most CallLag ticks.  The jobs  *)
(* come and go meanwhile.  A job's id is never used again.                    *)
(***************************************************************************)
EXTENDS Integers, Sequences, FiniteSetsExt

CONSTANTS
  Gpu,            \* indices of GPUs, of this host and of the others
  Job,            \* the jobs
  OnHost,         \* the ones that have this host in their NodeList
  OwnGpus,        \* the GPUs a job has on this host
  OtherGpus,      \* the indices of those it has on other hosts
  Uses,           \* the GPUs of this host its processes are found on
  Blocks,         \* the jobs that scontrol shows when asked for a job (arrays)
  Pipeline,       \* the pipelines with a slurm processor
  Sources,        \* the metadata_source of the configuration
  CacheDuration,  \* cache_duration
  CallLag          \* how many ticks a call takes at most

NoOwner == "no job"    \* a GPU of no job
NoGpu == -1

ASSUME AttributionAssumption ==
  /\ NoOwner \notin Job /\ NoGpu \notin Gpu /\ OnHost \subseteq Job
  /\ OwnGpus \in [Job -> SUBSET Gpu] /\ OtherGpus \in [Job -> SUBSET Gpu]
  /\ Uses \in [Job -> SUBSET Gpu]
  /\ \A j \in Job \ OnHost : OwnGpus[j] = {}
  /\ \A j \in Job : Blocks[j] \in Seq(Job)
  /\ \A j \in OnHost : \E i \in DOMAIN Blocks[j] : Blocks[j][i] = j
  /\ Sources \subseteq {"slurmctld", "slurmd", "nvml"}
  /\ CacheDuration \in Nat /\ CallLag \in Nat
  /\ IsFiniteSet(Job)

Bound   == CacheDuration + 2 * CallLag
Horizon == Bound + 1
Later(t, limit) == IF t < limit THEN t + 1 ELSE limit

VARIABLES
  fate,     \* what became of the jobs of this host, and how long ago
  source,   \* the metadata source
  cache,    \* the cache file: what it holds, and its age
  pc,       \* where the call of a pipeline is
  lag,      \* for how long it has been running
  todo,     \* the jobs (or GPUs) the call has still to ask for
  listed,   \* the jobs nvidia-smi pmon listed on each GPU
  map,      \* GPU2Slurm of the call
  err       \* its error

world    == <<fate, source>>
callVars == <<pc, lag, todo, listed, map, err>>
attrVars == <<world, cache, callVars>>

Maps     == [Gpu -> Job \cup {NoOwner}]
EmptyMap == [g \in Gpu |-> NoOwner]
NoList   == [g \in Gpu |-> {}]
Running  == {j \in OnHost : fate[j].st = "running"}

AttrInit ==
  /\ fate = [j \in OnHost |-> [st |-> "new", t |-> 0]]
  /\ source \in Sources
  /\ cache = [st |-> "absent", map |-> EmptyMap, age |-> 0]
  /\ pc = [p \in Pipeline |-> "idle"]
  /\ lag = [p \in Pipeline |-> 0]
  /\ todo = [p \in Pipeline |-> {}]
  /\ listed = [p \in Pipeline |-> NoList]
  /\ map = [p \in Pipeline |-> EmptyMap]
  /\ err = [p \in Pipeline |-> FALSE]

---------------------------------------------------------------------------
(* The host *)

JobStarts(j) ==
  /\ fate[j].st = "new"
  /\ \A k \in Running : OwnGpus[j] \cap OwnGpus[k] = {}
  /\ fate' = [fate EXCEPT ![j] = [st |-> "running", t |-> 0]]
  /\ UNCHANGED <<source, cache, callVars>>

JobEnds(j) ==
  /\ fate[j].st = "running"
  /\ fate' = [fate EXCEPT ![j] = [st |-> "ended", t |-> 0]]
  /\ UNCHANGED <<source, cache, callVars>>

Tick ==
  /\ \A p \in Pipeline : pc[p] # "idle" => lag[p] < CallLag
  /\ lag' = [p \in Pipeline |-> IF pc[p] = "idle" THEN 0 ELSE lag[p] + 1]
  /\ cache' = [cache EXCEPT !.age = IF cache.st = "absent" THEN 0
                                    ELSE Later(@, CacheDuration + 1)]
  /\ fate' = [j \in OnHost |->
               IF fate[j].st = "new" THEN fate[j]
               ELSE [fate[j] EXCEPT !.t = Later(@, Horizon)]]
  /\ UNCHANGED <<source, pc, todo, listed, map, err>>

---------------------------------------------------------------------------
(* The steps of a call *)

Goto(p, l) == pc' = [pc EXCEPT ![p] = l]

\* The call returns map m, with or without an error.
Return(p, m, e) ==
  /\ Goto(p, "label")
  /\ map' = [map EXCEPT ![p] = m]
  /\ err' = [err EXCEPT ![p] = e]
  /\ todo' = [todo EXCEPT ![p] = {}]
  /\ listed' = [listed EXCEPT ![p] = NoList]

(***************************************************************************)
(* GetGPU2Slurm asks slurmd first (scontrol listpids), unless it asks the     *)
(* driver.                                                                 *)
(***************************************************************************)
GetJob2Pid(p) ==
  /\ pc[p] = "idle"
  /\ source \in {"slurmctld", "slurmd"}
  /\ todo' = [todo EXCEPT ![p] = Running]
  /\ Goto(p, IF source = "slurmctld" THEN "stat" ELSE "environ")
  /\ UNCHANGED <<world, cache, lag, listed, map, err>>

GetJob2PidFails(p) ==
  /\ pc[p] = "idle"
  /\ source \in {"slurmctld", "slurmd"}
  /\ Return(p, EmptyMap, TRUE)
  /\ UNCHANGED <<world, cache, lag>>

\* GetSlurmMetadataCache: the test, and then the reading.
StatCache(p) ==
  /\ pc[p] = "stat"
  /\ Goto(p, IF cache.st = "absent" \/ cache.age > CacheDuration THEN "query" ELSE "read")
  /\ UNCHANGED <<world, cache, lag, todo, listed, map, err>>

\* Mutant of ReadCache: a file that is no JSON, or empty, is written once more.
ReadCacheKeepsBad(p) ==
  /\ pc[p] = "read"
  /\ IF cache.st = "map"
     THEN Return(p, cache.map, FALSE) /\ UNCHANGED cache
     ELSE Return(p, EmptyMap, TRUE) /\ cache' = [cache EXCEPT !.age = 0]
  /\ UNCHANGED <<world, lag>>

\* A file that is empty is as good as none; one that is no JSON is an error.
ReadCache(p) ==
  /\ pc[p] = "read"
  /\ IF cache.st = "empty"
     THEN Goto(p, "query") /\ UNCHANGED <<todo, listed, map, err>>
     ELSE IF cache.st = "corrupt" THEN Return(p, EmptyMap, TRUE)
     ELSE Return(p, cache.map, FALSE)
  /\ UNCHANGED <<world, cache, lag>>

ReadCacheFails(p) ==
  /\ pc[p] \in {"stat", "read"}
  /\ Return(p, EmptyMap, TRUE)
  /\ UNCHANGED <<world, cache, lag>>

\* The GRES that scontrol shows of a job: the indices on all its nodes, and none
\* once it has ended.  The jobs of other hosts are taken to run all the time.
GRES(k) ==
  IF k \in Running \/ k \notin OnHost THEN OwnGpus[k] \cup OtherGpus[k] ELSE {}

\* Mutant of AttributeGPU2SlurmMetadata: the NodeList is not looked at.
AttributeAnyHost(blocks, m) ==
  LET about(g) == {i \in DOMAIN blocks : g \in GRES(blocks[i])}
  IN  [g \in Gpu |-> IF about(g) = {} THEN m[g] ELSE blocks[Max(about(g))]]

\* The NodeList of job k names this host.
HostnameInList(k) == k \in OnHost

(***************************************************************************)
(* AttributeGPU2SlurmMetadata, block after block: HostnameInList, and the     *)
(* indices of every GRES of the block, whichever node its line is about.  The *)
(* last block about a GPU wins.                                             *)
(***************************************************************************)
AttributeGPU2SlurmMetadata(blocks, m) ==
  LET about(g) == {i \in DOMAIN blocks : HostnameInList(blocks[i]) /\ g \in GRES(blocks[i])}
  IN  [g \in Gpu |-> IF about(g) = {} THEN m[g] ELSE blocks[Max(about(g))]]

(***************************************************************************)
(* GetJobMetadata (scontrol show jobs -d) and the attribution of its blocks.  *)
(***************************************************************************)
GetJobMetadata(p, j) ==
  /\ pc[p] = "query"
  /\ j \in todo[p]
  /\ map' = [map EXCEPT ![p] = AttributeGPU2SlurmMetadata(Blocks[j], @)]
  /\ todo' = [todo EXCEPT ![p] = @ \ {j}]
  /\ UNCHANGED <<world, cache, pc, lag, listed, err>>

\* Mutant of GetJobMetadataFails: what is known so far goes into the cache.
FailureCached(p, j) ==
  /\ pc[p] = "query"
  /\ j \in todo[p]
  /\ cache' = [st |-> "map", map |-> map[p], age |-> 0]
  /\ Return(p, map[p], TRUE)
  /\ UNCHANGED <<world, lag>>

\* slurmctld does not answer, or no longer knows the job: the map as far as it
\* goes, and nothing in the cache.
GetJobMetadataFails(p, j) ==
  /\ pc[p] = "query"
  /\ j \in todo[p]
  /\ Return(p, map[p], TRUE)
  /\ UNCHANGED <<world, cache, lag>>

(***************************************************************************)
(* SaveSlurmToJSON: os.WriteFile truncates the file, and writes to its        *)
(* beginning.  What somebody else has written in between is overwritten, or   *)
(* sticks out at the end if it is longer.                                   *)
(***************************************************************************)
TruncateCache(p) ==
  /\ pc[p] = "query"
  /\ todo[p] = {}
  /\ cache' = [st |-> "empty", map |-> EmptyMap, age |-> 0]
  /\ Goto(p, "write")
  /\ UNCHANGED <<world, lag, todo, listed, map, err>>

WriteCache(p) ==
  /\ pc[p] = "write"
  /\ \/ cache' = [st |-> "map", map |-> map[p], age |-> 0]
     \/ /\ cache.st = "corrupt" \/ (cache.st = "map" /\ cache.map # map[p])
        /\ cache' = [st |-> "corrupt", map |-> EmptyMap, age |-> 0]
  /\ Return(p, map[p], FALSE)
  /\ UNCHANGED <<world, lag>>

SaveFails(p) ==
  /\ pc[p] = "write" \/ (pc[p] = "query" /\ todo[p] = {})
  /\ Return(p, map[p], TRUE)
  /\ UNCHANGED <<world, cache, lag>>

(***************************************************************************)
(* GetGPU2SlurmFromPIDs, one job of a Go map, in any order: the environment   *)
(* of one process of the job has SLURM_JOB_GPUS.                             *)
(***************************************************************************)
GetGPU2SlurmFromPIDs(p, j) ==
  LET m == [g \in Gpu |-> IF g \in OwnGpus[j] THEN j ELSE map[p][g]] IN
  /\ pc[p] = "environ"
  /\ j \in todo[p] \cap Running
  /\ OwnGpus[j] # {}
  /\ IF todo[p] # {j}
     THEN /\ map' = [map EXCEPT ![p] = m]
          /\ todo' = [todo EXCEPT ![p] = @ \ {j}]
          /\ UNCHANGED <<pc, listed, err>>
     ELSE Return(p, m, FALSE)
  /\ UNCHANGED <<world, cache, lag>>

(***************************************************************************)
(* It has not: the job has no GPUs here, the process was started without the  *)
(* variable, or it is exiting and its environment reads empty.  The map as    *)
(* far as it goes, without an error; the jobs still to do are left.           *)
(***************************************************************************)
NoGPUsInEnv(p, j) ==
  /\ pc[p] = "environ"
  /\ j \in todo[p]
  /\ Goto(p, "label")
  /\ todo' = [todo EXCEPT ![p] = @ \ {j}]
  /\ UNCHANGED <<world, cache, lag, listed, map, err>>

\* The one process that is known of the job is gone: the map as far as it goes.
GetProcEnvStrFails(p, j) ==
  /\ pc[p] = "environ"
  /\ j \in todo[p]
  /\ Return(p, map[p], TRUE)
  /\ UNCHANGED <<world, cache, lag>>

\* No job on the host.
GetGPU2SlurmFromNoPIDs(p) ==
  /\ pc[p] = "environ"
  /\ todo[p] = {}
  /\ Return(p, EmptyMap, FALSE)
  /\ UNCHANGED <<world, cache, lag>>

(***************************************************************************)
(* GetGPU2SlurmFromNvml: nvidia-smi pmon, whose failure is only logged.       *)
(***************************************************************************)
ExecuteGpuPidsCommand(p) ==
  /\ pc[p] = "idle"
  /\ source = "nvml"
  /\ listed' = [listed EXCEPT ![p] = [g \in Gpu |-> {j \in Running : g \in Uses[j]}]]
  /\ todo' = [todo EXCEPT ![p] = {g \in Gpu : \E j \in Running : g \in Uses[j]}]
  /\ Goto(p, "pids")
  /\ UNCHANGED <<world, cache, lag, map, err>>

GpuPidsCommandFails(p) ==
  /\ pc[p] = "idle"
  /\ source = "nvml"
  /\ Return(p, EmptyMap, FALSE)
  /\ UNCHANGED <<world, cache, lag>>

\* Mutant of metadataForGPU: the first process speaks for all.
FirstProcessOwns(jobs) ==
  IF jobs # {} /\ jobs \cap Running # {} THEN CHOOSE j \in jobs \cap Running : TRUE
  ELSE NoOwner

\* metadataForGPU: the processes are all of the same job.
metadataForGPU(jobs) ==
  IF jobs \subseteq Running /\ Cardinality(jobs) = 1 THEN CHOOSE j \in jobs : TRUE
  ELSE NoOwner

\* A process that cannot be read leaves the GPU without a job.
ReadGpu(p, g) ==
  /\ pc[p] = "pids"
  /\ g \in todo[p]
  /\ \E j \in {metadataForGPU(listed[p][g]), NoOwner} : map' = [map EXCEPT ![p][g] = j]
  /\ todo' = [todo EXCEPT ![p] = @ \ {g}]
  /\ UNCHANGED <<world, cache, pc, lag, listed, err>>

AllGpusRead(p) ==
  /\ pc[p] = "pids"
  /\ todo[p] = {}
  /\ Return(p, map[p], FALSE)
  /\ UNCHANGED <<world, cache, lag>>

---------------------------------------------------------------------------
(* What the processor makes of the map *)

\* GetGPUData: the jobs of all GPUs.
GetGPUData(m) == {m[g] : g \in Gpu} \ {NoOwner}

(***************************************************************************)
(* aggregateSlurmToGaugeOrSum and its likes: the jobs a data point is         *)
(* labelled with.  One without a GPU gets those of the host.                 *)
(***************************************************************************)
aggregateSlurmTo(m, gpu) ==
  IF gpu = NoGpu THEN GetGPUData(m) ELSE {m[gpu]} \ {NoOwner}

\* processMetrics labels the batch, whether or not there was an error.
ProcessMetrics(p) ==
  /\ pc[p] = "label"
  /\ Goto(p, "idle")
  /\ lag' = [lag EXCEPT ![p] = 0]
  /\ map' = [map EXCEPT ![p] = EmptyMap]
  /\ err' = [err EXCEPT ![p] = FALSE]
  /\ todo' = [todo EXCEPT ![p] = {}]
  /\ UNCHANGED <<world, cache, listed>>

CallStep(p) ==
  \/ GetJob2Pid(p) \/ GetJob2PidFails(p)
  \/ StatCache(p) \/ ReadCache(p) \/ ReadCacheFails(p)
  \/ \E j \in OnHost : GetJobMetadata(p, j) \/ GetJobMetadataFails(p, j)
  \/ TruncateCache(p) \/ WriteCache(p) \/ SaveFails(p)
  \/ \E j \in OnHost : \/ GetGPU2SlurmFromPIDs(p, j) \/ NoGPUsInEnv(p, j)
                       \/ GetProcEnvStrFails(p, j)
  \/ GetGPU2SlurmFromNoPIDs(p)
  \/ ExecuteGpuPidsCommand(p) \/ GpuPidsCommandFails(p)
  \/ \E g \in Gpu : ReadGpu(p, g)
  \/ AllGpusRead(p)
  \/ ProcessMetrics(p)

AttrNext ==
  \/ \E j \in OnHost : JobStarts(j) \/ JobEnds(j)
  \/ Tick
  \/ \E p \in Pipeline : CallStep(p)

\* The steps in which a command or the disk fails.
CommandFails ==
  \E p \in Pipeline :
    \/ GetJob2PidFails(p) \/ ReadCacheFails(p) \/ SaveFails(p) \/ GpuPidsCommandFails(p)
    \/ \E j \in OnHost : GetJobMetadataFails(p, j) \/ GetProcEnvStrFails(p, j)

(***************************************************************************)
(* Batches keep coming to every pipeline, the commands end and time passes.   *)
(***************************************************************************)
AttrSpec ==
  /\ AttrInit /\ [][AttrNext]_attrVars
  /\ WF_attrVars(Tick) /\ \A p \in Pipeline : WF_attrVars(CallStep(p))

---------------------------------------------------------------------------

Labels(p, gpu) == aggregateSlurmTo(map[p], gpu)

\* The GPUs a job is looked up on: slurmctld's GRES are those of all nodes of the
\* job, slurmd knows the environment of a process here, the driver the processes.
Indices(src, j) ==
  CASE src = "slurmctld" -> OwnGpus[j] \cup OtherGpus[j]
    [] src = "slurmd" -> OwnGpus[j]
    [] src = "nvml" -> Uses[j]

(***************************************************************************)
(* The misattribution the cache causes is bounded: whatever the interleaving  *)
(* of the pipelines that read, refresh, truncate and overwrite the file, a    *)
(* data point is labelled only with a job that ran on the host within the     *)
(* last CacheDuration ticks and two calls, and a data point of a GPU only     *)
(* with a job that the source had on this index (GetSlurmMetadataCache,       *)
(* SaveSlurmToJSON, processMetrics).  For slurmctld that may be the index of  *)
(* a GPU the job has on another host: AttributeGPU2SlurmMetadata takes the    *)
(* GRES of all nodes of a job, although its comment (slurm_helpers.go:105)    *)
(* speaks of "each GPU on the host".                                        *)
(***************************************************************************)
LabelsRecent ==
  \A p \in Pipeline : pc[p] = "label" =>
    /\ \A j \in Labels(p, NoGpu) : j \in OnHost /\ fate[j].st # "new"
                                     /\ (fate[j].st = "ended" => fate[j].t <= Bound)
    /\ \A g \in Gpu : \A j \in Labels(p, g) : g \in Indices(source, j)

(***************************************************************************)
(* A GPU whose job has been running for longer than that has a label in every *)
(* answer of slurmctld without an error: an incomplete map never gets into    *)
(* the cache, and a read of a file that is being written is no answer         *)
(* (GetGPU2Slurm returns before it saves if a query fails).  The label is     *)
(* this job, unless a job with this host has the same index on another of its *)
(* hosts and was attributed later.  slurmd's map and the driver's make no     *)
(* such promise: they leave out what a process does not show.                *)
(***************************************************************************)
LongRunningLabelled ==
  \A p \in Pipeline :
    pc[p] = "label" /\ ~err[p] /\ source = "slurmctld" =>
      \A j \in Running : fate[j].t > Bound =>
        \A g \in OwnGpus[j] : \E k \in Labels(p, g) : k = j \/ g \in OtherGpus[k]

(***************************************************************************)
(* The driver's map picks no arbitrary owner: a GPU with processes of two     *)
(* jobs, since before the call, is not attributed (metadataForGPU).          *)
(***************************************************************************)
NoArbitraryOwner ==
  \A p \in Pipeline : pc[p] = "label" /\ source = "nvml" =>
    \A g \in Gpu : \A j \in Labels(p, g) :
      \A k \in Running \ {j} : g \in Uses[k] => fate[k].t <= CallLag

(***************************************************************************)
(* Two pipelines that refresh the cache at the same time can leave a file     *)
(* that is no JSON, and an error for everybody; but it expires: once no       *)
(* command fails any more and the cache can be written, from some time on all *)
(* calls return a map in which exactly the GPUs of running jobs of this host  *)
(* have a label, and it is such a job (GetSlurmMetadataCache,                *)
(* SaveSlurmToJSON).                                                       *)
(***************************************************************************)
Converges ==
  source = "slurmctld" /\ <>[][~CommandFails]_attrVars =>
       <>[](\A p \in Pipeline : pc[p] = "label" =>
              /\ ~err[p]
              /\ \A g \in Gpu :
                   LET holders == {j \in Running : g \in Indices(source, j)}
                   IN  Labels(p, g) \subseteq holders /\ (holders # {} => Labels(p, g) # {}))

=============================================================================
