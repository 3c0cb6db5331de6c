------------------------------ MODULE NvmlMonitor ------------------------------
(***************************************************************************)
(* The nvml_monitor collector: in every cycle it samples the GPUs of a host   *)
(* for push_interval seconds, keeps the peak of every metric and the last job  *)
(* seen on each GPU, writes one log record per GPU and one batch of metrics,  *)
(* and sleeps until interval seconds have passed.  Nothing in the loop is      *)
(* caught but what log_error wraps.                                         *)
(*                                                                         *)
(* gpu_util stands for all the metrics of a GPU: they are read one by one,    *)
(* each may be None, and all are accumulated alike.                          *)
(***************************************************************************)
EXTENDS Integers, Sequences, FiniteSetsExt

CONSTANTS
  NumDevices,       \* device_count
  Utils,            \* utilizations in percent
  Jobs,             \* ids of Slurm jobs
  PushInterval, CollectInterval, Interval,
  MaxLag            \* how long a round of samples, or the publishing, takes

None  == -2         \* Python's None
NoJob == -1         \* the job_id of JobInfo()

ASSUME NvmlAssumption ==
  /\ NumDevices \in Nat \ {0}
  /\ Utils \subseteq Nat /\ Jobs \subseteq Nat
  /\ PushInterval \in Nat \ {0} /\ CollectInterval \in Nat \ {0} /\ Interval \in Nat
  /\ MaxLag \in Nat

VARIABLES
  once,     \* --once
  phase,
  elapsed,  \* seconds since run_st_time
  dev,      \* the device whose turn it is
  acc,      \* accumulators
  job,      \* job_per_device_collection
  logs,     \* the log records of this cycle
  batch,    \* its batch of metrics
  history   \* the samples of this cycle (the code does not keep them)

data == <<acc, job, logs, batch, history>>
vars == <<once, phase, elapsed, dev, data>>

Device == 1..NumDevices
MaybeUtil == Utils \cup {None}
Phases == {"start", "sample", "sleep", "publish", "metrics", "rest", "ended", "crashed"}

\* An accumulator that was told nothing; one that was told something has a value,
\* which may be None.
Untold  == [told |-> FALSE, value |-> None]
NoBatch == [devices |-> <<>>, max |-> 0, min |-> 0, sum |-> 0, count |-> 0]

Init ==
  /\ once \in BOOLEAN
  /\ phase = "start"
  /\ elapsed = 0
  /\ dev = 1
  /\ acc = [d \in Device |-> Untold]
  /\ job = [d \in Device |-> NoJob]
  /\ logs = <<>>
  /\ batch = NoBatch
  /\ history = [d \in Device |-> <<>>]

\* The head of the loop.
StartCycle ==
  /\ phase = "start"
  /\ phase' = "sample"
  /\ elapsed' = 0
  /\ dev' = 1
  /\ acc' = [d \in Device |-> Untold]
  /\ job' = [d \in Device |-> NoJob]
  /\ logs' = <<>>
  /\ batch' = NoBatch
  /\ history' = [d \in Device |-> <<>>]
  /\ UNCHANGED once

---------------------------------------------------------------------------
(* Sampling *)

\* Mutant of max_op: None counts as less than nothing only on the left.
MaxOpRightWins(x, y) == IF x = None \/ y = None THEN y ELSE IF x < y THEN y ELSE x

\* max_fields, one field.
max_op(x, y) == IF x = None THEN y ELSE IF y = None THEN x ELSE IF x < y THEN y ELSE x

\* Accumulator.tell.
tell(a, v) == [told |-> TRUE, value |-> IF a.told THEN max_op(a.value, v) ELSE v]

\* The next device, or the sleep.
NextDevice ==
  IF dev < NumDevices THEN dev' = dev + 1 /\ UNCHANGED phase
  ELSE dev' = 1 /\ phase' = "sleep"

(***************************************************************************)
(* A device that answers with utilization u and whose first process tells of  *)
(* job j: None if there is no process or its environment cannot be read,      *)
(* NoJob if it is not of a Slurm job.                                        *)
(***************************************************************************)
SampleDevice(u, j) ==
  /\ phase = "sample"
  /\ acc' = [acc EXCEPT ![dev] = tell(@, u)]
  /\ job' = IF j = None THEN job ELSE [job EXCEPT ![dev] = j]
  /\ history' = [history EXCEPT ![dev] = Append(@, [util |-> u, job |-> j])]
  /\ NextDevice
  /\ UNCHANGED <<once, elapsed, logs, batch>>

\* get_device_by_index fails: the device is left out.
NoHandle ==
  /\ phase = "sample"
  /\ NextDevice
  /\ UNCHANGED <<once, elapsed, data>>

\* get_device_metrics_basic divides by the power limit, outside of log_error.
SampleRaises ==
  /\ phase = "sample"
  /\ phase' = "crashed"
  /\ UNCHANGED <<once, elapsed, dev, data>>

\* The sleep between two rounds, and the condition of the while.
CollectSleep ==
  /\ phase = "sleep"
  /\ \E lag \in 0..MaxLag : elapsed' = elapsed + lag + CollectInterval
  /\ phase' = IF elapsed' < PushInterval THEN "sample" ELSE "publish"
  /\ UNCHANGED <<once, dev, data>>

---------------------------------------------------------------------------
(* Publishing *)

\* ask, and the log record of one device.
WriteDevice ==
  /\ phase = "publish"
  /\ acc[dev].told
  /\ logs' = Append(logs, [util |-> acc[dev].value, job |-> job[dev]])
  /\ IF dev < NumDevices THEN dev' = dev + 1 /\ UNCHANGED phase
     ELSE dev' = 1 /\ phase' = "metrics"
  /\ UNCHANGED <<once, elapsed, acc, job, batch, history>>

\* ask raises ValueError for a device that was told nothing, or the sink raises.
WriteDeviceRaises ==
  /\ phase = "publish"
  /\ phase' = "crashed"
  /\ UNCHANGED <<once, elapsed, dev, data>>

\* filter(None, ...): the devices with a utilization that is not None and not 0.
Busy(a) == {d \in Device : a[d].value \notin {None, 0}}

\* sum, of the values v of all devices.
Total(v) ==
  LET total[d \in 0..NumDevices] == IF d = 0 THEN 0 ELSE total[d - 1] + v[d]
  IN  total[NumDevices]

\* Mutant of compute_host_level_metrics: the average is over all devices.
AverageOverAll(a) ==
  LET utils == {a[d].value : d \in Busy(a)}
  IN  [devices |-> [d \in Device |-> a[d].value],
       max |-> IF utils = {} THEN 0 ELSE Max(utils),
       min |-> IF utils = {} THEN 0 ELSE Min(utils),
       sum |-> Total([d \in Device |-> IF d \in Busy(a) THEN a[d].value ELSE 0]),
       count |-> NumDevices]

(***************************************************************************)
(* compute_host_level_metrics.  The average is its sum over its count.        *)
(***************************************************************************)
compute_host_level_metrics(a) ==
  LET utils == {a[d].value : d \in Busy(a)}
  IN  [devices |-> [d \in Device |-> a[d].value],
       max |-> IF utils = {} THEN 0 ELSE Max(utils),
       min |-> IF utils = {} THEN 0 ELSE Min(utils),
       sum |-> Total([d \in Device |-> IF d \in Busy(a) THEN a[d].value ELSE 0]),
       count |-> Cardinality(Busy(a))]

WriteMetrics ==
  /\ phase = "metrics"
  /\ batch' = compute_host_level_metrics(acc)
  /\ phase' = "rest"
  /\ UNCHANGED <<once, elapsed, dev, acc, job, logs, history>>

\* free -m fails, or the sink raises.
WriteMetricsRaises ==
  /\ phase = "metrics"
  /\ phase' = "crashed"
  /\ UNCHANGED <<once, elapsed, dev, data>>

\* Mutant of Rest: the whole interval is slept after the cycle.
RestWholeInterval ==
  /\ phase = "rest"
  /\ \E lag \in 0..MaxLag : elapsed' = elapsed + lag + Interval
  /\ phase' = IF once THEN "ended" ELSE "start"
  /\ UNCHANGED <<once, dev, data>>

\* sleep(max(0, interval - elapsed)), and looptimes.
Rest ==
  /\ phase = "rest"
  /\ \E lag \in 0..MaxLag :
       elapsed' = IF elapsed + lag < Interval THEN Interval ELSE elapsed + lag
  /\ phase' = IF once THEN "ended" ELSE "start"
  /\ UNCHANGED <<once, dev, data>>

Next ==
  \/ StartCycle
  \/ \E u \in MaybeUtil, j \in Jobs \cup {NoJob, None} : SampleDevice(u, j)
  \/ NoHandle
  \/ SampleRaises
  \/ CollectSleep
  \/ WriteDevice
  \/ WriteDeviceRaises
  \/ WriteMetrics
  \/ WriteMetricsRaises
  \/ Rest

(***************************************************************************)
(* One thread: it goes on as long as it can.                                *)
(***************************************************************************)
Spec == Init /\ [][Next]_vars /\ WF_vars(Next)

---------------------------------------------------------------------------

\* A round that starts before the push interval is over ends this much later.
MaxElapsed ==
  LET sampled == PushInterval - 1 + MaxLag + CollectInterval + MaxLag
  IN  IF Interval < sampled THEN sampled ELSE Interval

NvmlTypeOK ==
  /\ once \in BOOLEAN
  /\ phase \in Phases
  /\ elapsed \in Nat
  /\ dev \in Device
  /\ acc \in [Device -> [told: BOOLEAN, value: MaybeUtil]]
  /\ job \in [Device -> Jobs \cup {NoJob}]
  /\ logs \in Seq([util: MaybeUtil, job: Jobs \cup {NoJob}])
  /\ history \in [Device -> Seq([util: MaybeUtil, job: Jobs \cup {NoJob, None}])]

\* What the samples h of a device amount to: the peak, and the last job.
Peak(h) ==
  LET utils == {h[i].util : i \in DOMAIN h} \ {None}
  IN  IF utils = {} THEN None ELSE Max(utils)

LastJob(h) ==
  LET seen == {i \in DOMAIN h : h[i].job # None}
  IN  IF seen = {} THEN NoJob ELSE h[Max(seen)].job

(***************************************************************************)
(* A log record says what was seen of the device in its own interval, and     *)
(* only that: the peak over all samples, however many of them failed and in   *)
(* whichever order they came, and the job of the last sample with a process;  *)
(* and there is none for a device that was not seen at all                   *)
(* (Accumulator, max_fields, job_per_device_collection).                     *)
(***************************************************************************)
RecordsOfInterval ==
  \A d \in DOMAIN logs :
    /\ history[d] # <<>>
    /\ logs[d] = [util |-> Peak(history[d]), job |-> LastJob(history[d])]

\* The devices whose log record has a utilization above 0.
BusyInLogs == {d \in Device : logs[d].util > 0}

(***************************************************************************)
(* The batch of metrics comes after the log records of all devices and agrees *)
(* with them exactly: the maximum is the greatest utilization of any sample   *)
(* of any device in the interval, minimum and average are those of the peaks  *)
(* in the records of the devices that were not idle, all are 0 if there is no *)
(* such device, and minimum <= average <= maximum                            *)
(* (compute_host_level_metrics).  nvml_monitor.md:58 says of the minimum      *)
(* "Lowest GPU utilization across all GPUs", but filter(None, ...) drops the *)
(* idle ones.                                                               *)
(***************************************************************************)
BatchAgreesWithLogs ==
  phase = "rest" =>
    LET peaks == {logs[d].util : d \in BusyInLogs} IN
    /\ Len(logs) = NumDevices
    /\ \A d \in Device : logs[d].util = batch.devices[d]
    /\ \A d \in Device : \A i \in DOMAIN history[d] : history[d][i].util <= batch.max
    /\ \A u \in peaks : batch.min <= u
    /\ IF peaks = {} THEN batch.min = 0 /\ batch.max = 0
       ELSE batch.min \in peaks /\ batch.max \in peaks
    /\ batch.count = Cardinality(BusyInLogs)
    /\ batch.sum = Total([d \in Device |-> IF d \in BusyInLogs THEN logs[d].util ELSE 0])
    /\ batch.min * batch.count <= batch.sum /\ batch.sum <= batch.max * batch.count

(***************************************************************************)
(* The cycles keep their pace: one takes the interval, or, when sampling and  *)
(* publishing are slower, as long as these take and no longer (the two        *)
(* sleeps of main).                                                         *)
(***************************************************************************)
CyclesKeepPace ==
  /\ elapsed <= MaxElapsed
  /\ phase = "ended" => elapsed >= Interval

=============================================================================
