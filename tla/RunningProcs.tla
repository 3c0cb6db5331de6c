---------------------------- MODULE RunningProcs ----------------------------
(***************************************************************************)
(* running_procs and running_procs_and_kill of check_nvidia_smi: is somebody *)
(* else using the GPUs?  Processes come and go while the devices are asked   *)
(* one after the other, and the driver goes on listing a process for a while *)
(* after it has gone.  A number of a process is not used again meanwhile.     *)
(***************************************************************************)
EXTENDS ExitCodes, Sequences

CONSTANTS
  NumDevices,    \* the devices of the job are 1..NumDevices, in this order
  Pid,           \* the processes
  RetryCounts    \* what --running_procs_retry_count may be: any number

ASSUME RunningProcsAssumption ==
  /\ NumDevices \in Nat
  /\ RetryCounts \subseteq Int

Device == 1..NumDevices

VARIABLES
  gpu,        \* the compute processes the driver lists, per device
  alive,      \* the processes that exist
  unborn,     \* the ones that have not started yet
  arrived,    \* the ones that came to a device since the current reading began
  retry_count,   \* --running_procs_retry_count
  force_kill,    \* --running_procs_force_kill
  rpc,        \* where the sub-check is
  mode,       \* "check" (running_procs) or "kill" (running_procs_and_kill)
  attempt,    \* the attempt that is made
  dev,        \* the device asked next
  pids,       \* pids of attempt_check_running_procs: those of the last device
  rcode,      \* exit_code of attempt_check_running_procs
  outcomes,   \* the exit codes of the attempts that were made
  victims,    \* the processes kill_processes has still to kill
  waited,     \* the ones it has sent SIGKILL
  killed,     \* the ones that died of it
  rexit       \* exit_code of the sub-check

procVars == <<gpu, alive, unborn, arrived>>
rpVars   == <<retry_count, force_kill, rpc, mode, attempt, dev, pids, rcode, outcomes, victims,
              waited, killed, rexit>>

RpInit ==
  /\ gpu \in [Device -> SUBSET Pid]
  /\ alive \in SUBSET UNION {gpu[d] : d \in Device}
  /\ unborn = Pid \ UNION {gpu[d] : d \in Device}
  /\ arrived = {}
  /\ retry_count \in RetryCounts
  /\ force_kill \in BOOLEAN
  /\ rpc = "idle"
  /\ mode = "check"
  /\ attempt = 0
  /\ dev = 1
  /\ pids = {}
  /\ rcode = OK
  /\ outcomes = <<>>
  /\ victims = {}
  /\ waited = {}
  /\ killed = {}
  /\ rexit = OK

---------------------------------------------------------------------------
(* The processes *)

ProcExits(p) ==
  /\ p \in alive
  /\ alive' = alive \ {p}
  /\ UNCHANGED <<gpu, unborn, arrived>>

DriverForgets(p) ==
  /\ p \notin alive
  /\ \E d \in Device : p \in gpu[d]
  /\ gpu' = [d \in Device |-> gpu[d] \ {p}]
  /\ UNCHANGED <<alive, unborn, arrived>>

\* A process that goes on, but closed its context on the GPUs.
ProcReleases(p) ==
  /\ p \in alive
  /\ \E d \in Device : p \in gpu[d]
  /\ gpu' = [d \in Device |-> gpu[d] \ {p}]
  /\ UNCHANGED <<alive, unborn, arrived>>

\* A process starts to use a device: a new one, or one that exists.
ProcArrives(p, d) ==
  /\ p \in unborn \cup alive
  /\ p \notin gpu[d]
  /\ gpu' = [gpu EXCEPT ![d] = @ \cup {p}]
  /\ alive' = alive \cup {p}
  /\ unborn' = unborn \ {p}
  /\ arrived' = arrived \cup {p}

---------------------------------------------------------------------------
(* The sub-check *)

\* The call, from the table of check_nvidia_smi.  range(retry_count) may be
\* empty: nothing is read then.
RpStart(m) ==
  /\ rpc = "idle"
  /\ mode' = m
  /\ rpc' = IF m = "kill" /\ retry_count <= 0 THEN "decide" ELSE "attempt"
  /\ rexit' = OK
  /\ UNCHANGED <<retry_count, force_kill, attempt, dev, pids, rcode, outcomes, victims, waited,
                 killed>>

\* get_gpu_devices fails: the telemetry client does, or SLURM_JOB_GPUS is no
\* list of numbers, which nobody catches.
RpDevicesFail(m, code) ==
  /\ rpc = "idle"
  /\ mode' = m
  /\ rpc' = IF code = Raises THEN "crashed" ELSE "done"
  /\ rexit' = IF code = Raises THEN rexit ELSE code
  /\ UNCHANGED <<retry_count, force_kill, attempt, dev, pids, rcode, outcomes, victims, waited,
                 killed>>

(***************************************************************************)
(* attempt_check_running_procs, one device: an exception of the telemetry    *)
(* client leaves the pids of the device before.                             *)
(***************************************************************************)
ReadDevice ==
  /\ rpc \in {"attempt", "recheck"}
  /\ dev \in Device
  /\ dev' = dev + 1
  /\ pids' = gpu[dev]
  /\ rcode' = IF gpu[dev] \cap alive # {} THEN CRITICAL ELSE rcode
  /\ arrived' = IF dev = 1 THEN {} ELSE arrived
  /\ UNCHANGED <<retry_count, force_kill, rpc, mode, attempt, outcomes, victims, waited, killed,
                 rexit>>

ReadDeviceRaises(code) ==
  /\ rpc \in {"attempt", "recheck"}
  /\ dev \in Device
  /\ dev' = dev + 1
  /\ rcode' = Raise(rcode, code)
  /\ arrived' = IF dev = 1 THEN {} ELSE arrived
  /\ UNCHANGED <<retry_count, force_kill, rpc, mode, attempt, pids, outcomes, victims, waited,
                 killed, rexit>>

\* Mutant of AttemptEnds: what the first attempt finds is killed.
AttemptEndsKills ==
  /\ rpc = "attempt"
  /\ dev \notin Device
  /\ outcomes' = Append(outcomes, rcode)
  /\ rexit' = rcode
  /\ rpc' = IF mode = "kill" THEN "decide" ELSE "done"
  /\ UNCHANGED <<retry_count, force_kill, attempt, dev, pids, rcode, mode, victims, waited, killed>>

(***************************************************************************)
(* The end of an attempt: free, a warning if not at the first one; or the    *)
(* last one; or sleep and try again.  running_procs makes one.               *)
(***************************************************************************)
AttemptEnds ==
  /\ rpc = "attempt"
  /\ dev \notin Device
  /\ outcomes' = Append(outcomes, rcode)
  /\ IF mode = "check" \/ rcode = OK \/ attempt = retry_count - 1
     THEN /\ rexit' = IF rcode = OK /\ attempt # 0 THEN WARN ELSE rcode
          /\ rpc' = IF mode = "kill" THEN "decide" ELSE "done"
          /\ UNCHANGED <<attempt, dev, pids, rcode>>
     ELSE /\ attempt' = attempt + 1
          /\ dev' = 1
          /\ pids' = {}
          /\ rcode' = OK
          /\ UNCHANGED <<rexit, rpc>>
  /\ UNCHANGED <<retry_count, force_kill, mode, victims, waited, killed>>

(***************************************************************************)
(* "if force_kill_process and pids", and psutil.Process(pid) for each of     *)
(* them: one that is gone by now raises NoSuchProcess, outside of the try.   *)
(***************************************************************************)
Decide ==
  /\ rpc = "decide"
  /\ rpc' = IF ~force_kill \/ pids = {} THEN "done"
            ELSE IF pids \subseteq alive THEN "kill" ELSE "crashed"
  /\ victims' = IF rpc' = "kill" THEN pids ELSE {}
  /\ UNCHANGED <<retry_count, force_kill, mode, attempt, dev, pids, rcode, outcomes, waited, killed, rexit>>

(***************************************************************************)
(* kill_processes, one process: gone already; killed; in a state SIGKILL     *)
(* does not end; or not ours, which ends the killing.                        *)
(***************************************************************************)
Kill(p) ==
  /\ rpc = "kill"
  /\ p \in victims
  /\ victims' = victims \ {p}
  /\ waited' = waited \cup {p}
  /\ alive' = alive \ {p}
  /\ killed' = IF p \in alive THEN killed \cup {p} ELSE killed
  /\ UNCHANGED <<gpu, unborn, arrived, retry_count, force_kill, rpc, mode, attempt, dev, pids, rcode,
                 outcomes, rexit>>

KillUnheard(p) ==
  /\ rpc = "kill"
  /\ p \in victims \cap alive
  /\ victims' = victims \ {p}
  /\ waited' = waited \cup {p}
  /\ UNCHANGED <<procVars, retry_count, force_kill, rpc, mode, attempt, dev, pids, rcode, outcomes,
                 killed, rexit>>

KillDenied(p) ==
  /\ rpc = "kill"
  /\ p \in victims \cap alive
  /\ rpc' = "done"
  /\ rexit' = CRITICAL
  /\ UNCHANGED <<procVars, retry_count, force_kill, mode, attempt, dev, pids, rcode, outcomes,
                 victims, waited, killed>>

\* psutil.wait_procs, then all devices once more; `waited` keeps who is alive.
WaitProcs ==
  /\ rpc = "kill"
  /\ victims = {}
  /\ waited' = waited \cap alive
  /\ rpc' = "recheck"
  /\ dev' = 1
  /\ pids' = {}
  /\ rcode' = OK
  /\ UNCHANGED <<retry_count, force_kill, mode, attempt, outcomes, victims, killed, rexit>>

\* Mutant of RecheckEnds: the processes that were waited for are all there is.
RecheckVictimsOnly ==
  /\ rpc = "recheck"
  /\ dev \notin Device
  /\ rexit' = IF waited = {} THEN OK ELSE CRITICAL
  /\ rpc' = "done"
  /\ UNCHANGED <<retry_count, force_kill, mode, attempt, dev, pids, rcode, outcomes, victims, waited,
                 killed>>

\* "len(alive) == 0 and exit_code == ExitCode.OK".  A successful kill is OK and
\* not WARN as in running_procs_and_kill.md:28.
RecheckEnds ==
  /\ rpc = "recheck"
  /\ dev \notin Device
  /\ rexit' = IF waited = {} /\ rcode = OK THEN OK ELSE CRITICAL
  /\ rpc' = "done"
  /\ UNCHANGED <<retry_count, force_kill, mode, attempt, dev, pids, rcode, outcomes, victims, waited,
                 killed>>

\* What the sub-check does next.
RpStep ==
  \/ /\ ReadDevice \/ \E code \in {WARN, CRITICAL} : ReadDeviceRaises(code)
     /\ UNCHANGED <<gpu, alive, unborn>>
  \/ /\ AttemptEnds \/ Decide \/ WaitProcs \/ RecheckEnds
     /\ UNCHANGED procVars
  \/ \E p \in Pid : Kill(p) \/ KillUnheard(p) \/ KillDenied(p)

ProcStep ==
  \E p \in Pid :
    ProcExits(p) \/ DriverForgets(p) \/ ProcReleases(p) \/ \E d \in Device : ProcArrives(p, d)

---------------------------------------------------------------------------

\* Some attempt was made.
Attempted == mode = "check" \/ retry_count > 0

(***************************************************************************)
(* A verdict of OK means that the GPUs were free: whoever occupies a device  *)
(* came after the reading that decided had begun, however the reading of     *)
(* the devices, the retries, the kill of the last device's processes and     *)
(* the others' comings and goings were interleaved                          *)
(* (attempt_check_running_procs, kill_processes).  This takes a retry count  *)
(* of at least 1: with less nothing is read and the verdict is OK, although  *)
(* running_procs_and_kill.md:26 speaks of a first attempt                    *)
(* (check_and_kill_running_procs).                                          *)
(***************************************************************************)
OkMeansFree ==
  rpc = "done" /\ rexit = OK /\ Attempted => \A d \in Device : gpu[d] \cap alive \subseteq arrived

(***************************************************************************)
(* Killing is the last resort: a process is killed only by                   *)
(* running_procs_and_kill, when it was told to, after as many attempts as it *)
(* was told to make, none of which came out OK, and only if the last of them *)
(* listed it (check_and_kill_running_procs).  An attempt does not come out   *)
(* OK if it found a process alive or if a device could not be read.          *)
(***************************************************************************)
KillIsLastResort ==
  [][killed' # killed =>
       /\ force_kill /\ mode = "kill"
       /\ Len(outcomes) = retry_count
       /\ \A i \in 1..retry_count : outcomes[i] # OK
       /\ killed' \ killed \subseteq pids]_killed

=============================================================================
