--------------------------- MODULE NvidiaSmiProofs ---------------------------
(***************************************************************************)
(* check_nvidia_smi and check_dcgmi nvlink, for every number of devices,     *)
(* processes, attempts and selected sub-checks.                             *)
(*                                                                         *)
(* The first part is about running_procs: what an attempt has read of the    *)
(* devices stays true, but for the processes that arrive while it reads the  *)
(* others.  The second is about the loop over the sub-checks.                *)
(***************************************************************************)
EXTENDS NvidiaSmi, TLAPS

---------------------------------------------------------------------------
(* running_procs and running_procs_and_kill *)

Codes == {OK, WARN, CRITICAL}

Free(d) == gpu[d] \cap alive \subseteq arrived

RpTypeOK ==
  /\ gpu \in [Device -> SUBSET Pid]
  /\ alive \subseteq Pid
  /\ unborn \subseteq Pid
  /\ arrived \subseteq Pid
  /\ retry_count \in Int
  /\ force_kill \in BOOLEAN
  /\ rpc \in {"idle", "attempt", "decide", "kill", "recheck", "done", "crashed"}
  /\ mode \in {"check", "kill"}
  /\ attempt \in Nat
  /\ dev \in Nat \ {0}
  /\ pids \subseteq Pid
  /\ rcode \in Codes
  /\ outcomes \in Seq(Codes)
  /\ rexit \in Codes

\* Between two calls the local variables are as a call finds them.
Fresh == rpc = "idle" => attempt = 0 /\ dev = 1 /\ pids = {} /\ rcode = OK /\ outcomes = <<>>

\* Nobody has seen a process before it starts.
Unseen ==
  /\ unborn \cap alive = {} /\ unborn \cap pids = {}
  /\ \A d \in Device : unborn \cap gpu[d] = {}

(***************************************************************************)
(* An exit code that is still OK speaks of every device read so far, and one *)
(* of the whole sub-check of all the devices.                               *)
(***************************************************************************)
ReadIsFree ==
  /\ rpc \in {"attempt", "recheck"} /\ rcode = OK => \A d \in 1..(dev - 1) : d \in Device => Free(d)
  /\ rpc \in {"decide", "done"} /\ rexit = OK /\ Attempted => \A d \in Device : Free(d)

NoneOk == \A i \in 1..Len(outcomes) : outcomes[i] # OK

(***************************************************************************)
(* pids holds a process that lives only if the attempt has seen it alive,    *)
(* and running_procs_and_kill leaves its attempts with such a code only      *)
(* after the last of them.                                                  *)
(***************************************************************************)
KillIsEarned ==
  /\ rpc = "attempt" /\ pids \cap alive # {} => rcode # OK
  /\ rpc = "attempt" /\ mode = "kill" => retry_count > 0 /\ Len(outcomes) = attempt /\ NoneOk
  /\ rpc = "decide" => mode = "kill"
  /\ rpc = "decide" /\ pids \cap alive # {} => Len(outcomes) = retry_count /\ NoneOk
  /\ rpc = "kill" =>
       /\ force_kill /\ mode = "kill"
       /\ Len(outcomes) = retry_count /\ NoneOk
       /\ victims \subseteq pids

RpInv == RpTypeOK /\ Fresh /\ Unseen /\ ReadIsFree /\ KillIsEarned

\* Devices are numbered, and the one after the last is none.
LEMMA DevicesAreNumbers ==
  /\ Device \subseteq Nat
  /\ \A d \in Nat \ {0} : d \notin Device => \A e \in Device : e \in 1..(d - 1)
BY RunningProcsAssumption DEF Device

\* Raising by a warning or worse stays among the codes of the sub-check and is
\* not OK.
LEMMA RaiseAmongCodes ==
  ASSUME NEW a \in Codes, NEW b \in {WARN, CRITICAL}
  PROVE  Raise(a, b) \in Codes /\ Raise(a, b) # OK
BY DEF Raise, Gt, Codes, OK, WARN, CRITICAL, UNKNOWN

\* One more attempt that did not come out OK.
LEMMA OneMoreAttempt ==
  ASSUME outcomes \in Seq(Codes), NEW c \in Codes, c # OK, outcomes' = Append(outcomes, c)
  PROVE  /\ outcomes' \in Seq(Codes) /\ Len(outcomes') = Len(outcomes) + 1
         /\ NoneOk => NoneOk'
<1>1. /\ outcomes' \in Seq(Codes) /\ Len(outcomes') = Len(outcomes) + 1 /\ Len(outcomes) \in Nat
      /\ \A i \in 1..Len(outcomes) : outcomes'[i] = outcomes[i]
      /\ outcomes'[Len(outcomes) + 1] = c
  OBVIOUS
<1>2. ASSUME NoneOk, NEW i \in 1..Len(outcomes')
      PROVE  outcomes'[i] # OK
  <2>1. i \in 1..Len(outcomes) \/ i = Len(outcomes) + 1
    BY <1>1
  <2> QED
    BY <1>1, <1>2, <2>1 DEF NoneOk
<1> QED
  BY <1>1, <1>2 DEF NoneOk

\* Nothing has been read before running_procs_and_kill begins.
LEMMA RpInitInv == RpInit => RpInv
<1> SUFFICES ASSUME RpInit
             PROVE  RpInv
    OBVIOUS
<1>1. RpTypeOK
    BY RunningProcsAssumption DEF RpInit, RpTypeOK, Codes
<1>2. Unseen
    BY DEF RpInit, Unseen
<1> QED
    BY <1>1, <1>2 DEF RpInit, RpInv, Fresh, ReadIsFree, KillIsEarned

\* Processes go away, and whoever comes is known to have arrived.
LEMMA ProcStepInv == RpInv /\ ProcStep /\ UNCHANGED rpVars => RpInv'
<1> SUFFICES ASSUME RpInv, UNCHANGED rpVars, NEW p \in Pid,
                    \/ ProcExits(p) \/ DriverForgets(p) \/ ProcReleases(p)
                    \/ \E d \in Device : ProcArrives(p, d)
             PROVE  RpInv'
    BY DEF ProcStep
<1>0. RpTypeOK /\ Unseen
    BY DEF RpInv
<1>1. CASE \E d \in Device : ProcArrives(p, d)
    <2>1. PICK d \in Device : ProcArrives(p, d)
        BY <1>1
    <2>2. /\ p \in unborn \cup alive /\ alive' = alive \cup {p} /\ unborn' = unborn \ {p}
          /\ arrived' = arrived \cup {p}
          /\ gpu' \in [Device -> SUBSET Pid]
          /\ \A e \in Device : gpu'[e] = IF e = d THEN gpu[e] \cup {p} ELSE gpu[e]
        BY <1>0, <2>1 DEF ProcArrives, RpTypeOK
    <2>3. \A e \in Device : Free(e) => Free(e)'
        BY <2>2 DEF Free
    <2>4. RpTypeOK' /\ Fresh'
        BY <1>0, <2>2 DEF RpInv, RpTypeOK, Fresh, rpVars
    <2>5. Unseen'
        BY <1>0, <2>2 DEF Unseen, rpVars
    <2>6. ReadIsFree'
        BY <2>3 DEF RpInv, ReadIsFree, Attempted, rpVars
    <2>7. pids' \cap alive' # {} => pids \cap alive # {}
        BY <1>0, <2>2 DEF Unseen, rpVars
    <2>8. KillIsEarned'
        BY <2>7 DEF RpInv, KillIsEarned, NoneOk, rpVars
    <2> QED
        BY <2>4, <2>5, <2>6, <2>8 DEF RpInv
<1>2. CASE ProcExits(p) \/ DriverForgets(p) \/ ProcReleases(p)
    <2>1. /\ gpu' \in [Device -> SUBSET Pid]
          /\ alive' \subseteq alive /\ UNCHANGED <<unborn, arrived>>
          /\ \A d \in Device : gpu'[d] \subseteq gpu[d]
        BY <1>0, <1>2 DEF RpTypeOK, ProcExits, DriverForgets, ProcReleases
    <2>2. \A d \in Device : Free(d) => Free(d)'
        BY <2>1 DEF Free
    <2>3. RpTypeOK' /\ Fresh'
        BY <2>1, <1>0 DEF RpInv, RpTypeOK, Fresh, rpVars
    <2>4. ReadIsFree'
        BY <2>2 DEF RpInv, ReadIsFree, Attempted, rpVars
    <2>5. KillIsEarned'
        BY <2>1 DEF RpInv, KillIsEarned, NoneOk, rpVars
    <2>6. Unseen'
        BY <1>0, <2>1 DEF Unseen, rpVars
    <2> QED
        BY <2>3, <2>4, <2>5, <2>6 DEF RpInv
<1> QED
    BY <1>1, <1>2

\* Attempts, kill, wait and second reading keep the invariant, whatever
\* processes do.
LEMMA RpStepInv == RpInv /\ RpStep => RpInv'
<1> SUFFICES ASSUME RpInv, RpStep
             PROVE  RpInv'
    OBVIOUS
<1> USE DEF RpInv, RpTypeOK, Fresh, procVars
<1>1. CASE ReadDevice /\ UNCHANGED <<gpu, alive, unborn>>
    <2>1. /\ dev \in Device
          /\ pids' = gpu[dev]
          /\ rcode' = IF gpu[dev] \cap alive # {} THEN CRITICAL ELSE rcode
          /\ arrived' = IF dev = 1 THEN {} ELSE arrived
          /\ UNCHANGED <<retry_count, force_kill, rpc, mode, attempt, outcomes, rexit, gpu, alive, unborn>>
          /\ dev' = dev + 1
          /\ rpc \in {"attempt", "recheck"}
        BY <1>1 DEF ReadDevice
    <2>2. RpTypeOK' /\ Fresh' /\ Unseen'
        BY <2>1 DEF Codes, Unseen
    <2>3. ASSUME rcode' = OK, NEW d \in 1..(dev' - 1), d \in Device
          PROVE  Free(d)'
        <3>1. rcode = OK /\ gpu[dev] \cap alive = {}
            BY <2>1, <2>3 DEF OK, CRITICAL
        <3>2. (d \in 1..(dev - 1) /\ dev # 1) \/ d = dev
            BY <2>1
        <3> QED
            BY <3>1, <3>2, <2>1, <2>3 DEF ReadIsFree, Free
    <2>4. ReadIsFree'
        BY <2>1, <2>3 DEF ReadIsFree
    <2>5. KillIsEarned'
        BY <2>1 DEF KillIsEarned, NoneOk, OK, CRITICAL
    <2> QED
        BY <2>2, <2>4, <2>5
<1>2. ASSUME NEW c \in {WARN, CRITICAL}, ReadDeviceRaises(c), UNCHANGED <<gpu, alive, unborn>>
      PROVE  RpInv'
    <2>1. rcode' \in Codes /\ rcode' # OK
        BY <1>2, RaiseAmongCodes DEF ReadDeviceRaises
    <2>2. RpTypeOK' /\ Fresh' /\ Unseen'
        BY <1>2, <2>1, DevicesAreNumbers DEF ReadDeviceRaises, Unseen
    <2>3. ReadIsFree'
        BY <1>2, <2>1 DEF ReadDeviceRaises, ReadIsFree
    <2>4. KillIsEarned'
        BY <1>2, <2>1 DEF ReadDeviceRaises, KillIsEarned, NoneOk
    <2> QED
        BY <2>2, <2>3, <2>4
<1>3. CASE AttemptEnds /\ UNCHANGED procVars
    <2>0. /\ rpc = "attempt" /\ dev \notin Device /\ outcomes' = Append(outcomes, rcode)
          /\ outcomes' \in Seq(Codes)
          /\ UNCHANGED <<retry_count, force_kill, mode, gpu, alive, unborn, arrived>>
        BY <1>3 DEF AttemptEnds
    <2>1. CASE mode = "check" \/ rcode = OK \/ attempt = retry_count - 1
        <3>1. /\ rexit' = IF rcode = OK /\ attempt # 0 THEN WARN ELSE rcode
              /\ rpc' = IF mode = "kill" THEN "decide" ELSE "done"
              /\ UNCHANGED <<attempt, dev, pids, rcode>>
            BY <1>3, <2>1 DEF AttemptEnds
        <3>2. RpTypeOK' /\ Fresh' /\ Unseen'
            BY <2>0, <3>1 DEF Codes, Unseen
        <3>3. rcode = OK => \A d \in Device : Free(d)
            BY <2>0, DevicesAreNumbers DEF ReadIsFree
        <3>4. \A d \in Device : Free(d) => Free(d)'
            BY <2>0 DEF Free
        <3>5. ReadIsFree'
            BY <3>1, <3>3, <3>4 DEF ReadIsFree, OK, WARN
        <3>6. KillIsEarned'
            <4>1. rpc' # "attempt" /\ rpc' # "kill" /\ (rpc' = "decide" => mode' = "kill")
                BY <2>0, <3>1
            <4>2. ASSUME rpc' = "decide", pids' \cap alive' # {}
                  PROVE  Len(outcomes') = retry_count' /\ NoneOk'
                <5>1. rcode # OK /\ mode = "kill"
                    BY <2>0, <3>1, <4>2 DEF KillIsEarned
                <5>2. attempt = retry_count - 1 /\ Len(outcomes) = attempt /\ NoneOk
                    BY <2>0, <2>1, <5>1 DEF KillIsEarned
                <5>3. Len(outcomes') = Len(outcomes) + 1 /\ NoneOk'
                    BY <2>0, <5>1, <5>2, OneMoreAttempt
                <5> QED
                    BY <2>0, <5>2, <5>3
            <4> QED
                BY <4>1, <4>2 DEF KillIsEarned
        <3> QED
            BY <3>2, <3>5, <3>6
    <2>2. CASE ~(mode = "check" \/ rcode = OK \/ attempt = retry_count - 1)
        <3>1. /\ attempt' = attempt + 1 /\ dev' = 1 /\ pids' = {} /\ rcode' = OK
              /\ UNCHANGED <<rexit, rpc>>
            BY <1>3, <2>2 DEF AttemptEnds
        <3>2. mode = "kill" /\ rcode # OK /\ Len(outcomes) = attempt /\ NoneOk /\ retry_count > 0
            BY <2>0, <2>2 DEF KillIsEarned
        <3>3. Len(outcomes') = attempt' /\ NoneOk'
            BY <2>0, <3>1, <3>2, OneMoreAttempt
        <3>4. KillIsEarned'
            BY <2>0, <3>1, <3>2, <3>3 DEF KillIsEarned
        <3>5. RpTypeOK' /\ Fresh' /\ Unseen' /\ ReadIsFree'
            BY <2>0, <3>1 DEF Unseen, ReadIsFree, Codes
        <3> QED
            BY <3>4, <3>5
    <2> QED
        BY <2>1, <2>2
<1>4. CASE Decide /\ UNCHANGED procVars
    <2>1. /\ rpc = "decide" /\ rpc' \in {"done", "kill", "crashed"}
          /\ rpc' = "kill" => force_kill /\ pids # {} /\ pids \subseteq alive
          /\ victims' \subseteq pids
          /\ UNCHANGED <<retry_count, force_kill, mode, attempt, dev, pids, rcode, outcomes, waited,
                         killed, rexit, gpu, alive, unborn, arrived>>
        BY <1>4 DEF Decide
    <2>2. RpTypeOK' /\ Fresh' /\ Unseen'
        BY <2>1 DEF Unseen
    <2>3. ReadIsFree'
        BY <2>1 DEF ReadIsFree, Free, Attempted
    <2>4. KillIsEarned'
        BY <2>1 DEF KillIsEarned, NoneOk
    <2> QED
        BY <2>2, <2>3, <2>4
<1>5. CASE WaitProcs /\ UNCHANGED procVars
    <2>1. RpTypeOK' /\ Fresh' /\ Unseen'
        BY <1>5 DEF WaitProcs, Codes, Unseen
    <2>2. ReadIsFree' /\ KillIsEarned'
        BY <1>5 DEF WaitProcs, ReadIsFree, KillIsEarned
    <2> QED
        BY <2>1, <2>2
<1>6. CASE RecheckEnds /\ UNCHANGED procVars
    <2>1. RpTypeOK' /\ Fresh' /\ Unseen' /\ KillIsEarned'
        BY <1>6 DEF RecheckEnds, KillIsEarned, Codes, Unseen
    <2>2. \A d \in Device : Free(d) => Free(d)'
        BY <1>6 DEF Free
    <2>3. ReadIsFree'
        BY <1>6, <2>2, DevicesAreNumbers DEF RecheckEnds, ReadIsFree, OK, CRITICAL
    <2> QED
        BY <2>1, <2>3
<1>7. ASSUME NEW p \in Pid, Kill(p) \/ KillUnheard(p) \/ KillDenied(p)
      PROVE  RpInv'
    <2>1. /\ rpc = "kill" /\ rpc' \in {"kill", "done"} /\ alive' \subseteq alive
          /\ victims' \subseteq victims /\ rexit' \in Codes /\ (rpc' = "done" => rexit' # OK)
          /\ UNCHANGED <<gpu, unborn, arrived, retry_count, force_kill, mode, attempt, dev, pids,
                         rcode, outcomes>>
        BY <1>7 DEF Kill, KillUnheard, KillDenied, Codes, OK, CRITICAL
    <2>2. RpTypeOK' /\ Fresh' /\ Unseen'
        BY <2>1 DEF Unseen
    <2>3. ReadIsFree' /\ KillIsEarned'
        BY <2>1 DEF ReadIsFree, KillIsEarned, NoneOk
    <2> QED
        BY <2>2, <2>3
<1> QED
    BY <1>1, <1>2, <1>3, <1>4, <1>5, <1>6, <1>7 DEF RpStep

---------------------------------------------------------------------------
(* The verdicts of the other sub-checks *)

\* A check as the loop over the sub-checks needs it.
Sound(c) == c.items = {1} /\ \A o \in DOMAIN c.verdict : c.verdict[o] \in Verdicts

\* A graded verdict and that of a telemetry exception are verdicts.
LEMMA SmallVerdicts ==
  /\ \A b, w \in BOOLEAN : Graded(b, w) \in Verdicts
  /\ \A e : handle_device_telemetry_exception(e) \in Verdicts
  /\ OK \in Verdicts /\ WARN \in Verdicts
BY DEF Graded, handle_device_telemetry_exception, handle_pynvml_error, Verdicts, ExitCode

\* A set of verdicts with OK in it has a worst one.
LEMMA WorstIsVerdict ==
  ASSUME NEW codes, codes \subseteq Verdicts
  PROVE  WorstOf(OK, codes) \in Verdicts
<1> DEFINE C == codes \cup {OK}
<1>1. C \subseteq Verdicts
    BY DEF Verdicts, ExitCode
<1>2. \E w \in C : \A c \in C : ~ Gt(c, w)
    <2>1. CASE CRITICAL \in C
        BY <2>1, <1>1 DEF Gt, Verdicts, ExitCode, OK, WARN, CRITICAL, UNKNOWN, Raises
    <2>2. CASE CRITICAL \notin C /\ WARN \in C
        BY <2>2, <1>1 DEF Gt, Verdicts, ExitCode, OK, WARN, CRITICAL, UNKNOWN, Raises
    <2>3. CASE CRITICAL \notin C /\ WARN \notin C
        <3>1. OK \in C
            OBVIOUS
        <3> QED
            BY <2>3, <3>1, <1>1 DEF Gt, Verdicts, ExitCode, OK, WARN, CRITICAL, UNKNOWN, Raises
    <2> QED
        BY <2>1, <2>2, <2>3
<1> QED
    BY <1>1, <1>2 DEF WorstOf

\* Every sub-check but nvlink_errors and the two of RunningProcs.
LEMMA SubChecksAreSound ==
  \A s \in DOMAIN SubChecks : s # "nvlink_errors" => Sound(SubChecks[s])
<1> USE DEF Sound, Check, Once, Graded, Verdicts, ExitCode
<1>1. Sound(check_gpu_num(1))
    BY SmallVerdicts DEF check_gpu_num
<1>2. Sound(check_app_clock_freq(1))
    BY WorstIsVerdict, SmallVerdicts DEF DeviceLoop, check_app_clock_freq
<1>3. Sound(check_clock_policy(1, 2))
    BY WorstIsVerdict, SmallVerdicts DEF DeviceLoop, check_clock_policy,
       evaluate_clock_policy
<1>4. Sound(check_gpu_temp(1))
    BY WorstIsVerdict, SmallVerdicts DEF DeviceLoop, check_gpu_temp, Above
<1>5. Sound(check_mem_usage(0))
    BY WorstIsVerdict, SmallVerdicts DEF DeviceLoop, check_mem_usage, Above
<1>6. Sound(check_retired_pages(0))
    BY WorstIsVerdict, SmallVerdicts DEF DeviceLoop, check_retired_pages
<1>7. Sound(check_ecc_uncorrected_volatile_total(0))
    BY WorstIsVerdict, SmallVerdicts DEF DeviceLoop,
       check_ecc_uncorrected_volatile_total, Above
<1>8. Sound(check_ecc_corrected_volatile_total(1))
    BY WorstIsVerdict, SmallVerdicts DEF DeviceLoop,
       check_ecc_corrected_volatile_total, Above
<1>9. Sound(check_vbios_mismatch(0))
    <2> SUFFICES ASSUME NEW o \in Telemetry(1..2)
                 PROVE  check_vbios_mismatch(0).verdict[o] \in Verdicts
        BY DEF check_vbios_mismatch
    <2> DEFINE read     == {i \in DOMAIN o.readings : o.readings[i] > 0}
               first    == CHOOSE i \in read : \A j \in read : i <= j
               expected == IF read = {} THEN 0 ELSE o.readings[first]
               codes    == {IF r < 0 THEN handle_device_telemetry_exception(r)
                            ELSE Graded(r # expected, FALSE)
                              : r \in {o.readings[i] : i \in DOMAIN o.readings}}
    <2>1. check_vbios_mismatch(0).verdict[o] =
            IF o.count < 0 THEN handle_device_telemetry_exception(o.count)
            ELSE WorstOf(OK, codes)
        BY DEF check_vbios_mismatch, DeviceLoop
    <2>2. codes \subseteq Verdicts
        <3> HIDE DEF expected, Graded, Verdicts
        <3> QED
            BY SmallVerdicts
    <2> HIDE DEF codes, Graded, Verdicts
    <2> QED
        BY <2>1, <2>2, WorstIsVerdict, SmallVerdicts
<1>10. Sound(check_row_remap)
    BY WorstIsVerdict, SmallVerdicts DEF DeviceLoop, check_row_remap
<1>11. Sound(check_row_remap_pending)
    BY WorstIsVerdict, SmallVerdicts DEF DeviceLoop, check_row_remap_pending
<1>12. Sound(check_row_remap_failed)
    BY WorstIsVerdict, SmallVerdicts DEF DeviceLoop, check_row_remap_failed
<1>13. Sound(nvlink_status)
    BY DEF nvlink_status, process_nvlink_status_output
<1> HIDE DEF Sound, Check, Once, Graded, Verdicts, ExitCode
<1> QED
    BY <1>1, <1>2, <1>3, <1>4, <1>5, <1>6, <1>7, <1>8, <1>9, <1>10, <1>11, <1>12,
       <1>13 DEF SubChecks

\* nvlink_errors turns every exception into a warning.
LEMMA NvlinkErrorsIsSound ==
  /\ SubChecks["nvlink_errors"].items \subseteq Nat
  /\ \A o \in DOMAIN SubChecks["nvlink_errors"].verdict :
       SubChecks["nvlink_errors"].verdict[o] \in ExitCode
<1>1. SubChecks["nvlink_errors"] = nvlink_errors
    BY DEF SubChecks
<1>2. \A o : process_dcgmi_nvlink_error_output(o, NvlinkThresholds) \in Verdicts
    BY DEF process_dcgmi_nvlink_error_output, Graded, Verdicts, ExitCode
<1>3. \A o \in DOMAIN nvlink_errors.verdict : nvlink_errors.verdict[o] \in ExitCode
    BY <1>2 DEF nvlink_errors, Check, Verdicts, ExitCode
<1>4. nvlink_errors.items \subseteq Nat
    BY DEF nvlink_errors, Check, AnyNumber, MaxItems
<1> QED
    BY <1>1, <1>3, <1>4

\* The tables of the commands name no sub-check twice.
LEMMA PlanFacts ==
  ASSUME NEW c
  PROVE  /\ Len(Plan(c)) \in Nat
         /\ DOMAIN Plan(c) = 1..Len(Plan(c))
         /\ \A i, j \in DOMAIN Plan(c) : Plan(c)[i] = Plan(c)[j] => i = j
         /\ \A i \in DOMAIN Plan(c) :
              /\ Plan(c)[i] \in DOMAIN SubChecks \cup RpNames
              /\ Plan(c)[i] # "nvidia_smi"
<1>1. CASE c = "nvlink"
    BY <1>1 DEF Plan, SubChecks
<1>2. CASE c # "nvlink"
    <2> DEFINE P == <<"gpu_num", "clock_freq", "clock_policy", "running_procs",
                      "running_procs_and_kill", "gpu_temperature", "gpu_mem_usage",
                      "gpu_retired_pages", "ecc_uncorrected_volatile_total",
                      "ecc_corrected_volatile_total", "vbios_mismatch", "row_remap",
                      "row_remap_pending", "row_remap_failed">>
    <2>1. Plan(c) = P
        BY <1>2 DEF Plan
    <2>2. Len(P) = 14 /\ DOMAIN P = 1..14
        OBVIOUS
    <2>3. \A i, j \in 1..14 : P[i] = P[j] => i = j
        OBVIOUS
    <2>4. \A i \in 1..14 : P[i] \in DOMAIN SubChecks \cup RpNames /\ P[i] # "nvidia_smi"
        BY DEF SubChecks, RpNames
    <2> QED
        BY <2>1, <2>2, <2>3, <2>4
<1> QED
    BY <1>1, <1>2

---------------------------------------------------------------------------
(* The loop over the sub-checks *)

SmiTypeOK ==
  /\ phase \in {"start", "subchecks", "items", "procs", "closing", "unwinding", "ended"}
  /\ at \in 1..(Len(Plan(cmd)) + 1)
  /\ phase \in {"items", "procs", "closing"} => at \in DOMAIN Plan(cmd)
  /\ phase = "items" => Current \in DOMAIN SubChecks
  /\ left \in Nat
  /\ code \in ExitCode
  /\ overall \in ExitCode
  /\ exc \in {"none", "SystemExit", "Exception"}
  /\ seen \subseteq (DOMAIN SubChecks \cup RpNames) \X Verdicts

Entered(s) == \E i \in DOMAIN Plan(cmd) : i < at /\ Plan(cmd)[i] = s

(***************************************************************************)
(* Where the loop is: what was recorded, and what was switched off, is       *)
(* before the current sub-check; no exception is under way inside of it.     *)
(***************************************************************************)
LoopOrder ==
  /\ \A s \in DOMAIN records : s = "nvidia_smi" \/ Entered(s)
  /\ \A s \in off : Entered(s) \/ (phase = "closing" /\ s = Current)
  /\ phase = "start" => seen = {} /\ off = {}
  /\ phase \in {"start", "subchecks", "items", "procs"} => exc = "none"
  /\ phase = "unwinding" => exc # "none"

(***************************************************************************)
(* What TelemetryContext will record of the current sub-check.               *)
(***************************************************************************)
Answered ==
  IF Current \in off THEN code = OK
  ELSE \/ <<Current, code>> \in seen
       \/ <<Current, Raises>> \in seen /\ code = UNKNOWN

CurrentVerdict ==
  /\ phase = "items" /\ Current # "nvlink_errors" =>
       \/ left = 1 /\ code = UNKNOWN
       \/ left = 0 /\ <<Current, code>> \in seen
  /\ phase = "closing" /\ Current # "nvlink_errors" => Answered
  /\ phase = "procs" => code = UNKNOWN

\* A sub-check that crashed is the last one the loop entered.
CrashIsLast ==
  \A i \in DOMAIN Plan(cmd) : <<Plan(cmd)[i], Raises>> \in seen =>
    /\ exc = "Exception"
    /\ \/ phase = "closing" /\ i = at /\ code = UNKNOWN
       \/ /\ phase \in {"unwinding", "ended"}
          /\ i + 1 = at
          /\ Plan(cmd)[i] \in DOMAIN records => records[Plan(cmd)[i]] = UNKNOWN

\* Every crash in `seen` is one of a sub-check of the table.
SeenIsPlanned == \A x \in seen : \E i \in DOMAIN Plan(cmd) : Plan(cmd)[i] = x[1]

\* The overall verdict is never below one of an item.
OverallIsWorst ==
  exc # "Exception" /\ ~(cmd = "nvlink" /\ off # {}) =>
    \A x \in seen : ~ Gt(x[2], overall)

\* The reports of a command that has ended.
Reported ==
  /\ Ended /\ exc = "SystemExit" => printed = overall /\ status = overall
  /\ Ended /\ exc # "SystemExit" => status # OK

SmiInv ==
  /\ SmiTypeOK
  /\ LoopOrder
  /\ CurrentVerdict
  /\ RecordsAreOwnVerdicts
  /\ CrashIsLast
  /\ SeenIsPlanned
  /\ OverallIsWorst
  /\ Reported

\* The invariant holds before the first sub-check.
LEMMA SmiInitInv == Init => SmiInv
<1> SUFFICES ASSUME Init
             PROVE  SmiInv
    OBVIOUS
<1>1. /\ cmd \in {"nvidia_smi", "nvlink"}
      /\ phase = IF cmd = "nvlink" THEN "subchecks" ELSE "start"
      /\ at = 1 /\ left = 0 /\ code = UNKNOWN /\ overall = UNKNOWN /\ seen = {}
      /\ off = {} /\ records = << >> /\ exc = "none" /\ status = None
    BY DEF Init
<1>2. at \in 1..(Len(Plan(cmd)) + 1)
    BY <1>1, PlanFacts
<1>3. DOMAIN records = {}
    BY <1>1
<1> QED
    BY <1>1, <1>2, <1>3 DEF SmiInv, SmiTypeOK, LoopOrder, CurrentVerdict,
       RecordsAreOwnVerdicts, CrashIsLast, SeenIsPlanned, OverallIsWorst, Reported, Ended,
       ExitCode

\* An overall verdict that is raised is not below what it was raised by.
LEMMA RaiseIsWorst ==
  ASSUME NEW a \in ExitCode, NEW b \in ExitCode
  PROVE  /\ Raise(a, b) \in ExitCode
         /\ ~ Gt(b, Raise(a, b))
         /\ \A c \in Verdicts : ~ Gt(c, a) => ~ Gt(c, Raise(a, b))
BY DEF Raise, Gt, ExitCode, Verdicts, OK, WARN, CRITICAL, UNKNOWN, Raises

\* What NvmlInitFails makes of an error.
LEMMA NvmlErrorIsCode ==
  ASSUME NEW e
  PROVE  handle_pynvml_error(e) \in ExitCode /\ handle_pynvml_error(e) # OK
BY DEF handle_pynvml_error, ExitCode, OK, WARN, CRITICAL

\* The killswitch of the command keeps the invariant.
LEMMA NvidiaSmiKillswitchInv ==
  ASSUME SmiInv, NEW f \in {"off", "on", "raises"}, NvidiaSmiKillswitch(f)
  PROVE  SmiInv'
<1> USE DEF SmiInv, NvidiaSmiKillswitch, Selected, Current, Entered, Ended
<1>1. SmiTypeOK'
    BY PlanFacts DEF SmiTypeOK, LoopOrder, ExitCode
<1>2. LoopOrder'
    BY PlanFacts DEF LoopOrder, SmiTypeOK
<1>3. CurrentVerdict'
    BY DEF CurrentVerdict, SmiTypeOK, LoopOrder
<1>4. RecordsAreOwnVerdicts'
    BY PlanFacts DEF RecordsAreOwnVerdicts, SmiTypeOK, LoopOrder
<1>5. CrashIsLast'
    BY PlanFacts DEF CrashIsLast, SmiTypeOK, LoopOrder
<1>6. SeenIsPlanned'
    BY PlanFacts DEF SeenIsPlanned, SmiTypeOK, LoopOrder
<1>7. OverallIsWorst'
    BY DEF OverallIsWorst, SmiTypeOK, LoopOrder
<1>8. Reported'
    BY DEF Reported, SmiTypeOK, LoopOrder
<1> QED
    BY <1>1, <1>2, <1>3, <1>4, <1>5, <1>6, <1>7, <1>8

\* A sub-check that was not asked for keeps the invariant.
LEMMA SubCheckSkippedInv ==
  ASSUME SmiInv, SubCheckSkipped
  PROVE  SmiInv'
<1> USE DEF SmiInv, SubCheckSkipped, Selected, Current, Entered, Ended
<1>1. SmiTypeOK'
    BY PlanFacts DEF SmiTypeOK, LoopOrder
<1>2. LoopOrder'
    BY PlanFacts DEF LoopOrder, SmiTypeOK
<1>3. CurrentVerdict'
    BY DEF CurrentVerdict, SmiTypeOK, LoopOrder
<1>4. RecordsAreOwnVerdicts'
    BY PlanFacts DEF RecordsAreOwnVerdicts, SmiTypeOK, LoopOrder
<1>5. CrashIsLast'
    BY PlanFacts DEF CrashIsLast, SmiTypeOK, LoopOrder
<1>6. SeenIsPlanned'
    BY PlanFacts DEF SeenIsPlanned, SmiTypeOK, LoopOrder
<1>7. OverallIsWorst'
    BY DEF OverallIsWorst, SmiTypeOK, LoopOrder
<1>8. Reported'
    BY DEF Reported, SmiTypeOK, LoopOrder
<1> QED
    BY <1>1, <1>2, <1>3, <1>4, <1>5, <1>6, <1>7, <1>8

\* A sub-check that is switched off keeps the invariant.
LEMMA SubCheckOffInv ==
  ASSUME SmiInv, SubCheckOff
  PROVE  SmiInv'
<1> USE DEF SmiInv, SubCheckOff, Selected, Current, Entered, Ended
<1>0. Raise(overall, OK) \in ExitCode /\ \A x \in seen : ~ Gt(x[2], overall) => ~ Gt(x[2], Raise(overall, OK))
    BY RaiseIsWorst DEF SmiTypeOK, ExitCode
<1>1. SmiTypeOK'
    BY <1>0, PlanFacts DEF SmiTypeOK, LoopOrder, ExitCode
<1>2. LoopOrder'
    BY PlanFacts DEF LoopOrder, SmiTypeOK
<1>3. CurrentVerdict'
    BY DEF CurrentVerdict, SmiTypeOK, LoopOrder, Answered
<1>4. RecordsAreOwnVerdicts'
    BY PlanFacts DEF RecordsAreOwnVerdicts, SmiTypeOK, LoopOrder
<1>5. CrashIsLast'
    BY PlanFacts DEF CrashIsLast, SmiTypeOK, LoopOrder
<1>6. SeenIsPlanned'
    BY PlanFacts DEF SeenIsPlanned, SmiTypeOK, LoopOrder
<1>7. OverallIsWorst'
    BY <1>0 DEF OverallIsWorst, SmiTypeOK, LoopOrder
<1>8. Reported'
    BY DEF Reported, SmiTypeOK, LoopOrder
<1> QED
    BY <1>1, <1>2, <1>3, <1>4, <1>5, <1>6, <1>7, <1>8

\* An exception of the feature flag keeps the invariant.
LEMMA SubCheckFlagRaisesInv ==
  ASSUME SmiInv, SubCheckFlagRaises
  PROVE  SmiInv'
<1> USE DEF SmiInv, SubCheckFlagRaises, Selected, Current, Entered, Ended
<1>1. SmiTypeOK'
    BY PlanFacts DEF SmiTypeOK, LoopOrder, ExitCode, Verdicts
<1>2. LoopOrder'
    BY PlanFacts DEF LoopOrder, SmiTypeOK
<1>3. CurrentVerdict'
    BY PlanFacts DEF CurrentVerdict, SmiTypeOK, LoopOrder, Answered
<1>4. RecordsAreOwnVerdicts'
    BY PlanFacts DEF RecordsAreOwnVerdicts, SmiTypeOK, LoopOrder
<1>5. CrashIsLast'
    BY PlanFacts DEF CrashIsLast, SmiTypeOK, LoopOrder
<1>6. SeenIsPlanned'
    BY PlanFacts DEF SeenIsPlanned, SmiTypeOK, LoopOrder
<1>7. OverallIsWorst'
    BY DEF OverallIsWorst, SmiTypeOK, LoopOrder
<1>8. Reported'
    BY DEF Reported, SmiTypeOK, LoopOrder
<1> QED
    BY <1>1, <1>2, <1>3, <1>4, <1>5, <1>6, <1>7, <1>8

\* The begin of a sub-check keeps the invariant.
LEMMA SubCheckBeginsInv ==
  ASSUME SmiInv, SubCheckBegins
  PROVE  SmiInv'
<1> USE DEF SmiInv, SubCheckBegins, Selected, Current, Entered, Ended
<1>1. SmiTypeOK'
    BY PlanFacts, SubChecksAreSound, NvlinkErrorsIsSound DEF SmiTypeOK, LoopOrder, ExitCode, Sound
<1>2. LoopOrder'
    BY PlanFacts DEF LoopOrder, SmiTypeOK
<1>3. CurrentVerdict'
    BY PlanFacts, SubChecksAreSound DEF CurrentVerdict, SmiTypeOK, LoopOrder, Sound
<1>4. RecordsAreOwnVerdicts'
    BY PlanFacts DEF RecordsAreOwnVerdicts, SmiTypeOK, LoopOrder
<1>5. CrashIsLast'
    BY PlanFacts DEF CrashIsLast, SmiTypeOK, LoopOrder
<1>6. SeenIsPlanned'
    BY PlanFacts DEF SeenIsPlanned, SmiTypeOK, LoopOrder
<1>7. OverallIsWorst'
    BY DEF OverallIsWorst, SmiTypeOK, LoopOrder
<1>8. Reported'
    BY DEF Reported, SmiTypeOK, LoopOrder
<1> QED
    BY <1>1, <1>2, <1>3, <1>4, <1>5, <1>6, <1>7, <1>8

\* The end of the items of a sub-check keeps the invariant.
LEMMA SubCheckDoneInv ==
  ASSUME SmiInv, SubCheckDone
  PROVE  SmiInv'
<1> USE DEF SmiInv, SubCheckDone, Selected, Current, Entered, Ended
<1>1. SmiTypeOK'
    BY PlanFacts DEF SmiTypeOK, LoopOrder
<1>2. LoopOrder'
    BY PlanFacts DEF LoopOrder, SmiTypeOK
<1>3. CurrentVerdict'
    BY PlanFacts DEF CurrentVerdict, SmiTypeOK, LoopOrder, Answered
<1>4. RecordsAreOwnVerdicts'
    BY PlanFacts DEF RecordsAreOwnVerdicts, SmiTypeOK, LoopOrder
<1>5. CrashIsLast'
    BY PlanFacts DEF CrashIsLast, SmiTypeOK, LoopOrder
<1>6. SeenIsPlanned'
    BY PlanFacts DEF SeenIsPlanned, SmiTypeOK, LoopOrder
<1>7. OverallIsWorst'
    BY DEF OverallIsWorst, SmiTypeOK, LoopOrder
<1>8. Reported'
    BY DEF Reported, SmiTypeOK, LoopOrder
<1> QED
    BY <1>1, <1>2, <1>3, <1>4, <1>5, <1>6, <1>7, <1>8

\* The way out of the body, by the end of the loop or an exception, keeps it.
LEMMA UnwindsInv ==
  ASSUME SmiInv, Unwinds
  PROVE  SmiInv'
<1> USE DEF SmiInv, Unwinds, Selected, Current, Entered, Ended
<1>1. SmiTypeOK'
    BY PlanFacts DEF SmiTypeOK, LoopOrder
<1>2. LoopOrder'
    BY PlanFacts DEF LoopOrder, SmiTypeOK
<1>3. CurrentVerdict'
    BY DEF CurrentVerdict, SmiTypeOK, LoopOrder
<1>4. RecordsAreOwnVerdicts'
    BY PlanFacts DEF RecordsAreOwnVerdicts, SmiTypeOK, LoopOrder
<1>5. CrashIsLast'
    BY PlanFacts DEF CrashIsLast, SmiTypeOK, LoopOrder
<1>6. SeenIsPlanned'
    BY PlanFacts DEF SeenIsPlanned, SmiTypeOK, LoopOrder
<1>7. OverallIsWorst'
    BY DEF OverallIsWorst, SmiTypeOK, LoopOrder
<1>8. Reported'
    BY DEF Reported, SmiTypeOK, LoopOrder, OK
<1> QED
    BY <1>1, <1>2, <1>3, <1>4, <1>5, <1>6, <1>7, <1>8

\* The sink after a record of sub-check s.
LEMMA RecordedFacts ==
  ASSUME NEW s, NEW v
  PROVE  /\ DOMAIN Recorded(s, v) \subseteq DOMAIN records \cup {s}
         /\ s \in DOMAIN Recorded(s, v) /\ s \notin DOMAIN records => Recorded(s, v)[s] = v
         /\ \A t \in DOMAIN Recorded(s, v) :
              t # s => t \in DOMAIN records /\ Recorded(s, v)[t] = records[t]
BY DEF Recorded

\* A failing nvmlInit keeps the invariant.
LEMMA NvmlInitFailsInv ==
  ASSUME SmiInv, NEW e \in {NvmlError, NvmlLost}, NvmlInitFails(e)
  PROVE  SmiInv'
<1> USE DEF SmiInv, NvmlInitFails, Selected, Current, Entered, Ended
<1>1. SmiTypeOK'
    BY NvmlErrorIsCode, PlanFacts DEF SmiTypeOK, LoopOrder
<1>2. LoopOrder'
    BY RecordedFacts DEF LoopOrder, SmiTypeOK
<1>3. CurrentVerdict'
    BY DEF CurrentVerdict, SmiTypeOK, LoopOrder
<1>4. RecordsAreOwnVerdicts'
    BY RecordedFacts DEF RecordsAreOwnVerdicts, SmiTypeOK, LoopOrder
<1>5. CrashIsLast'
    BY RecordedFacts DEF CrashIsLast, SmiTypeOK, LoopOrder
<1>6. SeenIsPlanned'
    BY PlanFacts DEF SeenIsPlanned, SmiTypeOK, LoopOrder
<1>7. OverallIsWorst'
    BY DEF OverallIsWorst, SmiTypeOK, LoopOrder
<1>8. Reported'
    BY NvmlErrorIsCode DEF Reported, SmiTypeOK, LoopOrder, OK
<1> QED
    BY <1>1, <1>2, <1>3, <1>4, <1>5, <1>6, <1>7, <1>8

\* An item of a sub-check keeps the invariant.
LEMMA SubCheckItemInv ==
  ASSUME SmiInv, NEW o \in DOMAIN SubChecks[Current].verdict, SubCheckItem(o)
  PROVE  SmiInv'
<1> USE DEF SmiInv, SubCheckItem, Selected, Current, Entered, Ended
<1>0. /\ SubChecks[Current].verdict[o] \in Verdicts
      /\ Current = "nvlink_errors" => SubChecks[Current].verdict[o] \in ExitCode
    BY SubChecksAreSound, NvlinkErrorsIsSound DEF Sound, SmiTypeOK, Verdicts
<1>1. SmiTypeOK'
    BY <1>0, RaiseIsWorst, PlanFacts DEF SmiTypeOK, LoopOrder, Verdicts, ExitCode
<1>2. LoopOrder'
    BY PlanFacts DEF LoopOrder, SmiTypeOK
<1>3. CurrentVerdict'
    <2>1. Current \notin off
        BY PlanFacts DEF LoopOrder, SmiTypeOK
    <2> QED
        BY <1>0, <2>1 DEF CurrentVerdict, SmiTypeOK, LoopOrder, Answered
<1>4. RecordsAreOwnVerdicts'
    BY PlanFacts DEF RecordsAreOwnVerdicts, SmiTypeOK, LoopOrder
<1>5. CrashIsLast'
    BY <1>0, PlanFacts DEF CrashIsLast, SmiTypeOK, LoopOrder, CurrentVerdict, ExitCode, OK, WARN, CRITICAL, UNKNOWN, Raises
<1>6. SeenIsPlanned'
    BY PlanFacts DEF SeenIsPlanned, SmiTypeOK, LoopOrder
<1>7. OverallIsWorst'
    BY <1>0, RaiseIsWorst DEF OverallIsWorst, SmiTypeOK, LoopOrder, Verdicts
<1>8. Reported'
    BY DEF Reported, SmiTypeOK, LoopOrder
<1> QED
    BY <1>1, <1>2, <1>3, <1>4, <1>5, <1>6, <1>7, <1>8

\* The call of running_procs_and_kill keeps the invariant.
LEMMA RunningProcsBeginsInv ==
  ASSUME SmiInv, RunningProcsBegins
  PROVE  SmiInv'
<1> USE DEF SmiInv, RunningProcsBegins, Selected, Current, Entered, Ended
<1>1. SmiTypeOK'
    BY PlanFacts DEF SmiTypeOK, LoopOrder, ExitCode
<1>2. LoopOrder'
    BY PlanFacts DEF LoopOrder, SmiTypeOK
<1>3. CurrentVerdict'
    BY DEF CurrentVerdict, SmiTypeOK, LoopOrder
<1>4. RecordsAreOwnVerdicts'
    BY PlanFacts DEF RecordsAreOwnVerdicts, SmiTypeOK, LoopOrder
<1>5. CrashIsLast'
    BY PlanFacts DEF CrashIsLast, SmiTypeOK, LoopOrder
<1>6. SeenIsPlanned'
    BY PlanFacts DEF SeenIsPlanned, SmiTypeOK, LoopOrder
<1>7. OverallIsWorst'
    BY DEF OverallIsWorst, SmiTypeOK, LoopOrder
<1>8. Reported'
    BY DEF Reported, SmiTypeOK, LoopOrder
<1> QED
    BY <1>1, <1>2, <1>3, <1>4, <1>5, <1>6, <1>7, <1>8

\* What running_procs_and_kill returns keeps the invariant.
LEMMA RunningProcsReturnsInv ==
  ASSUME SmiInv, RunningProcsReturns, RpInv
  PROVE  SmiInv'
<1> USE DEF SmiInv, RunningProcsReturns, Selected, Current, Entered, Ended
<1>0. rexit \in ExitCode
    BY DEF RpInv, RpTypeOK, Codes, ExitCode
<1>1. SmiTypeOK'
    BY <1>0, RaiseIsWorst, PlanFacts DEF SmiTypeOK, LoopOrder, Verdicts
<1>2. LoopOrder'
    BY PlanFacts DEF LoopOrder, SmiTypeOK
<1>3. CurrentVerdict'
    BY PlanFacts DEF CurrentVerdict, SmiTypeOK, LoopOrder, Answered
<1>4. RecordsAreOwnVerdicts'
    BY PlanFacts DEF RecordsAreOwnVerdicts, SmiTypeOK, LoopOrder
<1>5. CrashIsLast'
    BY <1>0, PlanFacts DEF CrashIsLast, SmiTypeOK, LoopOrder, CurrentVerdict, ExitCode, OK, WARN, CRITICAL, UNKNOWN, Raises
<1>6. SeenIsPlanned'
    BY PlanFacts DEF SeenIsPlanned, SmiTypeOK, LoopOrder
<1>7. OverallIsWorst'
    BY <1>0, RaiseIsWorst DEF OverallIsWorst, SmiTypeOK, LoopOrder, Verdicts
<1>8. Reported'
    BY DEF Reported, SmiTypeOK, LoopOrder
<1> QED
    BY <1>1, <1>2, <1>3, <1>4, <1>5, <1>6, <1>7, <1>8

\* The record of a sub-check keeps the invariant.
LEMMA SubCheckClosedInv ==
  ASSUME SmiInv, SubCheckClosed
  PROVE  SmiInv'
<1> USE DEF SmiInv, SubCheckClosed, Selected, Current, Entered, Ended
<1>0. Current \notin DOMAIN records
    BY PlanFacts DEF LoopOrder, SmiTypeOK
<1>1. SmiTypeOK'
    BY PlanFacts DEF SmiTypeOK, LoopOrder
<1>2. LoopOrder'
    BY PlanFacts, RecordedFacts DEF LoopOrder, SmiTypeOK
<1>3. CurrentVerdict'
    BY DEF CurrentVerdict, SmiTypeOK, LoopOrder
<1>4. RecordsAreOwnVerdicts'
    BY <1>0, RecordedFacts, PlanFacts DEF RecordsAreOwnVerdicts, SmiTypeOK, LoopOrder, CurrentVerdict, Answered
<1>5. CrashIsLast'
    BY <1>0, RecordedFacts, PlanFacts DEF CrashIsLast, SmiTypeOK, LoopOrder
<1>6. SeenIsPlanned'
    BY PlanFacts DEF SeenIsPlanned, SmiTypeOK, LoopOrder
<1>7. OverallIsWorst'
    BY DEF OverallIsWorst, SmiTypeOK, LoopOrder
<1>8. Reported'
    BY DEF Reported, SmiTypeOK, LoopOrder
<1> QED
    BY <1>1, <1>2, <1>3, <1>4, <1>5, <1>6, <1>7, <1>8

\* A step that leaves the loop over the sub-checks alone keeps its invariant.
LEMMA SmiUnchangedInv == SmiInv /\ UNCHANGED smiVars => SmiInv'
BY DEF SmiInv, smiVars, SmiTypeOK, LoopOrder, CurrentVerdict, RecordsAreOwnVerdicts,
   CrashIsLast, SeenIsPlanned, OverallIsWorst, Reported, Ended, Entered, Current, Answered

---------------------------------------------------------------------------
(* The command *)

\* A step that leaves running_procs_and_kill alone keeps its invariant.
LEMMA RpUnchangedInv == RpInv /\ UNCHANGED <<procVars, rpVars>> => RpInv'
BY DEF RpInv, RpTypeOK, Fresh, Unseen, ReadIsFree, KillIsEarned, NoneOk, Attempted, Free, procVars, rpVars

\* Its call starts running_procs_and_kill afresh.
LEMMA RpBeginsInv == RpInv /\ RunningProcsBegins => RpInv'
<1> SUFFICES ASSUME RpInv, RunningProcsBegins
             PROVE  RpInv'
    OBVIOUS
<1> DEFINE m == IF Current = "running_procs" THEN "check" ELSE "kill"
<1>1. UNCHANGED procVars /\ m \in {"check", "kill"}
    BY DEF RunningProcsBegins
<1>2. CASE RpStart(m)
    <2>1. /\ rpc' = IF m = "kill" /\ retry_count <= 0 THEN "decide" ELSE "attempt"
          /\ mode' = m /\ rexit' = OK /\ rpc = "idle"
          /\ UNCHANGED <<retry_count, force_kill, attempt, dev, pids, rcode, outcomes, victims>>
          /\ UNCHANGED <<gpu, alive, unborn, arrived>>
        BY <1>1, <1>2 DEF RpStart, procVars
    <2>2. attempt = 0 /\ dev = 1 /\ pids = {} /\ rcode = OK /\ outcomes = <<>> /\ retry_count \in Int
        BY <2>1 DEF RpInv, Fresh, RpTypeOK
    <2>3. RpTypeOK' /\ Fresh' /\ Unseen'
        BY <1>1, <2>1 DEF RpInv, RpTypeOK, Fresh, Unseen, Codes
    <2>4. ReadIsFree'
        BY <2>1, <2>2 DEF ReadIsFree, Attempted
    <2>5. KillIsEarned'
        BY <1>1, <2>1, <2>2 DEF KillIsEarned, NoneOk
    <2> QED
        BY <2>3, <2>4, <2>5 DEF RpInv
<1>3. ASSUME NEW c \in {WARN, CRITICAL, Raises}, RpDevicesFail(m, c)
      PROVE  RpInv'
    <2>1. /\ rpc' = (IF c = Raises THEN "crashed" ELSE "done") /\ mode' = m
          /\ rexit' = IF c = Raises THEN rexit ELSE c
          /\ UNCHANGED <<retry_count, force_kill, attempt, dev, pids, rcode, outcomes, victims>>
          /\ UNCHANGED <<gpu, alive, unborn, arrived>>
        BY <1>1, <1>3 DEF RpDevicesFail, procVars
    <2>2. RpTypeOK' /\ Fresh' /\ Unseen'
        BY <1>1, <1>3, <2>1 DEF RpInv, RpTypeOK, Fresh, Unseen, Codes, OK, WARN, CRITICAL, Raises
    <2>3. ReadIsFree' /\ KillIsEarned'
        BY <1>3, <2>1 DEF ReadIsFree, KillIsEarned, OK, WARN, CRITICAL, Raises
    <2> QED
        BY <2>2, <2>3 DEF RpInv
<1> QED
    BY <1>2, <1>3 DEF RunningProcsBegins

\* Its return keeps what is known of the devices.
LEMMA RpReturnsInv == RpInv /\ RunningProcsReturns => RpInv'
<1> SUFFICES ASSUME RpInv, RunningProcsReturns
             PROVE  RpInv'
    OBVIOUS
<1>1. /\ rpc' \in {"idle", "crashed"}
      /\ attempt' = 0 /\ dev' = 1 /\ pids' = {} /\ rcode' = OK /\ outcomes' = <<>>
      /\ UNCHANGED <<retry_count, force_kill, mode, victims, waited, killed, rexit>>
      /\ UNCHANGED <<gpu, alive, unborn, arrived>>
    BY DEF RunningProcsReturns, procVars
<1>2. RpTypeOK' /\ Fresh' /\ Unseen'
    BY <1>1 DEF RpInv, RpTypeOK, Fresh, Unseen, Codes
<1>3. ReadIsFree' /\ KillIsEarned'
    BY <1>1 DEF ReadIsFree, KillIsEarned
<1> QED
    BY <1>2, <1>3 DEF RpInv

\* Both invariants hold always.
LEMMA NvidiaSmiInvariant == Spec => [](RpInv /\ SmiInv)
<1>1. Init => RpInv /\ SmiInv
    BY RpInitInv, SmiInitInv DEF Init
<1>2. RpInv /\ SmiInv /\ [Next]_vars => RpInv' /\ SmiInv'
    <2> SUFFICES ASSUME RpInv, SmiInv, [Next]_vars
                 PROVE  RpInv' /\ SmiInv'
        OBVIOUS
    <2>1. ASSUME NEW e \in {NvmlError, NvmlLost}, NvmlInitFails(e)
          PROVE  RpInv' /\ SmiInv'
        BY <2>1, NvmlInitFailsInv, RpUnchangedInv DEF NvmlInitFails
    <2>2. ASSUME NEW f \in {"off", "on", "raises"}, NvidiaSmiKillswitch(f)
          PROVE  RpInv' /\ SmiInv'
        BY <2>2, NvidiaSmiKillswitchInv, RpUnchangedInv DEF NvidiaSmiKillswitch
    <2>3. CASE SubCheckSkipped
        BY <2>3, SubCheckSkippedInv, RpUnchangedInv DEF SubCheckSkipped
    <2>4. CASE SubCheckOff
        BY <2>4, SubCheckOffInv, RpUnchangedInv DEF SubCheckOff
    <2>5. CASE SubCheckFlagRaises
        BY <2>5, SubCheckFlagRaisesInv, RpUnchangedInv DEF SubCheckFlagRaises
    <2>6. CASE SubCheckBegins
        BY <2>6, SubCheckBeginsInv, RpUnchangedInv DEF SubCheckBegins
    <2>7. ASSUME NEW o \in DOMAIN SubChecks[Current].verdict, SubCheckItem(o)
          PROVE  RpInv' /\ SmiInv'
        BY <2>7, SubCheckItemInv, RpUnchangedInv DEF SubCheckItem
    <2>8. CASE SubCheckDone
        BY <2>8, SubCheckDoneInv, RpUnchangedInv DEF SubCheckDone
    <2>9. CASE RunningProcsBegins
        BY <2>9, RunningProcsBeginsInv, RpBeginsInv
    <2>10. CASE RpStep /\ UNCHANGED smiVars
        BY <2>10, RpStepInv, SmiUnchangedInv
    <2>11. CASE RunningProcsReturns
        BY <2>11, RunningProcsReturnsInv, RpReturnsInv
    <2>12. CASE SubCheckClosed
        BY <2>12, SubCheckClosedInv, RpUnchangedInv DEF SubCheckClosed
    <2>13. CASE Unwinds
        BY <2>13, UnwindsInv, RpUnchangedInv DEF Unwinds
    <2>14. CASE ProcStep /\ UNCHANGED <<smiVars, rpVars>>
        BY <2>14, ProcStepInv, SmiUnchangedInv DEF rpVars
    <2>15. CASE UNCHANGED vars
        BY <2>15, SmiUnchangedInv, RpUnchangedInv DEF vars
    <2>16. CASE SmiStep
        <3>1. ASSUME NEW o \in IF phase = "items" THEN DOMAIN SubChecks[Current].verdict ELSE {},
                     SubCheckItem(o)
              PROVE  RpInv' /\ SmiInv'
            BY <3>1, <2>7
        <3> QED
            BY <2>16, <2>1, <2>2, <2>3, <2>4, <2>5, <2>6, <3>1, <2>8, <2>9, <2>10, <2>11, <2>12,
               <2>13 DEF SmiStep
    <2> QED
        BY <2>14, <2>15, <2>16 DEF Next
<1> QED
    BY <1>1, <1>2, PTL DEF Spec

(***************************************************************************)
(* OkMeansFree for every number of devices and attempts: an OK of            *)
(* running_procs, or of running_procs_and_kill with a retry count above 0,   *)
(* speaks of all the devices, though they were read one after the other      *)
(* while processes came and went (attempt_check_running_procs,               *)
(* kill_processes).                                                        *)
(***************************************************************************)
THEOREM OkAlwaysMeansFree == Spec => []OkMeansFree
<1>1. RpInv => OkMeansFree
    BY DEF RpInv, ReadIsFree, Free, OkMeansFree
<1> QED
    BY <1>1, NvidiaSmiInvariant, PTL

(***************************************************************************)
(* KillIsLastResort: whatever comes and goes between the last attempt and    *)
(* the kill, a process dies of check_and_kill_running_procs only if the last *)
(* attempt listed it and none of the attempts, which were all made, came     *)
(* out OK.                                                                 *)
(***************************************************************************)
THEOREM KillingIsLastResort == Spec => KillIsLastResort
<1> DEFINE Resort == killed' # killed => /\ force_kill /\ mode = "kill"
                                         /\ Len(outcomes) = retry_count
                                         /\ \A i \in 1..retry_count : outcomes[i] # OK
                                         /\ killed' \ killed \subseteq pids
<1>1. RpInv /\ [Next]_vars => [Resort]_killed
    <2> SUFFICES ASSUME RpInv, [Next]_vars, killed' # killed
                 PROVE  Resort
        OBVIOUS
    <2>1. RpStep
        BY DEF Next, SmiStep, vars, rpVars, NvmlInitFails, NvidiaSmiKillswitch, SubCheckSkipped,
           SubCheckOff, SubCheckFlagRaises, SubCheckBegins, SubCheckItem, SubCheckDone,
           RunningProcsBegins, RpStart, RpDevicesFail, RunningProcsReturns, SubCheckClosed,
           Unwinds
    <2>2. PICK p \in Pid : Kill(p)
        BY <2>1 DEF RpStep, ReadDevice, ReadDeviceRaises, AttemptEnds, Decide, WaitProcs,
           RecheckEnds, KillUnheard, KillDenied
    <2>3. rpc = "kill" /\ p \in victims /\ killed' \ killed \subseteq {p}
        BY <2>2 DEF Kill
    <2> QED
        BY <2>3 DEF RpInv, KillIsEarned, NoneOk
<1> QED
    BY <1>1, NvidiaSmiInvariant, PTL DEF Spec, KillIsLastResort

(***************************************************************************)
(* WorstSubCheckReported for every selection of sub-checks                   *)
(* (check_nvidia_smi, nvlink).                                              *)
(***************************************************************************)
THEOREM WorstSubCheckIsReported == Spec => []WorstSubCheckReported
<1>1. SmiInv => WorstSubCheckReported
    BY DEF SmiInv, OverallIsWorst, Reported, WorstSubCheckReported
<1> QED
    BY <1>1, NvidiaSmiInvariant, PTL

(***************************************************************************)
(* AnswersAreReal: the records that TelemetryContext leaves in the sink are  *)
(* the verdicts of their own sub-checks, and nothing follows a crash.        *)
(***************************************************************************)
THEOREM AnswersAreAlwaysReal == Spec => []AnswersAreReal
<1>1. SmiInv => AnswersAreReal
    <2> SUFFICES ASSUME SmiInv
                 PROVE  CrashEndsCommand
        BY DEF SmiInv, AnswersAreReal
    <2> SUFFICES ASSUME NEW i \in DOMAIN Plan(cmd), <<Plan(cmd)[i], Raises>> \in seen
                 PROVE  /\ Plan(cmd)[i] \in DOMAIN records => records[Plan(cmd)[i]] = UNKNOWN
                        /\ \A j \in DOMAIN Plan(cmd) : i < j => Plan(cmd)[j] \notin DOMAIN records
                        /\ Ended => status # OK
        BY DEF CrashEndsCommand
    <2>1. /\ exc = "Exception"
          /\ \/ phase = "closing" /\ i = at
             \/ /\ phase \in {"unwinding", "ended"} /\ i + 1 = at
                /\ Plan(cmd)[i] \in DOMAIN records => records[Plan(cmd)[i]] = UNKNOWN
        BY DEF SmiInv, CrashIsLast
    <2>2. \A j \in DOMAIN Plan(cmd) : at <= j => Plan(cmd)[j] \notin DOMAIN records
        BY PlanFacts DEF SmiInv, SmiTypeOK, LoopOrder, Entered
    <2>3. i \in Nat /\ \A j \in DOMAIN Plan(cmd) : j \in Nat
        BY PlanFacts
    <2> QED
        BY <2>1, <2>2, <2>3 DEF SmiInv, Reported, Ended
<1> QED
    BY <1>1, NvidiaSmiInvariant, PTL

=============================================================================
