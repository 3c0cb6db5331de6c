--------------------------- MODULE NvidiaSmiChecks ---------------------------
(***************************************************************************)
(* The sub-checks of check_nvidia_smi and of check_dcgmi nvlink, each a      *)
(* record as in GpuChecks.                                                  *)
(*                                                                         *)
(* What a sub-check of check_nvidia_smi sees is the number of devices and a  *)
(* reading of each; a negative number is an exception of the telemetry       *)
(* client.                                                                 *)
(***************************************************************************)
EXTENDS GpuChecks

NvmlError  == -1     \* one that error_exit_codes makes a warning
NvmlLost   == -2     \* one that it, or its absence from it, makes critical
BadDevices == -3     \* SLURM_JOB_GPUS is no list of numbers

handle_pynvml_error(e) == IF e = NvmlError THEN WARN ELSE CRITICAL

handle_device_telemetry_exception(e) ==
  IF e = BadDevices THEN Raises ELSE handle_pynvml_error(e)

(***************************************************************************)
(* The outcomes: get_device_count raises, or two devices, one or none are    *)
(* read.  get_gpu_devices reads them from the environment of the job.        *)
(***************************************************************************)
Devices(count, readings) == [count |-> count, readings |-> readings]

Telemetry(values) ==
  LET R == values \cup {NvmlError, NvmlLost}
  IN  {Devices(e, <<>>) : e \in {NvmlError, NvmlLost}} \cup {Devices(0, <<>>)}
        \cup {Devices(1, <<r>>) : r \in R} \cup {Devices(2, <<r, s>>) : r, s \in R}

get_gpu_devices(values) == Telemetry(values) \cup {Devices(BadDevices, <<>>)}

\* The loop over the devices: the errors and what the readings are worth raise
\* the exit code, which starts as OK.
DeviceLoop(o, verdict(_)) ==
  IF o.count < 0 THEN handle_device_telemetry_exception(o.count)
  ELSE WorstOf(OK, {IF r < 0 THEN handle_device_telemetry_exception(r) ELSE verdict(r)
                      : r \in {o.readings[i] : i \in DOMAIN o.readings}})

Above(threshold, r) == Graded(r > threshold, FALSE)

---------------------------------------------------------------------------

check_gpu_num(expected_gpus) == Check("nvidia_smi_gpu_num", Once,
  [o \in Telemetry({0}) |->
     IF o.count < 0 THEN handle_device_telemetry_exception(o.count)
     ELSE Graded(o.count # expected_gpus, FALSE)])

\* A reading is the frequency, of graphics or memory, that is further below.
check_app_clock_freq(gpu_app_freq) == Check("nvidia_smi_clock_freq", Once,
  [o \in Telemetry(0..2) |-> DeviceLoop(o, LAMBDA r : Graded(r < gpu_app_freq, FALSE))])

\* A reading is the larger of the two deviations.
evaluate_clock_policy(delta, warn_delta_mhz, critical_delta_mhz) ==
  Graded(delta >= critical_delta_mhz, delta >= warn_delta_mhz)

\* No device at all is a warning here, and OK for the others.
check_clock_policy(warn_delta_mhz, critical_delta_mhz) ==
  Check("nvidia_smi_clock_policy", Once,
    [o \in Telemetry(0..2) |->
       IF o.count = 0 THEN WARN
       ELSE DeviceLoop(o, LAMBDA r : evaluate_clock_policy(r, warn_delta_mhz,
                                                           critical_delta_mhz))])

check_gpu_temp(gpu_temperature_threshold) == Check("nvidia_smi_gpu_temp", Once,
  [o \in Telemetry(0..2) |->
     DeviceLoop(o, LAMBDA r : Above(gpu_temperature_threshold, r))])

check_mem_usage(gpu_mem_usage_threshold) == Check("nvidia_smi_mem_usage", Once,
  [o \in get_gpu_devices(0..1) |->
     DeviceLoop(o, LAMBDA r : Above(gpu_mem_usage_threshold, r))])

\* A reading is the larger count of retired pages, 2 if some are pending.
check_retired_pages(gpu_retired_pages_threshold) == Check("nvidia_smi_retired_pages", Once,
  [o \in Telemetry(0..2) |->
     DeviceLoop(o, LAMBDA r : Graded(r > gpu_retired_pages_threshold \/ r = 2, FALSE))])

check_ecc_uncorrected_volatile_total(threshold) == Check("nvidia_smi_ecc_uncorrected", Once,
  [o \in Telemetry(0..1) |-> DeviceLoop(o, LAMBDA r : Above(threshold, r))])

check_ecc_corrected_volatile_total(threshold) == Check("nvidia_smi_ecc_corrected", Once,
  [o \in Telemetry(0..2) |-> DeviceLoop(o, LAMBDA r : Above(threshold, r))])

\* Without an expected version (0) the first device that can be read sets it.
check_vbios_mismatch(expected_vbios) == Check("nvidia_smi_vbios_mismatch", Once,
  [o \in Telemetry(1..2) |->
     LET read == {i \in DOMAIN o.readings : o.readings[i] > 0}
         expected == IF expected_vbios # 0 \/ read = {} THEN expected_vbios
                     ELSE o.readings[CHOOSE i \in read : \A j \in read : i <= j]
     IN  DeviceLoop(o, LAMBDA r : Graded(r # expected, FALSE))])

\* A reading is 1 for pending remaps plus 2 for failed ones.
check_row_remap == Check("nvidia_smi_row_remap", Once,
  [o \in Telemetry(0..3) |-> DeviceLoop(o, LAMBDA r : Graded(r > 0, FALSE))])

check_row_remap_pending == Check("nvidia_smi_row_remap_pending", Once,
  [o \in Telemetry(0..3) |-> DeviceLoop(o, LAMBDA r : Graded(r \in {1, 3}, FALSE))])

check_row_remap_failed == Check("nvidia_smi_row_remap_failed", Once,
  [o \in Telemetry(0..3) |-> DeviceLoop(o, LAMBDA r : Graded(r \in {2, 3}, FALSE))])

---------------------------------------------------------------------------
(***************************************************************************)
(* check_dcgmi nvlink: one report per GPU, whose exceptions are warnings,    *)
(* and one for the status of all links.                                     *)
(***************************************************************************)
NvlinkThresholds ==
  [name \in {"CRC Data Error", "CRC FLIT Error", "Recovery Error", "Replay Error"} |-> 1]

nvlink_errors == Check("dcgmi_nvlink_error", AnyNumber,
  [o \in get_nvlink_error_report |->
     LET code == process_dcgmi_nvlink_error_output(o, NvlinkThresholds)
     IN  IF code = Raises THEN WARN ELSE code])

nvlink_status == Check("dcgmi_nvlink_status", Once,
  [o \in get_nvlink_status_report |-> process_nvlink_status_output(o)])

---------------------------------------------------------------------------
(***************************************************************************)
(* The sub-checks in the order in which the commands look for them.          *)
(* running_procs and running_procs_and_kill are in RunningProcs.             *)
(***************************************************************************)
Plan(cmd) ==
  IF cmd = "nvlink" THEN <<"nvlink_errors", "nvlink_status">>
  ELSE <<"gpu_num", "clock_freq", "clock_policy", "running_procs",
         "running_procs_and_kill", "gpu_temperature", "gpu_mem_usage",
         "gpu_retired_pages", "ecc_uncorrected_volatile_total",
         "ecc_corrected_volatile_total", "vbios_mismatch", "row_remap",
         "row_remap_pending", "row_remap_failed">>

SubChecks ==
  [gpu_num |-> check_gpu_num(1), clock_freq |-> check_app_clock_freq(1),
   clock_policy |-> check_clock_policy(1, 2), gpu_temperature |-> check_gpu_temp(1),
   gpu_mem_usage |-> check_mem_usage(0), gpu_retired_pages |-> check_retired_pages(0),
   ecc_uncorrected_volatile_total |-> check_ecc_uncorrected_volatile_total(0),
   ecc_corrected_volatile_total |-> check_ecc_corrected_volatile_total(1),
   vbios_mismatch |-> check_vbios_mismatch(0), row_remap |-> check_row_remap,
   row_remap_pending |-> check_row_remap_pending,
   row_remap_failed |-> check_row_remap_failed,
   nvlink_errors |-> nvlink_errors, nvlink_status |-> nvlink_status]

=============================================================================
