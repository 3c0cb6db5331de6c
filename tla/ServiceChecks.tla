---------------------------- MODULE ServiceChecks ----------------------------
(***************************************************************************)
(* The verdicts of the checks of services, users, processes and of the       *)
(* machine's management controller: check_service, check_slurm, check_ssh,   *)
(* check_ssh_certs, check_authentication, check_airstore, check_process,     *)
(* check_ipmitool, check_sensors, check_aws_events.                          *)
(***************************************************************************)
EXTENDS NetworkChecks

\* What handle_subprocess_exception makes of exceptions other than a timeout.
OtherException(o) == o = Out(2, <<Junk>>)

---------------------------------------------------------------------------
(* check_service and check_ssh *)

service_code(o) == Graded(Failed(o), FALSE)

service_status == Check("service_status", OneOrMore,
  [o \in shell_command({<<"active">>, <<"inactive">>}, Junk) |-> service_code(o)])

package_code(o) ==
  IF Failed(o) THEN WARN ELSE Graded(o.text # <<"right">>, FALSE)

\* The killswitch is that of service_status.
package_version == Check("service_status", Once,
  [o \in shell_command({<<>>, <<"right">>, <<"wrong">>}, Junk) |-> package_code(o)])

ssh_code(o) == Graded(Failed(o), FALSE)

ssh_connection == Check("check_ssh", OneOrMore,
  [o \in shell_command({<<>>, <<Junk>>}, Junk) |-> ssh_code(o)])

---------------------------------------------------------------------------
(* check_slurm *)

\* scontrol ping | grep -c: the return code is that of scontrol.
get_slurmctld_count == shell_command(Numbers(0..2), NoNumber)

process_slurmctld_count_output(o, expected_count) ==
  IF Failed(o) \/ NotANumber(o) THEN WARN
  ELSE Graded(Head(o.text) < expected_count, FALSE)

slurmctld_count == Check("slrmctld_count", Once,
  [o \in get_slurmctld_count |-> process_slurmctld_count_output(o, 1)])

\* sinfo -n: the text is the set of state names that occur in its output.
CriticalNodeStates == {"down", "drained", "draining", "fail", "failing", "maint", "unknown"}
GoodNodeStates == {"allocated", "completing", "idle", "mixed", "planned", "reserved"}

get_node_state ==
  shell_command({<<>>, <<"idle">>, <<"draining">>, <<"idle", "maint">>, <<"other">>}, Junk)

process_node_state(o) ==
  IF Failed(o) \/ Lines(o) \cap CriticalNodeStates # {} THEN WARN
  ELSE IF Lines(o) \cap GoodNodeStates # {} THEN OK ELSE WARN

node_slurm_state == Check("slurm_state", Once,
  [o \in get_node_state |-> process_node_state(o)])

\* scontrol show node | ... | uniq -c: how many nodes are in each state.
NodeCount(n, bad) == [n |-> n, bad |-> bad]

get_cluster_node_state ==
  LET junk == NodeCount(NoNumber, FALSE)
      good == {NodeCount(n, FALSE) : n \in 1..3}
      bad  == {NodeCount(n, TRUE) : n \in 1..3}
  IN  shell_command({<<>>, <<junk>>} \cup {<<c>> : c \in good \cup bad}
                      \cup {<<g, b>> : g \in good, b \in bad}, junk)

\* No line at all is a division by zero.
process_cluster_state(o, critical_thr, warning_thr) ==
  LET total == FoldLeft(LAMBDA s, c : s + c.n, 0, o.text)
      bad   == FoldLeft(LAMBDA s, c : s + (IF c.bad THEN c.n ELSE 0), 0, o.text)
  IN  IF Failed(o) \/ \E c \in Lines(o) : c.n = NoNumber THEN WARN
      ELSE IF total = 0 THEN Raises
      ELSE Graded(bad * 100 > critical_thr * total, bad * 100 > warning_thr * total)

cluster_availability == Check("slurm_cluster_avail", Once,
  [o \in get_cluster_node_state |-> process_cluster_state(o, 50, 25)])

---------------------------------------------------------------------------
(***************************************************************************)
(* check_ssh_certs: what IPA says, then what the host says.  "timeout" is    *)
(* caught; "raised" stands for the other exceptions, which are not.          *)
(***************************************************************************)
get_ipa_certs ==
  {"timeout", "raised", "not found", "failed", "none", "registered"}
get_ssh_certs == {"timeout", "raised", "failed", "fewer", "all"}

check_ssh_certs == Check("check_ssh_certs", Once,
  [o \in [ipa: get_ipa_certs, ssh: get_ssh_certs] |->
     CASE o.ipa \in {"timeout", "failed"} -> UNKNOWN
       [] o.ipa = "raised" -> Raises
       [] o.ipa \in {"not found", "none"} -> CRITICAL
       [] o.ipa = "registered" /\ o.ssh = "raised" -> Raises
       [] o.ipa = "registered" /\ o.ssh \in {"timeout", "failed", "fewer"} -> CRITICAL
       [] o.ipa = "registered" /\ o.ssh = "all" -> OK])

---------------------------------------------------------------------------
(* check_authentication and check_airstore *)

get_pass_status == shell_command({<<>>, <<"P">>, <<"PS">>, <<"LK">>}, Junk)

_STATUS_ALIASES(status) ==
  CASE status \in {"PS", "P"} -> {"PS", "P"}
    [] status \in {"LK", "L"} -> {"LK", "L"}
    [] OTHER -> {status}

process_pass_status(o, expected_state) ==
  IF Failed(o) \/ Empty(o) THEN WARN
  ELSE Graded(Head(o.text) \notin _STATUS_ALIASES(expected_state), FALSE)

password_status == Check("pass_status", Once,
  [o \in get_pass_status |-> process_pass_status(o, "PS")])

process_path_access_status(o) == Graded(o.rc # 0, FALSE)

check_path_access_by_user == Check("user_access_path_check", Once,
  [o \in shell_command({<<>>}, Junk) |-> process_path_access_status(o)])

(***************************************************************************)
(* ls | grep -c bulk.  A command of its own: grep exits with 1 when it       *)
(* counts 0, and the return codes are added up.                             *)
(***************************************************************************)
get_credential_count ==
  {Out(1, <<0>>)} \cup {Out(0, <<n>>) : n \in 1..2}
    \cup {Out(rc, <<0>>) : rc \in {-8, 3}} \cup {Out(-9, <<>>)}
    \cup handle_subprocess_exception(NoNumber)

process_flash_array_credential_count(o, expected_count_ge) ==
  IF Failed(o) \/ Empty(o) THEN WARN
  ELSE IF NotANumber(o) THEN Raises
  ELSE Graded(Head(o.text) < expected_count_ge, FALSE)

flash_array_credential_count == Check("airstore_credential_count", Once,
  [o \in get_credential_count |-> process_flash_array_credential_count(o, 2)])

---------------------------------------------------------------------------
(* check_process *)

(***************************************************************************)
(* check_dstate: pgrep's list of processes in state D (a line that does not  *)
(* split into two words is Junk), and what strace says of one.  strace's     *)
(* standard error is merged into its output (shell_command), so the test     *)
(* for a single line of standard error is never true: only a return code of  *)
(* 1 counts.                                                                *)
(***************************************************************************)
get_dstate_procs ==
  {"raised", "failed", "none", Junk, "one", "other name"}
get_strace_of_proc ==
  {"raised", "cannot attach", "stuck", "moves"}

StuckInDState(strace) == strace = "cannot attach"

check_dstate_processes(o) ==
  CASE o.procs \in {"raised", "failed", Junk} -> WARN
    [] o.procs \in {"none", "other name"} -> OK
    [] o.procs = "one" /\ o.strace = "raised" -> WARN
    [] o.procs = "one" /\ o.strace # "raised" -> Graded(StuckInDState(o.strace), FALSE)

check_dstate == Check("check_dstate", Once,
  [o \in [procs: get_dstate_procs, strace: get_strace_of_proc] |->
     check_dstate_processes(o)])

\* ps | awk: the return code of ps; a line is how long a zombie has been one.
default_get_zombie_procs == shell_command(Numbers(0..2) \cup {<<0, 2>>}, NoNumber)

process_zombie_procs(o, elapsed_time) ==
  IF Failed(o) \/ NoNumber \in Lines(o) THEN WARN
  ELSE Graded(FALSE, \E etime \in Lines(o) : etime > elapsed_time)

check_zombie == Check("check_zombie", Once,
  [o \in default_get_zombie_procs |-> process_zombie_procs(o, 1)])

\* ps | grep | grep -v grep | ...: a line is a process of that name.
default_check_running_process == shell_command({<<>>, <<"process">>}, Junk)

running_process_code(o) == IF o.rc # 0 THEN WARN ELSE Graded(Empty(o), FALSE)

check_running_process == Check("running_process", OneOrMore,
  [o \in default_check_running_process |-> running_process_code(o)])

---------------------------------------------------------------------------
(***************************************************************************)
(* check_ipmitool sel.  A line is an event of the log.  The log is cleared   *)
(* when it is longer than the threshold, also when it could not be read;     *)
(* an exception of the clearing makes OK a warning.                          *)
(***************************************************************************)
SelEvents == {"error asserted", "error deasserted", "other asserted"}

get_sel == shell_command({<<>>} \cup {<<e>> : e \in SelEvents}
                                \cup {<<e, f>> : e, f \in SelEvents}, Junk)

process_sel_out(o) ==
  IF Failed(o) THEN WARN ELSE Graded("error asserted" \in Lines(o), FALSE)

clear_sel(o, clear_log_threshold) == Len(o.text) > clear_log_threshold

check_sel == Check("ipmi_sel", Once,
  [o \in [sel: get_sel, clearing_raises: BOOLEAN] |->
     LET exit_code == process_sel_out(o.sel) IN
     IF clear_sel(o.sel, 1) /\ o.clearing_raises THEN Raise(exit_code, WARN)
     ELSE exit_code])

(***************************************************************************)
(* check_sensors: one line per sensor that is not as expected.  Exceptions   *)
(* that are no SubprocessError are not caught.                              *)
(***************************************************************************)
get_sensors ==
  LET errors == {"fan", "psu", "status", "redundancy"}
  IN  shell_command({<<>>} \cup {<<e>> : e \in errors} \cup {<<e, f>> : e, f \in errors},
                    Junk)

process_sensors_out(o) ==
  IF o.rc # 0 THEN WARN
  ELSE Graded(Lines(o) \cap {"fan", "psu", "status"} # {}, "redundancy" \in Lines(o))

sensors_code(o) == IF OtherException(o) THEN Raises ELSE process_sensors_out(o)

check_sensors == Check("check_sensors", Once,
  [o \in get_sensors |-> sensors_code(o)])

(***************************************************************************)
(* check_aws_events: the instance metadata service.  Whatever goes wrong     *)
(* with it is OK ("don't false-alarm the fleet").                           *)
(***************************************************************************)
fetch_imds_token == {"none", "token"}
fetch_scheduled_events ==
  {"unreachable", "404", "500", "empty", Junk, "not a list", "no dict", "event"}

check_aws_events == Check("check_aws_events", Once,
  [o \in [token: fetch_imds_token, events: fetch_scheduled_events] |->
     Graded(FALSE, o.token = "token" /\ o.events = "event")])

---------------------------------------------------------------------------
(***************************************************************************)
(* The commands of cli/health_checks.py that ask one question; the name of   *)
(* a command is the name of its record.                                     *)
(***************************************************************************)
AllCommands ==
  [dcgmi_diag |-> diag, nccl_tests |-> check_nccl, cuda_memtest |-> memtest,
   disk_usage |-> disk_usage, mounted_dir |-> mounted_directory,
   file_exists |-> file_exists(FALSE), file_absent |-> file_exists(TRUE),
   dir_exists |-> directory_exists, check_mountpoint |-> check_mountpoint,
   disk_size |-> disk_size(">="), disk_size_lt |-> disk_size("<"),
   proc_freq |-> processor_freq, freq_governor |-> cpufreq_governor,
   check_mem_size |-> check_mem_size, check_buddyinfo |-> check_buddyinfo,
   check_clocksource |-> check_clocksource, link_flap |-> link_flaps,
   xid_errors |-> xid, io_errors |-> io_errors, mce_errors |-> mce,
   pcie_aer_errors |-> pcie_aer, check_blockdev |-> check_blockdev,
   check_uptime |-> uptime, check_module |-> check_module,
   check_dnf_repos |-> check_dnf_repos, check_ethlink |-> check_ethlink,
   check_iblink |-> check_iblink, check_ibstat |-> check_ibstat(FALSE),
   check_ibstat_physical |-> check_ibstat(TRUE),
   check_ib_interfaces |-> check_ib_interfaces, check_ib_counters |-> check_ib_counters,
   check_pci |-> check_pci, hca_count |-> check_hca(1),
   service_status |-> service_status, package_version |-> package_version,
   check_ssh |-> ssh_connection, slrmctld_count |-> slurmctld_count,
   slurm_state |-> node_slurm_state, slurm_cluster_avail |-> cluster_availability,
   check_ssh_certs |-> check_ssh_certs, pass_status |-> password_status,
   user_access_path_check |-> check_path_access_by_user,
   airstore_credential_count |-> flash_array_credential_count,
   check_dstate |-> check_dstate, check_zombie |-> check_zombie,
   running_process |-> check_running_process, ipmi_sel |-> check_sel,
   check_sensors |-> check_sensors, check_aws_events |-> check_aws_events]

=============================================================================
