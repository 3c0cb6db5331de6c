----------------------------- MODULE HealthChecks -----------------------------
(***************************************************************************)
(* The health check runtime over the commands of ServiceChecks: which        *)
(* operator gives the verdicts of which command, and what the verdicts have  *)
(* to be.  What tools report is left open: any return code and any number of *)
(* lines, disks, cards, links, ports and counters.                          *)
(***************************************************************************)
EXTENDS HealthCheckRuntime, ServiceChecks

CONSTANTS
  Thresholds,  \* the numbers that are given on command lines
  MaxHosts     \* how many hosts check_nccl is given at most

ASSUME ArgumentAssumption == Thresholds \subseteq Int /\ MaxHosts \in Nat

\* The checks whose outcome is the output of one shell command.
ShellChecks ==
  {"dcgmi_diag", "nccl_tests", "cuda_memtest", "disk_usage", "mounted_dir", "disk_size",
   "disk_size_lt", "proc_freq", "freq_governor", "check_mem_size", "check_clocksource",
   "link_flap", "xid_errors", "io_errors", "mce_errors", "pcie_aer_errors", "check_uptime",
   "check_module", "check_dnf_repos", "check_ibstat", "check_ibstat_physical",
   "check_ib_interfaces", "hca_count", "service_status", "package_version", "check_ssh",
   "slrmctld_count", "slurm_state", "slurm_cluster_avail", "pass_status",
   "user_access_path_check", "airstore_credential_count", "check_zombie",
   "running_process", "check_sensors"}

---------------------------------------------------------------------------
(***************************************************************************)
(* What is assumed of the table of commands.                                *)
(***************************************************************************)

\* The outcomes of a check; none if the table does not have it.
Outcomes(check) ==
  IF check \in DOMAIN Command THEN DOMAIN Command[check].verdict ELSE {}

\* The verdicts of a check are those of an operator of the code.
Follows(check, code(_)) ==
  \A o \in Outcomes(check) : Command[check].verdict[o] = code(o)

ASSUME GpuAssumption ==
  /\ Follows("dcgmi_diag", process_dcgmi_diag_output)
  /\ \E c, w \in Thresholds :
       Follows("nccl_tests", LAMBDA o : process_nccl_test_ouput(o, c, w))
  /\ Follows("cuda_memtest", run_cuda_memtests_concurrently)

ASSUME StorageAssumption ==
  /\ \E w, c \in Thresholds : Follows("disk_usage", LAMBDA o : process_disk_usage(o, w, c))
  /\ Follows("mounted_dir", process_mount_status)
  /\ \A check \in {"disk_size", "disk_size_lt"} :
       \E operator \in {"<", "=", ">", ">=", "<="}, n \in Thresholds :
         Follows(check, LAMBDA o : process_disk_size(o, operator, n))
  /\ Follows("check_blockdev", blockdev_code)

ASSUME ProcessorAssumption ==
  /\ \E n \in Thresholds : Follows("proc_freq", LAMBDA o : process_cpu_freq(o, n))
  /\ \E governor \in {"performance", "powersave"} :
       Follows("freq_governor", LAMBDA o : process_cpufreq_governor(o, governor))
  /\ \E m, n \in Thresholds : Follows("check_mem_size", LAMBDA o : process_mem_info(o, m, n))
  /\ Follows("check_clocksource", clocksource_code)

ASSUME SyslogAssumption ==
  /\ Follows("link_flap", process_link_flap_output)
  /\ Follows("xid_errors", process_xid_output)
  /\ Follows("io_errors", process_io_errors_output)
  /\ Follows("mce_errors", process_mce_output)
  /\ Follows("pcie_aer_errors", process_pcie_aer_output)

ASSUME NodeAssumption ==
  /\ \E n \in Thresholds : Follows("check_uptime", LAMBDA o : process_uptime(o, n))
  /\ \E n \in Thresholds : Follows("check_module", LAMBDA o : process_module(o, n))
  /\ Follows("check_dnf_repos", process_dnf_repos)

ASSUME NetworkAssumption ==
  /\ Follows("check_ethlink", ethlink_code)
  /\ Follows("check_iblink", iblink_code)
  /\ Follows("check_ibstat", LAMBDA o : process_ibstat_output(o, FALSE))
  /\ Follows("check_ibstat_physical", LAMBDA o : process_ibstat_output(o, TRUE))
  /\ \E n \in Thresholds :
       Follows("check_ib_interfaces", LAMBDA o : process_ib_interfaces_output(o, n))
  /\ \E w, c \in Thresholds :
       Follows("check_ib_counters", LAMBDA o : process_ib_counters(o, w, c))
  /\ Follows("check_pci", pci_code)
  /\ \E n \in Thresholds : Follows("hca_count", LAMBDA o : hca_code(o, n))

ASSUME ServiceAssumption ==
  /\ Follows("service_status", service_code)
  /\ Follows("package_version", package_code)
  /\ Follows("check_ssh", ssh_code)
  /\ \E n \in Thresholds :
       Follows("slrmctld_count", LAMBDA o : process_slurmctld_count_output(o, n))
  /\ Follows("slurm_state", process_node_state)
  /\ \E c, w \in Thresholds :
       Follows("slurm_cluster_avail", LAMBDA o : process_cluster_state(o, c, w))
  /\ \E state \in {"PS", "P", "LK", "L", "NP"} :
       Follows("pass_status", LAMBDA o : process_pass_status(o, state))
  /\ Follows("user_access_path_check", process_path_access_status)
  /\ \E n \in Thresholds :
       Follows("airstore_credential_count",
               LAMBDA o : process_flash_array_credential_count(o, n))

ASSUME ProcessAssumption ==
  /\ \E n \in Thresholds : Follows("check_zombie", LAMBDA o : process_zombie_procs(o, n))
  /\ Follows("running_process", running_process_code)
  /\ Follows("check_sensors", sensors_code)

(***************************************************************************)
(* Outcomes: a shell command ends with a return code and a list of lines;    *)
(* a report that cannot be parsed is one line (process_dcgmi_diag_output     *)
(* parses it as a whole), and so is what stands for an exception             *)
(* (handle_subprocess_exception); uniq leaves no equal lines next to each    *)
(* other (get_cpufreq_governor); a check against the manifest that raised    *)
(* tells of no device; counters are naturals, or could not be read.          *)
(***************************************************************************)
ASSUME OutcomeAssumption ==
  /\ \A check \in ShellChecks : \A o \in Outcomes(check) :
       o \in [rc: Int, text: Seq(Lines(o))]
  /\ \A o \in Outcomes("dcgmi_diag") : \A l \in {BadJson, NoReport} :
       l \in Lines(o) => o.text = <<l>>
  /\ \A o \in Outcomes("check_sensors") : Junk \in Lines(o) => o.text = <<Junk>>
  /\ \A o \in Outcomes("freq_governor") : \A i \in 1..(Len(o.text) - 1) :
       o.text[i] # o.text[i + 1]
  /\ \A o \in Outcomes("check_ethlink") : o.raised \in BOOLEAN /\ (o.raised => o.devices = {})
  /\ \A o \in Outcomes("check_iblink") : o.raised \in BOOLEAN /\ (o.raised => o.cards = {})
  /\ \A o \in Outcomes("check_pci") :
       o.raised \in BOOLEAN /\ (o.raised => o.links = <<>>) /\ o.links \in Seq(PciLink)
  /\ \A o \in Outcomes("check_ib_counters") : o \in Seq(Seq(Nat \cup {NoNumber}))

---------------------------------------------------------------------------

\* Return codes that are an answer: grep found nothing; DCGM skipped a test.
AnswerCodes(check) ==
  CASE check = "link_flap"  -> {1}
    [] check = "dcgmi_diag" -> NON_FATAL_ERRORS
    [] OTHER -> {}

(***************************************************************************)
(* A check that could not look is not a healthy check: if the command of an  *)
(* item failed, timed out or could not be started (a positive return code),  *)
(* the exit status is not OK.                                               *)
(***************************************************************************)
BlindNotHealthy ==
  Ended /\ name \in ShellChecks /\ status = OK =>
    \A o \in seen : Failed(o) => o.rc \in AnswerCodes(name)

\* The checks whose output is a list of what is wrong, and those among them
\* whose list has lines that say all is well.
FaultReports ==
  {"xid_errors", "io_errors", "mce_errors", "pcie_aer_errors", "link_flap",
   "check_sensors", "check_zombie", "dcgmi_diag", "check_ibstat",
   "check_ibstat_physical", "freq_governor"}

(***************************************************************************)
(* A fault is not hidden by what is reported with it: the report with more   *)
(* lines never gets a better verdict than the one with some of them          *)
(* (process_xid_output, process_mce_output, process_dcgmi_diag_output...).   *)
(* A line of dcgmi diag is a test with all its results: a Fail that is not   *)
(* the first result of its test is in no verdict at all, see NothingHidden.  *)
(***************************************************************************)
MoreFaultsNotBetter ==
  phase = "running" /\ name \in FaultReports =>
    \A o \in seen : \A p \in DOMAIN Command[name].verdict :
      /\ o.rc = p.rc
      /\ o.text # <<>>
      /\ Lines(o) \subseteq Lines(p)
      /\ Command[name].verdict[o] # Raises
      => ~ Gt(Command[name].verdict[o], Command[name].verdict[p])

\* The devices an outcome of a check against the manifest tells of.
Devices(check, o) ==
  CASE check = "check_ethlink"  -> o.devices
    [] check = "check_iblink"   -> o.cards
    [] check = "check_blockdev" -> o
    [] check = "check_pci"      -> ToSet(o.links)

ManifestChecks == {"check_ethlink", "check_iblink", "check_blockdev", "check_pci"}

(***************************************************************************)
(* One bad device is enough: if a check against the manifest is OK with      *)
(* several devices, it is OK with each of them alone (check_cfg_macaddr,     *)
(* process_iblink, process_check_blockdev, check_pci_state count and loop    *)
(* over the devices).                                                       *)
(***************************************************************************)
OneBadDeviceSuffices ==
  phase = "running" /\ name \in ManifestChecks =>
    \A o \in seen : Command[name].verdict[o] = OK =>
      \A d \in Devices(name, o) : \A p \in DOMAIN Command[name].verdict :
        Devices(name, p) = {d} => Command[name].verdict[p] = OK

\* The elements of the sets F[i], each with the i it is from.
Tagged(F) == UNION {{i} \X F[i] : i \in DOMAIN F}

\* The errors that the counters of the ports count, one by one: of port i and
\* counter j the first, the second and so on.
Errors(ports) ==
  Tagged([i \in DOMAIN ports |-> Tagged([j \in DOMAIN ports[i] |-> 1..ports[i][j]])])

(***************************************************************************)
(* Errors on an idle port count as much as those that two ports share, and   *)
(* more of them are not better: the verdict of check_ib_counters depends on  *)
(* how many errors there are and not on how they are spread over ports and   *)
(* counters (process_ib_counters adds them up port by port).                 *)
(***************************************************************************)
CountersAddUp ==
  phase = "running" /\ name = "check_ib_counters" =>
    \A o \in seen : \A p \in DOMAIN Command[name].verdict :
      /\ o # <<>> /\ p # <<>>
      /\ Cardinality(Errors(o)) <= Cardinality(Errors(p))
      => ~ Gt(Command[name].verdict[o], Command[name].verdict[p])

(***************************************************************************)
(* Every host is tested: each flavor of check_nccl puts every host of its    *)
(* list in some group, and a pairwise flavor never tests a host against      *)
(* itself (get_hosts).                                                      *)
(***************************************************************************)
EveryHostTested ==
  phase = "running" /\ name = "nccl_tests" =>
  \A flavor \in {"single", "pairwise", "pairwise-quick"} :
    \A n \in (IF flavor = "single" THEN 1 ELSE 2)..MaxHosts :
      LET hosts  == [i \in 1..n |-> i]
          groups == get_hosts(flavor, hosts)
      IN  /\ \A h \in ToSet(hosts) : \E g \in groups : h \in ToSet(g)
          /\ \A g \in groups :
               Cardinality(ToSet(g)) = (IF flavor = "single" THEN 1 ELSE 2)

(***************************************************************************)
(* No loop of a check loses what it has seen: the verdict on a line of a     *)
(* report, a device of the manifest or the counters of a port is not made    *)
(* better by the next one, and no host is left out of the NCCL tests.  What  *)
(* the code does not look at is outside of this property: of a DCGM 3 test   *)
(* _get_test_status reads the first GPU's result alone, so that a test that  *)
(* failed on the second passes, although diag.md:30 gives CRITICAL for "One  *)
(* or more diagnostic tests failed".                                        *)
(***************************************************************************)
NothingHidden ==
  /\ MoreFaultsNotBetter
  /\ OneBadDeviceSuffices
  /\ CountersAddUp
  /\ EveryHostTested

=============================================================================
