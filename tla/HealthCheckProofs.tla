-------------------------- MODULE HealthCheckProofs --------------------------
(***************************************************************************)
(* What an invocation of a health check reports is the worst verdict of its   *)
(* items, for every table of health checks: any number of items, any verdict  *)
(* function and any order in which the items are looked at.                  *)
(***************************************************************************)
EXTENDS HealthChecks, FiniteSetTheorems, WellFoundedInduction, TLAPS

---------------------------------------------------------------------------
(* The order of exit codes *)

\* UNKNOWN is below every code, so a code is above another or not above it.
LEMMA GtIsStrict ==
  ASSUME NEW a \in ExitCode, NEW b \in ExitCode, NEW c \in ExitCode
  PROVE  /\ ~ Gt(a, a)
         /\ Gt(a, b) => ~ Gt(b, a)
         /\ Gt(a, b) /\ Gt(b, c) => Gt(a, c)
         /\ Gt(a, b) \/ Gt(b, a) \/ a = b
  BY DEF ExitCode, OK, WARN, CRITICAL, UNKNOWN, Gt

\* Raising loses nothing: what was not above the overall verdict before is not
\* above it afterwards, and neither is the new verdict.
LEMMA RaiseIsUpperBound ==
  ASSUME NEW a \in ExitCode, NEW b \in ExitCode, NEW c \in ExitCode, ~ Gt(c, a)
  PROVE  /\ Raise(a, b) \in {a, b}
         /\ ~ Gt(b, Raise(a, b))
         /\ ~ Gt(c, Raise(a, b))
  BY DEF ExitCode, OK, WARN, CRITICAL, UNKNOWN, Gt, Raise

\* Two items can be looked at in either order: a loop that raises the overall
\* verdict computes the same from every order of its items.
THEOREM RaiseCommutes ==
  ASSUME NEW a \in ExitCode, NEW b \in ExitCode, NEW c \in ExitCode
  PROVE  Raise(Raise(a, b), c) = Raise(Raise(a, c), b)
  BY DEF ExitCode, OK, WARN, CRITICAL, UNKNOWN, Gt, Raise

---------------------------------------------------------------------------
(* The inductive invariant *)

Verdict(o) == Command[name].verdict[o]

\* The body: the overall verdict is that of an item, and none is above it.
BodyInv ==
  /\ \A o \in seen : Verdict(o) \in ExitCode /\ ~ Gt(Verdict(o), overall)
  /\ seen = {} => overall = UNKNOWN
  /\ seen # {} => \E o \in seen : Verdict(o) = overall

\* The exit code the contexts read is set by finish or by the killswitch only.
ExitCodeInv ==
  /\ exc = "none" => \/ exit_code = OK /\ seen = {}
                     \/ exit_code = UNKNOWN /\ phase \in {"start", "entered", "running"}
  /\ exc = "SystemExit" => exit_code = overall /\ left = 0 /\ BodyInv

\* The contexts report it, one after the other.
ReportInv ==
  /\ phase \in {"start", "entered", "running"} =>
       exc = "none" /\ exit_code = UNKNOWN /\ BodyInv
  /\ phase \in {"start", "entered"} => seen = {}
  /\ phase \in {"start", "entered", "running", "output"} => printed = None
  /\ ~Ended => record = None /\ (exc = "Exception" => exit_code = UNKNOWN)
  /\ ~Ended /\ exc # "Exception" => printed \in {None, exit_code}
  /\ Ended => IF exc = "Exception" THEN status = 1 /\ record \in {None, UNKNOWN}
              ELSE /\ status = exit_code
                   /\ record \in {None, exit_code}
                   /\ printed \in {None, exit_code}

RtInv == RtTypeOK /\ ExitCodeInv /\ ReportInv

\* The invariant holds before the check is entered.
LEMMA RtInitInv == Init => RtInv
<1> SUFFICES ASSUME Init PROVE RtInv
  OBVIOUS
<1>1. RtTypeOK
  BY CommandAssumption DEF Init, RtTypeOK, Phases, ExitCode, UNKNOWN, None
<1>2. BodyInv
  BY DEF Init, BodyInv
<1> QED
  BY <1>1, <1>2 DEF Init, RtInv, ExitCodeInv, ReportInv, Ended

\* An item: its verdict is added to what is known, or the body crashes.
LEMMA CheckItemInv ==
  ASSUME RtInv, NEW o \in DOMAIN Command[name].verdict, CheckItem(o)
  PROVE  RtInv'
<1>0. /\ RtTypeOK /\ BodyInv /\ exc = "none" /\ exit_code = UNKNOWN
      /\ printed = None /\ record = None /\ phase = "running"
  BY DEF RtInv, ReportInv, CheckItem, Ended
<1>1. name' = name /\ left' \in Nat /\ Verdict(o) \in Verdicts
  BY <1>0, CommandAssumption DEF CheckItem, RtTypeOK, Verdict
<1>2. CASE Verdict(o) = Raises
  <2>1. RtTypeOK'
    BY <1>0, <1>1, <1>2 DEF RtTypeOK, CheckItem, Verdict, Phases
  <2> QED
    BY <1>0, <1>2, <2>1 DEF RtInv, ExitCodeInv, ReportInv, CheckItem, Verdict, Ended
<1>3. CASE Verdict(o) # Raises
  <2>1. Verdict(o) \in ExitCode /\ overall \in ExitCode
    BY <1>0, <1>1, <1>3 DEF Verdicts, RtTypeOK
  <2>2. overall' = Raise(overall, Verdict(o)) /\ seen' = seen \cup {o}
    BY <1>3 DEF CheckItem, Verdict
  <2>3. overall' \in {overall, Verdict(o)} /\ ~ Gt(Verdict(o), overall')
    BY <2>1, <2>2, GtIsStrict, RaiseIsUpperBound
  <2>4. \A p \in seen : Verdict(p) \in ExitCode /\ ~ Gt(Verdict(p), overall')
    BY <1>0, <2>1, <2>2, RaiseIsUpperBound DEF BodyInv
  <2>5. \E p \in seen' : Verdict(p) = overall'
    <3>1. CASE overall' = Verdict(o)
      BY <2>2, <3>1
    <3>2. CASE overall' = overall /\ seen # {}
      BY <1>0, <2>2, <3>2 DEF BodyInv
    <3>3. CASE overall' = overall /\ seen = {}
      <4>1. overall = UNKNOWN
        BY <1>0, <3>3 DEF BodyInv
      <4>2. Verdict(o) = UNKNOWN
        BY <2>1, <2>3, <3>3, <4>1 DEF Gt, UNKNOWN
      <4> QED
        BY <2>2, <3>3, <4>1, <4>2
    <3> QED
      BY <2>3, <3>1, <3>2, <3>3
  <2>6. BodyInv'
    <3>1. \A p : Verdict(p)' = Verdict(p)
      BY <1>1 DEF Verdict
    <3>2. seen' # {}
      BY <2>2
    <3> QED
      BY <2>1, <2>2, <2>3, <2>4, <2>5, <3>1, <3>2 DEF BodyInv
  <2>7. RtTypeOK'
    BY <1>0, <1>1, <1>3, <2>1, <2>3 DEF RtTypeOK, CheckItem, Verdict
  <2> QED
    BY <1>0, <1>3, <2>6, <2>7 DEF RtInv, ExitCodeInv, ReportInv, CheckItem, Verdict, Ended
<1> QED
  BY <1>2, <1>3

\* The invariant is inductive: entering, the killswitch, the end of the body
\* and the closing of the contexts keep it.
LEMMA RtNextInv == RtInv /\ [Next]_vars => RtInv'
<1> SUFFICES ASSUME RtInv, [Next]_vars
             PROVE  RtInv'
  OBVIOUS
<1>0. RtTypeOK /\ ExitCodeInv /\ ReportInv
  BY DEF RtInv
<1> USE DEF RtTypeOK, Phases
<1>1. CASE Enter
  <2>1. BodyInv'
    BY <1>0, <1>1 DEF Enter, ReportInv, BodyInv, Verdict
  <2> QED
    BY <1>0, <1>1, <2>1 DEF Enter, RtInv, ExitCodeInv, ReportInv, Ended
<1>2. CASE EnterFails
  BY <1>0, <1>2 DEF EnterFails, Dies, RtInv, ExitCodeInv, ReportInv, Ended, ExitCode, WARN, OK,
                   CRITICAL, UNKNOWN
<1>3. ASSUME NEW flag \in Flags, Killswitch(flag) PROVE RtInv'
  <2>1. BodyInv'
    BY <1>0, <1>3 DEF Killswitch, ReportInv, BodyInv, Verdict
  <2>2. CASE flag = "off"
    BY <1>0, <1>3, <2>1, <2>2 DEF Killswitch, RtInv, ExitCodeInv, ReportInv, Ended
  <2>3. CASE flag = "on"
    BY <1>0, <1>3, <2>3 DEF Killswitch, RtInv, ExitCodeInv, ReportInv, Ended, ExitCode
  <2>4. CASE flag = "raises"
    BY <1>0, <1>3, <2>4 DEF Killswitch, Dies, RtInv, ExitCodeInv, ReportInv, Ended, ExitCode,
                           WARN, OK, CRITICAL, UNKNOWN
  <2> QED
    BY <1>3, <2>2, <2>3, <2>4 DEF Flags
<1>4. ASSUME NEW o \in DOMAIN Command[name].verdict, CheckItem(o) PROVE RtInv'
  BY <1>4, CheckItemInv
<1>5. CASE finish
  <2>1. BodyInv'
    BY <1>0, <1>5 DEF finish, ReportInv, BodyInv, Verdict
  <2> QED
    BY <1>0, <1>5, <2>1 DEF finish, RtInv, ExitCodeInv, ReportInv, Ended
<1>6. CASE OutputExit
  <2>1. exc = "SystemExit" => BodyInv'
    BY <1>0, <1>6 DEF OutputExit, ExitCodeInv, BodyInv, Verdict
  <2> QED
    BY <1>0, <1>6, <2>1 DEF OutputExit, RtInv, ExitCodeInv, ReportInv, Ended, ExitCode, WARN, OK,
                            CRITICAL, UNKNOWN
<1>7. CASE TelemetryExit \/ TelemetryWriteFails
  <2>1. exc = "SystemExit" => BodyInv'
    BY <1>0, <1>7 DEF TelemetryExit, TelemetryWriteFails, ExitCodeInv, BodyInv, Verdict
  <2> QED
    BY <1>0, <1>7, <2>1 DEF TelemetryExit, TelemetryWriteFails, ExitStatus, RtInv, ExitCodeInv,
                            ReportInv, Ended, ExitCode, WARN, OK, CRITICAL, UNKNOWN
<1>8. CASE TelemetrySinkFails
  BY <1>0, <1>8 DEF TelemetrySinkFails, Dies, RtInv, ExitCodeInv, ReportInv, Ended, ExitCode,
                   WARN, OK, CRITICAL, UNKNOWN
<1>9. CASE UNCHANGED vars
  <2>1. BodyInv <=> BodyInv'
    BY <1>9 DEF vars, BodyInv, Verdict
  <2> QED
    BY <1>0, <1>9, <2>1 DEF vars, RtInv, ExitCodeInv, ReportInv, Ended
<1> QED
  BY <1>1, <1>2, <1>3, <1>4, <1>5, <1>6, <1>7, <1>8, <1>9 DEF Next

\* Every state of an invocation satisfies the inductive invariant.
THEOREM RtInvariant == Spec => []RtInv
  BY RtInitInv, RtNextInv, PTL DEF Spec

---------------------------------------------------------------------------

\* Every state of an invocation has its type: what is printed, recorded and
\* exited with is an exit code.
THEOREM RtTypeCorrect == Spec => []RtTypeOK
<1>1. RtInv => RtTypeOK
  BY DEF RtInv
<1> QED
  BY <1>1, RtInvariant, PTL

\* The exit status, the record and the printed line of an invocation that did
\* not crash are the same verdict.
THEOREM ReportsAlwaysAgree == Spec => []ReportsAgree
<1>1. RtInv => ReportsAgree
  BY DEF RtInv, ReportInv, ReportsAgree
<1> QED
  BY <1>1, RtInvariant, PTL

\* An invocation that crashed, in a check, a flag, a context or a sink, exits
\* with a status that is not OK and leaves no record but UNKNOWN.
THEOREM CrashesNotHealthy == Spec => []CrashNotHealthy
<1>1. RtInv => CrashNotHealthy
  BY DEF RtInv, ReportInv, CrashNotHealthy, OK
<1> QED
  BY <1>1, RtInvariant, PTL

\* The exit status of an invocation that ended normally is the verdict of one
\* of its items, and no item has a worse one.
THEOREM WorstItemDecides == Spec => []WorstItemReported
<1>1. RtInv => WorstItemReported
  BY DEF RtInv, ReportInv, ExitCodeInv, BodyInv, Verdict, WorstItemReported
<1> QED
  BY <1>1, RtInvariant, PTL

\* An invocation that exits with OK looked at all its items and found none
\* that is worse, or was switched off before it looked at any.
THEOREM HealthyIsEarned == Spec => []HealthyMeansAllHealthy
<1>1. RtInv => HealthyMeansAllHealthy
  <2> SUFFICES ASSUME RtInv, Ended, status = OK
               PROVE  \/ exc = "none" /\ seen = {}
                      \/ /\ left = 0
                         /\ seen # {}
                         /\ \A o \in seen : Command[name].verdict[o] \in {OK, UNKNOWN}
    BY DEF HealthyMeansAllHealthy
  <2>1. exc # "Exception" /\ exit_code = OK
    BY DEF RtInv, ReportInv, OK
  <2>2. CASE exc = "none"
    BY <2>1, <2>2 DEF RtInv, ExitCodeInv, OK, UNKNOWN
  <2>3. CASE exc = "SystemExit"
    <3>1. BodyInv /\ overall = OK /\ left = 0
      BY <2>1, <2>3 DEF RtInv, ExitCodeInv
    <3>2. seen # {}
      BY <3>1 DEF BodyInv, OK, UNKNOWN
    <3>3. ASSUME NEW o \in seen PROVE Verdict(o) \in {OK, UNKNOWN}
      BY <3>1, <3>3 DEF BodyInv, ExitCode, OK, WARN, CRITICAL, UNKNOWN, Gt
    <3> QED
      BY <3>1, <3>2, <3>3 DEF Verdict
  <2> QED
    BY <2>1, <2>2, <2>3 DEF RtInv, RtTypeOK
<1> QED
  BY <1>1, RtInvariant, PTL

---------------------------------------------------------------------------
(* Which verdicts a check has given.  From here on the table is that of the  *)
(* commands of the code, over any outcomes.                                 *)

\* What was seen is an outcome of the check that is run.
SeenInv == name \in DOMAIN Command /\ seen \subseteq Outcomes(name)

\* The name of the check does not change, and items are outcomes of it.
LEMMA SeenAlways == Spec => []SeenInv
<1>1. Init => SeenInv
  BY DEF Init, SeenInv
<1>2. SeenInv /\ [Next]_vars => SeenInv'
  <2> SUFFICES ASSUME SeenInv, [Next]_vars PROVE SeenInv'
    OBVIOUS
  <2> USE DEF SeenInv, Outcomes
  <2>1. ASSUME NEW o \in DOMAIN Command[name].verdict, CheckItem(o) PROVE SeenInv'
    BY <2>1 DEF CheckItem
  <2>2. CASE UNCHANGED <<name, seen>>
    BY <2>2
  <2> QED
    BY <2>1, <2>2 DEF Next, Enter, EnterFails, Killswitch, finish, OutputExit, TelemetryExit,
                      TelemetryWriteFails, TelemetrySinkFails, vars
<1> QED
  BY <1>1, <1>2, PTL DEF Spec

---------------------------------------------------------------------------
(* Commands that failed *)

\* A check whose command failed is neither OK nor unknown, unless the return
\* code is an answer.
SeesFailure(check) ==
  \A o \in Outcomes(check) : Failed(o) =>
    \/ o.rc \in AnswerCodes(check)
    \/ Command[check].verdict[o] \notin {OK, UNKNOWN}

\* check_dcgmi, check_nccl, memtest.
LEMMA GpuSeesFailure ==
  \A check \in {"dcgmi_diag", "nccl_tests", "cuda_memtest"} : SeesFailure(check)
<1> USE DEF Follows, SeesFailure, Failed, Graded, OK, WARN, CRITICAL, UNKNOWN, Raises
<1>1. SeesFailure("dcgmi_diag")
  BY GpuAssumption DEF process_dcgmi_diag_output, AnswerCodes
<1>2. SeesFailure("nccl_tests")
  BY GpuAssumption DEF process_nccl_test_ouput
<1>3. SeesFailure("cuda_memtest")
  BY GpuAssumption DEF run_cuda_memtests_concurrently
<1> QED
  BY <1>1, <1>2, <1>3

\* check_storage and check_processor.
LEMMA HostSeesFailure ==
  \A check \in {"disk_usage", "mounted_dir", "disk_size", "disk_size_lt", "proc_freq",
                "freq_governor", "check_mem_size", "check_clocksource"} : SeesFailure(check)
<1> USE DEF Follows, SeesFailure, Failed, Graded, OK, WARN, CRITICAL, UNKNOWN, Raises
<1>1. SeesFailure("disk_usage") /\ SeesFailure("mounted_dir")
  BY StorageAssumption DEF process_disk_usage, process_mount_status
<1>2. ASSUME NEW check \in {"disk_size", "disk_size_lt"} PROVE SeesFailure(check)
  BY StorageAssumption DEF process_disk_size
<1>3. SeesFailure("proc_freq") /\ SeesFailure("freq_governor")
  BY ProcessorAssumption DEF process_cpu_freq, process_cpufreq_governor
<1>4. SeesFailure("check_mem_size")
  <2>1. \A o, m, n : Failed(o) => process_mem_info(o, m, n) = WARN
    BY Zenon DEF process_mem_info
  <2> QED
    BY <2>1, ProcessorAssumption
<1>5. SeesFailure("check_clocksource")
  BY ProcessorAssumption DEF clocksource_code
<1> QED
  BY <1>1, <1>2, <1>3, <1>4, <1>5

\* check_syslogs and check_node.
LEMMA LogSeesFailure ==
  \A check \in {"link_flap", "xid_errors", "io_errors", "mce_errors", "pcie_aer_errors",
                "check_uptime", "check_module", "check_dnf_repos"} : SeesFailure(check)
<1> USE DEF Follows, SeesFailure, Failed, Graded, OK, WARN, CRITICAL, UNKNOWN, Raises
<1>1. SeesFailure("link_flap")
  <2>1. \A o \in Outcomes("link_flap") : o.rc \in Int
    BY OutcomeAssumption DEF ShellChecks
  <2>2. \A o : o.rc > 1 => process_link_flap_output(o) = WARN
    BY DEF process_link_flap_output
  <2>3. AnswerCodes("link_flap") = {1}
    BY DEF AnswerCodes
  <2> QED
    BY <2>1, <2>2, <2>3, SyslogAssumption
<1>2. SeesFailure("xid_errors") /\ SeesFailure("io_errors")
  <2>1. \A o : Failed(o) => process_xid_output(o) = WARN /\ process_io_errors_output(o) = WARN
    BY DEF process_xid_output, process_io_errors_output
  <2> QED
    BY <2>1, SyslogAssumption
<1>3. SeesFailure("mce_errors") /\ SeesFailure("pcie_aer_errors")
  BY SyslogAssumption DEF process_mce_output, process_pcie_aer_output
<1>4. SeesFailure("check_uptime") /\ SeesFailure("check_module")
  BY NodeAssumption DEF process_uptime, process_module
<1>5. SeesFailure("check_dnf_repos")
  BY NodeAssumption DEF process_dnf_repos
<1> QED
  BY <1>1, <1>2, <1>3, <1>4, <1>5

\* The checks of the network.
LEMMA NetworkSeesFailure ==
  \A check \in {"check_ibstat", "check_ibstat_physical", "check_ib_interfaces", "hca_count"} :
    SeesFailure(check)
<1> USE DEF Follows, SeesFailure, Failed, Graded, OK, WARN, CRITICAL, UNKNOWN, Raises
<1>1. SeesFailure("check_ibstat") /\ SeesFailure("check_ibstat_physical")
  BY NetworkAssumption DEF process_ibstat_output
<1>2. SeesFailure("check_ib_interfaces")
  <2>1. \A o, n : Failed(o) => process_ib_interfaces_output(o, n) = WARN
    BY Zenon DEF process_ib_interfaces_output
  <2> QED
    BY <2>1, NetworkAssumption
<1>3. SeesFailure("hca_count")
  BY NetworkAssumption DEF hca_code
<1> QED
  BY <1>1, <1>2, <1>3

\* The checks of services, users and processes.
LEMMA ServiceSeesFailure ==
  \A check \in {"service_status", "package_version", "check_ssh", "slrmctld_count",
                "slurm_state", "slurm_cluster_avail", "pass_status",
                "user_access_path_check", "airstore_credential_count", "check_zombie",
                "running_process", "check_sensors"} : SeesFailure(check)
<1> USE DEF Follows, SeesFailure, Failed, Graded, OK, WARN, CRITICAL, UNKNOWN, Raises
<1>1. SeesFailure("service_status") /\ SeesFailure("package_version")
        /\ SeesFailure("check_ssh")
  BY ServiceAssumption DEF service_code, package_code, ssh_code
<1>2. SeesFailure("slrmctld_count") /\ SeesFailure("slurm_state")
  BY ServiceAssumption DEF process_slurmctld_count_output, process_node_state
<1>3. SeesFailure("slurm_cluster_avail")
  <2>1. \A o, m, n : Failed(o) => process_cluster_state(o, m, n) = WARN
    BY Zenon DEF process_cluster_state
  <2> QED
    BY <2>1, ServiceAssumption
<1>4. SeesFailure("pass_status") /\ SeesFailure("user_access_path_check")
  BY ServiceAssumption DEF process_pass_status, process_path_access_status
<1>5. SeesFailure("airstore_credential_count")
  BY ServiceAssumption DEF process_flash_array_credential_count
<1>6. SeesFailure("check_zombie") /\ SeesFailure("running_process")
  BY ProcessAssumption DEF process_zombie_procs, running_process_code
<1>7. SeesFailure("check_sensors")
  BY ProcessAssumption DEF sensors_code, process_sensors_out
<1> QED
  BY <1>1, <1>2, <1>3, <1>4, <1>5, <1>6, <1>7

\* No check is healthy whose command failed, timed out or could not be started,
\* whatever else the command printed and whatever the thresholds are.
THEOREM BlindIsNeverHealthy == Spec => []BlindNotHealthy
<1>1. \A check \in ShellChecks : SeesFailure(check)
  BY GpuSeesFailure, HostSeesFailure, LogSeesFailure, NetworkSeesFailure,
     ServiceSeesFailure DEF ShellChecks
<1>2. HealthyMeansAllHealthy /\ SeenInv => BlindNotHealthy
  BY <1>1 DEF HealthyMeansAllHealthy, SeenInv, BlindNotHealthy, SeesFailure
<1> QED
  BY <1>2, HealthyIsEarned, SeenAlways, PTL

---------------------------------------------------------------------------
(* Reports with more lines *)

\* What is critical stays critical, what is a warning stays one or gets worse.
LEMMA GradedGrows ==
  ASSUME NEW a, NEW b, NEW c, NEW d, a => c, b => c \/ d
  PROVE  ~ Gt(Graded(a, b), Graded(c, d))
  BY DEF Gt, Graded, OK, WARN, CRITICAL, UNKNOWN

\* Reports o and p of the same return code, of which p has all the lines of o.
Grows(o, p) == o.rc = p.rc /\ o.text # <<>> /\ Lines(o) \subseteq Lines(p)

\* The verdict of a check does not get better with more lines.
NotBetter(check) ==
  \A o, p \in Outcomes(check) :
    Grows(o, p) /\ Command[check].verdict[o] # Raises
      => ~ Gt(Command[check].verdict[o], Command[check].verdict[p])

\* A report with some lines has a first one, and it is one of its lines.
LEMMA SomeLine ==
  ASSUME NEW o, o.text \in Seq(Lines(o)), o.text # <<>>
  PROVE  Len(o.text) \in Nat \ {0} /\ Head(o.text) \in Lines(o) /\ Head(o.text) = o.text[1]
  BY DEF Lines

\* A report that has all the lines of another has some if that one has.
LEMMA GrowsSome ==
  ASSUME NEW o, NEW p, o.text \in Seq(Lines(o)), p.text \in Seq(Lines(p)), Grows(o, p)
  PROVE  p.text # <<>> /\ Lines(o) # {}
<1>1. Lines(o) # {} /\ Lines(p) # {}
  BY SomeLine DEF Grows
<1>2. p.text = <<>> => Lines(p) = {}
  BY DEF Lines
<1> QED
  BY <1>1, <1>2

\* The checks whose verdict is a matter of which lines there are.
LEMMA XidGrows == NotBetter("xid_errors")
<1> SUFFICES ASSUME NEW o, NEW p, Grows(o, p)
             PROVE  ~ Gt(process_xid_output(o), process_xid_output(p))
  BY SyslogAssumption DEF NotBetter, Follows
<1>0. Failed(o) <=> Failed(p)
  BY DEF Grows, Failed
<1>1. CASE Failed(o)
  BY <1>0, <1>1 DEF process_xid_output, Gt, WARN, UNKNOWN
<1>2. CASE ~ Failed(o)
  BY <1>0, <1>2, GradedGrows DEF Grows, process_xid_output
<1> QED
  BY <1>1, <1>2

\* Link flaps: InfiniBand is critical, Ethernet a warning.
LEMMA LinkFlapGrows == NotBetter("link_flap")
<1> SUFFICES ASSUME NEW o, NEW p, Grows(o, p)
             PROVE  ~ Gt(process_link_flap_output(o), process_link_flap_output(p))
  BY SyslogAssumption DEF NotBetter, Follows
<1>0. o.rc > 1 <=> p.rc > 1
  BY DEF Grows
<1>1. CASE o.rc > 1
  <2>1. process_link_flap_output(o) = WARN /\ process_link_flap_output(p) = WARN
    BY <1>0, <1>1 DEF process_link_flap_output
  <2> QED
    BY <2>1 DEF Gt, WARN, UNKNOWN
<1>2. CASE ~ (o.rc > 1)
  <2>1. /\ Lines(o) \cap {"ib", "ib eth"} # {} => Lines(p) \cap {"ib", "ib eth"} # {}
        /\ Lines(o) \cap {"eth", "ib eth"} # {} => Lines(p) \cap {"eth", "ib eth"} # {}
    BY DEF Grows
  <2> QED
    BY <1>0, <1>2, <2>1, GradedGrows DEF process_link_flap_output
<1> QED
  BY <1>1, <1>2

\* Any line is an I/O error.
LEMMA IoErrorsGrow == NotBetter("io_errors")
<1> SUFFICES ASSUME NEW o \in Outcomes("io_errors"), NEW p \in Outcomes("io_errors"),
                    Grows(o, p)
             PROVE  ~ Gt(process_io_errors_output(o), process_io_errors_output(p))
  BY SyslogAssumption DEF NotBetter, Follows
<1>0. Failed(o) <=> Failed(p)
  BY DEF Grows, Failed
<1>1. p.text # <<>>
  BY GrowsSome, OutcomeAssumption DEF ShellChecks
<1>2. CASE Failed(o)
  BY <1>0, <1>2 DEF process_io_errors_output, Gt, WARN, UNKNOWN
<1>3. CASE ~ Failed(o)
  BY <1>0, <1>1, <1>3, GradedGrows DEF process_io_errors_output, Empty
<1> QED
  BY <1>2, <1>3

\* The severities of more lines are more severities.
LEMMA SeveritiesGrow ==
  ASSUME NEW o, NEW p, Grows(o, p), NEW patterns
  PROVE  classify_lines(o, patterns) \subseteq classify_lines(p, patterns)
  BY DEF Grows, classify_lines

\* Machine check exceptions and PCIe errors, by their severity.
LEMMA SeverityChecksGrow == NotBetter("mce_errors") /\ NotBetter("pcie_aer_errors")
<1>1. ASSUME NEW o, NEW p, Grows(o, p)
      PROVE  /\ ~ Gt(process_mce_output(o), process_mce_output(p))
             /\ ~ Gt(process_pcie_aer_output(o), process_pcie_aer_output(p))
  <2>1. Failed(o) <=> Failed(p)
    BY <1>1 DEF Grows, Failed
  <2>2. /\ classify_lines(o, MCE_SEVERITY_PATTERNS)
             \subseteq classify_lines(p, MCE_SEVERITY_PATTERNS)
        /\ classify_lines(o, PCIE_AER_SEVERITY_PATTERNS)
             \subseteq classify_lines(p, PCIE_AER_SEVERITY_PATTERNS)
    BY <1>1, SeveritiesGrow
  <2>3. CASE Failed(o)
    BY <2>1, <2>3 DEF process_mce_output, process_pcie_aer_output, Gt, WARN, UNKNOWN
  <2>4. CASE ~ Failed(o)
    BY <2>1, <2>2, <2>4, GradedGrows DEF process_mce_output, process_pcie_aer_output
  <2> QED
    BY <2>3, <2>4
<1> QED
  BY <1>1, SyslogAssumption DEF NotBetter, Follows

\* Zombies: a line that is no number is a warning, and so is an old zombie.
LEMMA ZombiesGrow == NotBetter("check_zombie")
<1> PICK n \in Thresholds : Follows("check_zombie", LAMBDA o : process_zombie_procs(o, n))
  BY ProcessAssumption
<1> SUFFICES ASSUME NEW o, NEW p, Grows(o, p)
             PROVE  ~ Gt(process_zombie_procs(o, n), process_zombie_procs(p, n))
  BY DEF NotBetter, Follows
<1>0. (Failed(o) <=> Failed(p)) /\ Lines(o) \subseteq Lines(p)
  BY DEF Grows, Failed
<1>1. CASE Failed(p) \/ NoNumber \in Lines(p)
  <2>1. process_zombie_procs(p, n) = WARN
    BY <1>1, Zenon DEF process_zombie_procs
  <2>2. process_zombie_procs(o, n) \in {OK, WARN}
    BY Zenon DEF process_zombie_procs, Graded
  <2> QED
    BY <2>1, <2>2 DEF Gt, OK, WARN, UNKNOWN
<1>2. CASE ~ (Failed(p) \/ NoNumber \in Lines(p))
  <2>1. (\E t \in Lines(o) : t > n) => (\E t \in Lines(p) : t > n)
    BY <1>0
  <2>2. \A q : ~ (Failed(q) \/ NoNumber \in Lines(q)) =>
          process_zombie_procs(q, n) = Graded(FALSE, \E t \in Lines(q) : t > n)
    BY Zenon DEF process_zombie_procs
  <2>3. ~ (Failed(o) \/ NoNumber \in Lines(o))
    BY <1>0, <1>2
  <2>4. /\ process_zombie_procs(o, n) = Graded(FALSE, \E t \in Lines(o) : t > n)
        /\ process_zombie_procs(p, n) = Graded(FALSE, \E t \in Lines(p) : t > n)
    BY <1>2, <2>2, <2>3, Zenon
  <2> QED
    BY <2>1, <2>4, GradedGrows, Zenon
<1> QED
  BY <1>1, <1>2

\* The links of ibstat: one line that is not as wanted is critical.
LEMMA IbstatGrows == NotBetter("check_ibstat") /\ NotBetter("check_ibstat_physical")
<1>1. ASSUME NEW o, NEW p, o.text \in Seq(Lines(o)), p.text \in Seq(Lines(p)), Grows(o, p),
             NEW physical \in BOOLEAN
      PROVE  ~ Gt(process_ibstat_output(o, physical), process_ibstat_output(p, physical))
  <2> DEFINE wanted == IF physical THEN "LinkUp" ELSE "Active"
  <2>1. /\ Failed(o) <=> Failed(p)
        /\ ~ Empty(o) /\ ~ Empty(p)
    BY <1>1, GrowsSome DEF Grows, Failed, Empty
  <2>2. Lines(o) # {wanted} => Lines(p) # {wanted}
    BY <1>1, GrowsSome DEF Grows
  <2>3. \A q : ~ Failed(q) /\ ~ Empty(q) =>
          process_ibstat_output(q, physical) = Graded(Lines(q) # {wanted}, FALSE)
    BY DEF process_ibstat_output
  <2>4. CASE Failed(o)
    BY <2>1, <2>4 DEF process_ibstat_output, Gt, WARN, UNKNOWN
  <2>5. CASE ~ Failed(o)
    <3> HIDE DEF wanted
    <3> QED
      BY <2>1, <2>2, <2>3, <2>5, GradedGrows
  <2> QED
    BY <2>4, <2>5
<1>2. \A check \in {"check_ibstat", "check_ibstat_physical"} : \A o \in Outcomes(check) :
        o.text \in Seq(Lines(o))
  BY OutcomeAssumption DEF ShellChecks
<1> QED
  BY <1>1, <1>2, NetworkAssumption DEF NotBetter, Follows

\* The governors of the processors: uniq leaves one line if all are equal, so
\* more than one governor is more than one line.
LEMMA GovernorsGrow == NotBetter("freq_governor")
<1>0. PICK governor \in {"performance", "powersave"} :
        Follows("freq_governor", LAMBDA o : process_cpufreq_governor(o, governor))
  BY ProcessorAssumption
<1> SUFFICES ASSUME NEW o \in Outcomes("freq_governor"), NEW p \in Outcomes("freq_governor"),
                    Grows(o, p)
             PROVE  ~ Gt(process_cpufreq_governor(o, governor),
                         process_cpufreq_governor(p, governor))
  BY <1>0 DEF NotBetter, Follows
<1>1. \A q \in {o, p} : q.text \in Seq(Lines(q))
  BY OutcomeAssumption DEF ShellChecks
<1>2. /\ Failed(o) <=> Failed(p)
      /\ o.text # <<>> /\ p.text # <<>>
      /\ ~ Empty(o) /\ ~ Empty(p)
      /\ Lines(o) \subseteq Lines(p)
  BY <1>1, GrowsSome DEF Grows, Failed, Empty
<1>3. \A q \in {o, p} : /\ Len(q.text) \in Nat \ {0}
                        /\ Head(q.text) \in Lines(q)
                        /\ Len(q.text) = 1 => Lines(q) = {Head(q.text)}
  <2> TAKE q \in {o, p}
  <2>1. Len(q.text) \in Nat \ {0} /\ Head(q.text) \in Lines(q) /\ Head(q.text) = q.text[1]
    BY <1>1, <1>2, SomeLine
  <2>2. DOMAIN q.text = 1..Len(q.text)
    BY <1>1
  <2> QED
    BY <2>1, <2>2 DEF Lines
<1> DEFINE n == Len(p.text)
<1>n. /\ n \in Nat \ {0}
      /\ n = 1 => Lines(p) = {Head(p.text)}
  BY <1>3
<1> HIDE DEF n
<1>4. ASSUME Len(o.text) > 1 PROVE n > 1
  <2>1. o.text[1] # o.text[2]
    BY <1>3, <1>4, OutcomeAssumption
  <2>2. o.text[1] \in Lines(o) /\ o.text[2] \in Lines(o)
    BY <1>1, <1>3, <1>4 DEF Lines
  <2>3. n # 1
    BY <1>2, <1>n, <2>1, <2>2
  <2> QED
    BY <1>n, <2>3
<1>5. ASSUME Head(o.text) # governor PROVE n > 1 \/ Head(p.text) # governor
  <2>1. Head(o.text) \in Lines(p)
    BY <1>2, <1>3
  <2>2. n = 1 => Head(o.text) = Head(p.text)
    BY <1>n, <2>1
  <2> QED
    BY <1>5, <1>n, <2>2
<1>6. CASE Failed(o)
  BY <1>2, <1>6 DEF process_cpufreq_governor, Gt, WARN, UNKNOWN
<1>7. CASE ~ Failed(o)
  BY <1>2, <1>4, <1>5, <1>7, GradedGrows DEF process_cpufreq_governor, n
<1> QED
  BY <1>6, <1>7

\* Sensors: an exception is the only line of its outcome.
LEMMA SensorsGrow == NotBetter("check_sensors")
<1> SUFFICES ASSUME NEW o \in Outcomes("check_sensors"), NEW p \in Outcomes("check_sensors"),
                    Grows(o, p), sensors_code(o) # Raises
             PROVE  ~ Gt(sensors_code(o), sensors_code(p))
  BY ProcessAssumption DEF NotBetter, Follows
<1>1. o.text \in Seq(Lines(o)) /\ p.text \in Seq(Lines(p))
  BY OutcomeAssumption DEF ShellChecks
<1>2. ~ OtherException(o)
  BY DEF sensors_code
<1>3. CASE OtherException(p)
  <2>1. Lines(p) = {Junk}
    BY <1>3 DEF OtherException, Out, Lines
  <2>2. Junk \in Lines(o) /\ o.rc = 2
    BY <1>1, <1>3, <2>1, GrowsSome DEF Grows, OtherException, Out
  <2>3. o.text = <<Junk>> /\ o = [rc |-> o.rc, text |-> o.text]
    BY <2>2, OutcomeAssumption DEF ShellChecks
  <2> QED
    BY <1>2, <2>2, <2>3 DEF OtherException, Out
<1>4. CASE ~ OtherException(p)
  <2>1. sensors_code(o) = process_sensors_out(o) /\ sensors_code(p) = process_sensors_out(p)
    BY <1>2, <1>4 DEF sensors_code
  <2>2. (o.rc # 0 <=> p.rc # 0) /\ Lines(o) \subseteq Lines(p)
    BY DEF Grows
  <2>3. CASE o.rc # 0
    BY <2>1, <2>2, <2>3 DEF process_sensors_out, Gt, WARN, UNKNOWN
  <2>4. CASE o.rc = 0
    BY <2>1, <2>2, <2>4, GradedGrows DEF process_sensors_out
  <2> QED
    BY <2>3, <2>4
<1> QED
  BY <1>3, <1>4

\* DCGM: the tests of a report that can be read are judged one by one.
LEMMA DiagGrows == NotBetter("dcgmi_diag")
<1> SUFFICES ASSUME NEW o \in Outcomes("dcgmi_diag"), NEW p \in Outcomes("dcgmi_diag"),
                    Grows(o, p), process_dcgmi_diag_output(o) # Raises
             PROVE  ~ Gt(process_dcgmi_diag_output(o), process_dcgmi_diag_output(p))
  BY GpuAssumption DEF NotBetter, Follows
<1> DEFINE bad(q) == Failed(q) /\ q.rc \notin NON_FATAL_ERRORS
           results(q) == {_get_test_status(t) : t \in {u \in Lines(q) : ~ u.excluded}}
<1>1. o.text \in Seq(Lines(o)) /\ p.text \in Seq(Lines(p))
  BY OutcomeAssumption DEF ShellChecks
<1>2. /\ bad(o) <=> bad(p)
      /\ ~ Empty(o) /\ ~ Empty(p)
      /\ Lines(o) \subseteq Lines(p) /\ Lines(o) # {}
  BY <1>1, GrowsSome DEF Grows, Failed, Empty
<1>3. \A l \in {BadJson, NoReport} : l \in Lines(p) => Lines(o) = {l}
  <2> TAKE l \in {BadJson, NoReport}
  <2> HAVE l \in Lines(p)
  <2>1. p.text = <<l>>
    BY OutcomeAssumption
  <2>2. Lines(p) = {l}
    BY <2>1 DEF Lines
  <2> QED
    BY <1>2, <2>2
<1>4. BadJson # NoReport
  BY DEF BadJson, NoReport, Test, Junk
<1>5. CASE bad(o)
  <2>1. process_dcgmi_diag_output(o) = WARN /\ process_dcgmi_diag_output(p) = WARN
    BY <1>2, <1>5 DEF process_dcgmi_diag_output
  <2> QED
    BY <2>1 DEF Gt, WARN, UNKNOWN
<1>6. CASE ~ bad(o)
  <2>1. BadJson \notin Lines(o)
    BY <1>2, <1>6 DEF process_dcgmi_diag_output
  <2>2. BadJson \notin Lines(p)
    BY <1>3, <2>1
  <2>3. \A q \in {o, p} : process_dcgmi_diag_output(q) =
          IF NoReport \in Lines(q) THEN WARN ELSE Graded("Fail" \in results(q), "Warn" \in results(q))
    BY <1>2, <1>6, <2>1, <2>2 DEF process_dcgmi_diag_output
  <2>4. NoReport \in Lines(o) <=> NoReport \in Lines(p)
    BY <1>2, <1>3
  <2>5. results(o) \subseteq results(p)
    BY <1>2
  <2>6. CASE NoReport \in Lines(o)
    BY <2>3, <2>4, <2>6 DEF Gt, WARN, UNKNOWN
  <2>7. CASE NoReport \notin Lines(o)
    <3>1. /\ process_dcgmi_diag_output(o) = Graded("Fail" \in results(o), "Warn" \in results(o))
          /\ process_dcgmi_diag_output(p) = Graded("Fail" \in results(p), "Warn" \in results(p))
      BY <2>3, <2>4, <2>7
    <3> HIDE DEF results
    <3> QED
      BY <2>5, <3>1, GradedGrows
  <2> QED
    BY <2>6, <2>7
<1> QED
  BY <1>5, <1>6

\* No check that reports faults gets better when there are more of them.
LEMMA ReportsGrow == SeenInv => MoreFaultsNotBetter
<1>1. \A check \in FaultReports : NotBetter(check)
  BY XidGrows, LinkFlapGrows, IoErrorsGrow, SeverityChecksGrow, ZombiesGrow, IbstatGrows,
     GovernorsGrow, SensorsGrow, DiagGrows DEF FaultReports
<1> QED
  BY <1>1 DEF MoreFaultsNotBetter, SeenInv, NotBetter, Grows, Outcomes

---------------------------------------------------------------------------
(* Devices of the manifest *)

\* A check that is OK with some devices is OK with each of them.
OkWithEach(check) ==
  \A o, p \in Outcomes(check) : \A d :
    /\ Command[check].verdict[o] = OK
    /\ d \in Devices(check, o)
    /\ Devices(check, p) = {d}
    => Command[check].verdict[p] = OK

\* A verdict that starts from OK is OK if nothing was found.
LEMMA GradedOk ==
  ASSUME NEW a, NEW b
  PROVE  Graded(a, b) = OK <=> ~ a /\ ~ b
  BY DEF Graded, OK, WARN, CRITICAL

\* Disks.
LEMMA DisksOk == OkWithEach("check_blockdev")
<1>1. ASSUME NEW o, NEW d \in o, blockdev_code(o) = OK
      PROVE  blockdev_code({d}) = OK
  BY <1>1 DEF blockdev_code, process_check_blockdev, Graded, OK, WARN, CRITICAL
<1>2. \A o : Devices("check_blockdev", o) = o
  BY DEF Devices
<1> QED
  BY <1>1, <1>2, StorageAssumption DEF OkWithEach, Follows

\* Ethernet interfaces.
LEMMA InterfacesOk == OkWithEach("check_ethlink")
<1>1. ASSUME NEW ds, NEW d \in ds, process_ethlink(ds) = OK
      PROVE  process_ethlink({d}) = OK
  <2>1. check_cfg_macaddr(ds) = OK /\ check_link_state(ds) = OK /\ check_link_speed(ds) = OK
    BY <1>1 DEF process_ethlink
  <2>2. check_cfg_macaddr({d}) = OK
    BY <1>1, <2>1 DEF check_cfg_macaddr, Graded, OK, CRITICAL
  <2>3. check_link_state({d}) = OK
    BY <1>1, <2>1 DEF check_link_state, Graded, OK, WARN, CRITICAL
  <2>4. check_link_speed({d}) = OK
    BY <1>1, <2>1 DEF check_link_speed, Graded, OK, WARN
  <2> QED
    BY <2>2, <2>3, <2>4 DEF process_ethlink
<1>2. \A o : Devices("check_ethlink", o) = o.devices
  BY DEF Devices
<1>3. \A o \in Outcomes("check_ethlink") : \A d : d \in o.devices => ~ o.raised
  BY OutcomeAssumption
<1> QED
  BY <1>1, <1>2, <1>3, NetworkAssumption
     DEF OkWithEach, Follows, ethlink_code, OK, WARN

\* InfiniBand cards.
LEMMA CardsOk == OkWithEach("check_iblink")
<1>1. ASSUME NEW cards, NEW c \in cards, process_iblink(cards) = OK
      PROVE  process_iblink({c}) = OK
  <2>1. UNION {validate_ib(d) : d \in cards} = {}
    BY <1>1, GradedOk DEF process_iblink
  <2>2. UNION {validate_ib(d) : d \in {c}} = {}
    BY <1>1, <2>1
  <2> QED
    BY <2>2, GradedOk DEF process_iblink
<1>2. \A o : Devices("check_iblink", o) = o.cards
  BY DEF Devices
<1>3. \A o \in Outcomes("check_iblink") : \A d : d \in o.cards => ~ o.raised
  BY OutcomeAssumption
<1> QED
  BY <1>1, <1>2, <1>3, NetworkAssumption
     DEF OkWithEach, Follows, iblink_code, OK, WARN

\* Every set of numbers has a least one.
LEMMA LeastNumber ==
  ASSUME NEW T, T \subseteq Nat, T # {}
  PROVE  \E x \in T : \A y \in T : x <= y
<1> DEFINE R == OpToRel(<, Nat)
<1>1. \A x, y \in Nat : y < x => <<y, x>> \in R
  BY DEF OpToRel
<1>2. IsWellFoundedOn(R, Nat)
  BY NatLessThanWellFounded
<1> HIDE DEF R
<1>3. PICK x \in T : \A y \in T : ~ (<<y, x>> \in R)
  BY <1>2, WFMin
<1>4. \A y \in T : ~(y < x)
  BY <1>1, <1>3
<1>5. x \in Nat /\ \A y \in T : y \in Nat
  OBVIOUS
<1> QED
  BY <1>4, <1>5

\* The PCI check is OK if and only if all links are good: a loop that stopped
\* early has not counted all of them.
LEMMA PciStateOk ==
  ASSUME NEW links \in Seq(PciLink)
  PROVE  check_pci_state(links) = OK <=> \A i \in DOMAIN links : links[i].link = "good"
<1> DEFINE n == Len(links)
           stops == {i \in DOMAIN links : links[i].link = "missing"
                                            /\ links[i].topology_critical}
           looked == IF stops = {} THEN DOMAIN links ELSE 1..Min(stops)
           good == {i \in looked : links[i].link = "good"}
<1>1. DOMAIN links = 1..n /\ n \in Nat
  OBVIOUS
<1>2. check_pci_state(links) = OK <=> Cardinality(good) = n
  BY GradedOk DEF check_pci_state
<1>3. stops # {} => Min(stops) \in stops
  <2> HAVE stops # {}
  <2>1. stops \subseteq Nat
    BY <1>1
  <2>2. \E x \in stops : \A y \in stops : x <= y
    BY <2>1, LeastNumber
  <2> HIDE DEF stops
  <2> QED
    BY <2>2 DEF Min
<1>4. looked \subseteq 1..n
  <2>1. CASE stops = {}
    BY <1>1, <2>1
  <2>2. CASE stops # {}
    <3>1. Min(stops) \in 1..n
      BY <1>1, <1>3, <2>2
    <3>2. looked = 1..Min(stops)
      BY <2>2
    <3> HIDE DEF looked, stops
    <3> QED
      BY <1>1, <3>1, <3>2
  <2> QED
    BY <2>1, <2>2
<1>5. IsFiniteSet(1..n) /\ Cardinality(1..n) = n
  BY <1>1, FS_Interval
<1>6. good \in SUBSET (1..n)
  BY <1>4
<1>7. ASSUME Cardinality(good) = n PROVE \A i \in DOMAIN links : links[i].link = "good"
  <2>1. good = 1..n
    <3> HIDE DEF good, n
    <3> QED
      BY <1>5, <1>6, <1>7, FS_Subset
  <2> QED
    BY <1>1, <2>1
<1>8. ASSUME \A i \in DOMAIN links : links[i].link = "good" PROVE Cardinality(good) = n
  <2>1. stops = {}
    BY <1>8
  <2>2. good = 1..n
    BY <1>1, <1>8, <2>1
  <2> QED
    BY <1>5, <2>2
<1> QED
  BY <1>2, <1>7, <1>8

\* PCI devices.
LEMMA LinksOk == OkWithEach("check_pci")
<1>1. ASSUME NEW o \in Outcomes("check_pci"), NEW p \in Outcomes("check_pci"), NEW d,
             pci_code(o) = OK, d \in ToSet(o.links), ToSet(p.links) = {d}
      PROVE  pci_code(p) = OK
  <2>1. o.links \in Seq(PciLink) /\ p.links \in Seq(PciLink)
    BY OutcomeAssumption
  <2>2. p.raised \in BOOLEAN /\ (p.raised => p.links = <<>>)
    BY OutcomeAssumption
  <2>3. ~ p.raised
    <3>1. p.links # <<>>
      BY <1>1 DEF ToSet
    <3> QED
      BY <2>2, <3>1
  <2>4. check_pci_state(o.links) = OK
    BY <1>1 DEF pci_code, OK, WARN
  <2>5. d.link = "good"
    BY <1>1, <2>1, <2>4, PciStateOk DEF ToSet
  <2>6. \A i \in DOMAIN p.links : p.links[i].link = "good"
    BY <1>1, <2>5 DEF ToSet
  <2> QED
    BY <2>1, <2>3, <2>6, PciStateOk DEF pci_code
<1>2. \A o : Devices("check_pci", o) = ToSet(o.links)
  BY DEF Devices
<1> QED
  BY <1>1, <1>2, NetworkAssumption DEF OkWithEach, Follows

\* No check against the manifest hides a bad device among good ones.
LEMMA DevicesAlone == SeenInv => OneBadDeviceSuffices
<1>1. \A check \in ManifestChecks : OkWithEach(check)
  BY DisksOk, InterfacesOk, CardsOk, LinksOk DEF ManifestChecks
<1> QED
  BY <1>1 DEF OneBadDeviceSuffices, SeenInv, OkWithEach, Outcomes

---------------------------------------------------------------------------
(* Hosts of check_nccl *)

\* A group of one host.
LEMMA GroupOfOne ==
  ASSUME NEW a
  PROVE  a \in ToSet(<<a>>) /\ Cardinality(ToSet(<<a>>)) = 1
<1>1. ToSet(<<a>>) = {a}
  BY DEF ToSet
<1> QED
  BY <1>1, FS_Singleton

\* A group of two hosts.
LEMMA GroupOfTwo ==
  ASSUME NEW a, NEW b, a # b
  PROVE  /\ a \in ToSet(<<a, b>>) /\ b \in ToSet(<<a, b>>)
         /\ Cardinality(ToSet(<<a, b>>)) = 2
<1>1. ToSet(<<a, b>>) = {a} \cup {b}
  BY DEF ToSet
<1>2. IsFiniteSet({a}) /\ Cardinality({a}) = 1
  BY FS_Singleton
<1>3. Cardinality({a} \cup {b}) = 2
  BY <1>2, FS_AddElement
<1> QED
  BY <1>1, <1>3

\* The groups of each flavor, of the hosts 1 to n.
LEMMA GroupsOf ==
  ASSUME NEW n \in Nat
  PROVE  LET hosts == [i \in 1..n |-> i] IN
         /\ get_hosts("single", hosts) = {<<i>> : i \in 1..n}
         /\ n >= 2 => get_hosts("pairwise", hosts) =
              {<<p[1], p[2]>> : p \in {q \in (1..n) \X (1..n) : q[1] < q[2]}}
         /\ n >= 2 => get_hosts("pairwise-quick", hosts) =
              {<<2 * i - 1, 2 * i>> : i \in 1..(n \div 2)}
                \cup (IF n % 2 = 1 THEN {<<n, 1>>} ELSE {})
<1> DEFINE hosts == [i \in 1..n |-> i]
<1>1. Len(hosts) = n /\ \A i \in 1..n : hosts[i] = i
  OBVIOUS
<1> HIDE DEF hosts
<1>2. get_hosts("single", hosts) = {<<i>> : i \in 1..n}
  BY <1>1 DEF get_hosts
<1>3. n >= 2 => get_hosts("pairwise", hosts) =
        {<<p[1], p[2]>> : p \in {q \in (1..n) \X (1..n) : q[1] < q[2]}}
  <2> HAVE n >= 2
  <2>1. get_hosts("pairwise", hosts) =
          {<<hosts[p[1]], hosts[p[2]]>> : p \in {q \in (1..n) \X (1..n) : q[1] < q[2]}}
    BY <1>1 DEF get_hosts
  <2>2. \A p \in (1..n) \X (1..n) : hosts[p[1]] = p[1] /\ hosts[p[2]] = p[2]
    BY <1>1
  <2> QED
    BY <2>1, <2>2
<1>4. n >= 2 => get_hosts("pairwise-quick", hosts) =
        {<<2 * i - 1, 2 * i>> : i \in 1..(n \div 2)}
          \cup (IF n % 2 = 1 THEN {<<n, 1>>} ELSE {})
  <2> HAVE n >= 2
  <2>1. get_hosts("pairwise-quick", hosts) =
          {<<hosts[2 * i - 1], hosts[2 * i]>> : i \in 1..(n \div 2)}
            \cup (IF n % 2 = 1 THEN {<<hosts[n], hosts[1]>>} ELSE {})
    BY <1>1 DEF get_hosts
  <2>2. \A i \in 1..(n \div 2) : 2 * i - 1 \in 1..n /\ 2 * i \in 1..n
    OBVIOUS
  <2>3. \A i \in 1..(n \div 2) : hosts[2 * i - 1] = 2 * i - 1 /\ hosts[2 * i] = 2 * i
    BY <1>1, <2>2
  <2>4. hosts[n] = n /\ hosts[1] = 1
    BY <1>1
  <2>5. {<<hosts[2 * i - 1], hosts[2 * i]>> : i \in 1..(n \div 2)}
          = {<<2 * i - 1, 2 * i>> : i \in 1..(n \div 2)}
    BY <2>3
  <2> QED
    BY <2>1, <2>4, <2>5
<1> QED
  BY <1>2, <1>3, <1>4 DEF hosts

\* Whatever the flavor and however many hosts there are, every host is in a
\* group, and the groups of a pairwise flavor are pairs.
LEMMA HostsTested ==
  ASSUME NEW flavor \in {"single", "pairwise", "pairwise-quick"}, NEW n \in Nat,
         n >= (IF flavor = "single" THEN 1 ELSE 2)
  PROVE  LET hosts  == [i \in 1..n |-> i]
             groups == get_hosts(flavor, hosts)
         IN  /\ \A h \in ToSet(hosts) : \E g \in groups : h \in ToSet(g)
             /\ \A g \in groups :
                  Cardinality(ToSet(g)) = (IF flavor = "single" THEN 1 ELSE 2)
<1> DEFINE hosts == [i \in 1..n |-> i]
           groups == get_hosts(flavor, hosts)
<1>1. ToSet(hosts) = 1..n
  BY DEF ToSet
<1> SUFFICES /\ \A h \in 1..n : \E g \in groups : h \in ToSet(g)
             /\ \A g \in groups :
                  Cardinality(ToSet(g)) = (IF flavor = "single" THEN 1 ELSE 2)
  BY <1>1
<1>2. CASE flavor = "single"
  <2>1. groups = {<<i>> : i \in 1..n}
    BY <1>2, GroupsOf
  <2> HIDE DEF groups, hosts
  <2>2. ASSUME NEW h \in 1..n PROVE \E g \in groups : h \in ToSet(g)
    <3>1. <<h>> \in groups
      BY <2>1
    <3> QED
      BY <3>1, GroupOfOne
  <2>3. ASSUME NEW g \in groups PROVE Cardinality(ToSet(g)) = 1
    <3>1. PICK i \in 1..n : g = <<i>>
      BY <2>1
    <3> QED
      BY <3>1, GroupOfOne
  <2> QED
    BY <1>2, <2>2, <2>3
<1>3. CASE flavor = "pairwise"
  <2>0. n >= 2
    BY <1>3
  <2>1. groups = {<<p[1], p[2]>> : p \in {q \in (1..n) \X (1..n) : q[1] < q[2]}}
    BY <1>3, <2>0, GroupsOf
  <2> HIDE DEF groups, hosts
  <2>2. ASSUME NEW a \in 1..n, NEW b \in 1..n, a < b PROVE <<a, b>> \in groups
    <3>1. <<a, b>> \in {q \in (1..n) \X (1..n) : q[1] < q[2]}
      BY <2>2
    <3> QED
      BY <2>1, <3>1
  <2>3. ASSUME NEW h \in 1..n PROVE \E g \in groups : h \in ToSet(g)
    <3>1. CASE h = 1
      <4>1. <<1, 2>> \in groups
        BY <2>0, <2>2
      <4> QED
        BY <3>1, <4>1, GroupOfTwo
    <3>2. CASE h # 1
      <4>1. <<1, h>> \in groups
        BY <2>0, <2>2, <3>2
      <4> QED
        BY <3>2, <4>1, GroupOfTwo
    <3> QED
      BY <3>1, <3>2
  <2>4. ASSUME NEW g \in groups PROVE Cardinality(ToSet(g)) = 2
    <3>1. PICK p \in (1..n) \X (1..n) : p[1] < p[2] /\ g = <<p[1], p[2]>>
      BY <2>1
    <3>2. p[1] # p[2]
      BY <3>1
    <3> QED
      BY <3>1, <3>2, GroupOfTwo
  <2> QED
    BY <1>3, <2>3, <2>4
<1>4. CASE flavor = "pairwise-quick"
  <2>0. n >= 2
    BY <1>4
  <2>1. groups = {<<2 * i - 1, 2 * i>> : i \in 1..(n \div 2)}
                   \cup (IF n % 2 = 1 THEN {<<n, 1>>} ELSE {})
    BY <1>4, <2>0, GroupsOf
  <2> HIDE DEF groups, hosts
  <2>2. ASSUME NEW h \in 1..n PROVE \E g \in groups : h \in ToSet(g)
    <3>1. CASE h % 2 = 0
      <4> DEFINE i == h \div 2
      <4>1. i \in 1..(n \div 2) /\ 2 * i = h
        BY <3>1
      <4> HIDE DEF i
      <4>2. <<2 * i - 1, 2 * i>> \in groups /\ 2 * i - 1 # 2 * i
        BY <2>1, <4>1
      <4> QED
        BY <4>1, <4>2, GroupOfTwo
    <3>2. CASE h % 2 = 1 /\ h = n
      <4>1. <<n, 1>> \in groups /\ n # 1
        BY <2>0, <2>1, <3>2
      <4> QED
        BY <3>2, <4>1, GroupOfTwo
    <3>3. CASE h % 2 = 1 /\ h # n
      <4> DEFINE i == (h + 1) \div 2
      <4>1. i \in 1..(n \div 2) /\ 2 * i - 1 = h
        BY <3>3
      <4> HIDE DEF i
      <4>2. <<2 * i - 1, 2 * i>> \in groups /\ 2 * i - 1 # 2 * i
        BY <2>1, <4>1
      <4> QED
        BY <4>1, <4>2, GroupOfTwo
    <3> QED
      BY <3>1, <3>2, <3>3
  <2>3. ASSUME NEW g \in groups PROVE Cardinality(ToSet(g)) = 2
    <3>1. CASE g \in {<<2 * i - 1, 2 * i>> : i \in 1..(n \div 2)}
      <4>1. PICK i \in 1..(n \div 2) : g = <<2 * i - 1, 2 * i>>
        BY <3>1
      <4>2. 2 * i - 1 # 2 * i
        OBVIOUS
      <4> QED
        BY <4>1, <4>2, GroupOfTwo
    <3>2. CASE g = <<n, 1>>
      <4>1. n # 1
        BY <2>0
      <4> QED
        BY <3>2, <4>1, GroupOfTwo
    <3> QED
      BY <2>1, <3>1, <3>2
  <2> QED
    BY <1>4, <2>2, <2>3
<1> QED
  BY <1>2, <1>3, <1>4

\* No flavor of check_nccl leaves a host out, for any number of hosts.
LEMMA HostsAlwaysTested == EveryHostTested
<1>1. ASSUME NEW flavor \in {"single", "pairwise", "pairwise-quick"},
             NEW n \in (IF flavor = "single" THEN 1 ELSE 2)..MaxHosts
      PROVE  n \in Nat /\ n >= (IF flavor = "single" THEN 1 ELSE 2)
  BY ArgumentAssumption
<1> QED
  BY <1>1, HostsTested DEF EveryHostTested

---------------------------------------------------------------------------
(* Counters of ports *)

\* f[n] is the sum of the first n numbers of s.
IsSum(f, s, n) ==
  /\ f \in [0..n -> Nat] /\ f[0] = 0
  /\ \A d \in 1..n : f[d] = f[d - 1] + s[d]

\* There is such a function, for every sequence of numbers.
LEMMA SumExists ==
  ASSUME NEW s \in Seq(Nat), NEW n \in 0..Len(s)
  PROVE  \E f : IsSum(f, s, n)
<1> DEFINE T == {k \in Nat : k <= Len(s) /\ ~ \E f : IsSum(f, s, k)}
<1>1. ASSUME T # {} PROVE FALSE
  <2>1. PICK k \in T : \A y \in T : k <= y
    BY <1>1, LeastNumber
  <2>2. CASE k = 0
    <3>1. IsSum([d \in 0..0 |-> 0], s, 0)
      BY DEF IsSum
    <3> QED
      BY <2>1, <2>2, <3>1
  <2>3. CASE k # 0
    <3>1. k - 1 \in Nat /\ k - 1 <= Len(s) /\ k - 1 \notin T /\ k \in 1..Len(s)
      BY <2>1, <2>3
    <3>2. PICK f : IsSum(f, s, k - 1)
      BY <3>1
    <3> DEFINE g == [d \in 0..k |-> IF d = k THEN f[k - 1] + s[k] ELSE f[d]]
    <3>3. s[k] \in Nat /\ \A d \in 0..(k - 1) : f[d] \in Nat
      BY <3>1, <3>2 DEF IsSum
    <3>4. g \in [0..k -> Nat] /\ g[0] = 0
      BY <3>1, <3>2, <3>3 DEF IsSum
    <3>5. ASSUME NEW d \in 1..k PROVE g[d] = g[d - 1] + s[d]
      <4>1. CASE d = k
        BY <3>1, <4>1
      <4>2. CASE d # k
        <5>1. d \in 1..(k - 1) /\ d \in 0..k /\ d - 1 \in 0..k /\ d - 1 # k
          BY <3>1, <4>2
        <5>2. f[d] = f[d - 1] + s[d]
          BY <3>2, <5>1 DEF IsSum
        <5> QED
          BY <4>2, <5>1, <5>2
      <4> QED
        BY <4>1, <4>2
    <3>6. IsSum(g, s, k)
      BY <3>4, <3>5 DEF IsSum
    <3> QED
      BY <2>1, <3>6
  <2> QED
    BY <2>2, <2>3
<1> QED
  BY <1>1

\* SumOf is its last value.
LEMMA SumEquation ==
  ASSUME NEW s \in Seq(Nat), NEW f, IsSum(f, s, Len(s))
  PROVE  SumOf(s) = f[Len(s)]
<1> DEFINE F(g) == [d \in 0..Len(s) |-> IF d = 0 THEN 0 ELSE g[d - 1] + s[d]]
           t == CHOOSE g : g = F(g)
<1>0. Len(s) \in Nat
  OBVIOUS
<1>2. f = F(f)
  BY <1>0 DEF IsSum
<1>3. t = F(t)
  BY <1>2
<1>4. SumOf(s) = t[Len(s)]
  BY DEF SumOf
<1> HIDE DEF t
<1> DEFINE T == {k \in Nat : k <= Len(s) /\ t[k] # f[k]}
<1>5. ASSUME T # {} PROVE FALSE
  <2>1. PICK k \in T : \A y \in T : k <= y
    BY <1>5, LeastNumber
  <2>2. k \in 0..Len(s) /\ t[k] # f[k]
    BY <2>1
  <2>3. k # 0
    BY <1>3, <2>2 DEF IsSum
  <2>4. k - 1 \in Nat /\ k - 1 <= Len(s) /\ k - 1 \notin T
    BY <2>1, <2>2, <2>3
  <2>5. t[k - 1] = f[k - 1]
    BY <2>4
  <2>6. t[k] = t[k - 1] + s[k]
    BY <1>3, <2>2, <2>3
  <2>7. f[k] = f[k - 1] + s[k]
    BY <2>2, <2>3 DEF IsSum
  <2> QED
    BY <2>2, <2>5, <2>6, <2>7
<1>6. t[Len(s)] = f[Len(s)]
  BY <1>0, <1>5
<1> QED
  BY <1>4, <1>6

\* Taken together, sets have as many elements as the sum of what each has.
LEMMA TaggedSum ==
  ASSUME NEW s \in Seq(Nat), NEW G, DOMAIN G = 1..Len(s),
         \A i \in 1..Len(s) : IsFiniteSet(G[i]) /\ Cardinality(G[i]) = s[i]
  PROVE  /\ IsFiniteSet(Tagged(G))
         /\ Cardinality(Tagged(G)) = SumOf(s)
         /\ SumOf(s) \in Nat
<1> DEFINE U(k) == UNION {{i} \X G[i] : i \in 1..k}
<1>0. Len(s) \in Nat
  OBVIOUS
<1>1. PICK f : IsSum(f, s, Len(s))
  BY <1>0, SumExists
<1>2. \A k \in 0..Len(s) : f[k] \in Nat
  BY <1>1 DEF IsSum
<1> DEFINE S == {k \in Nat : k <= Len(s) /\ ~ (IsFiniteSet(U(k)) /\ Cardinality(U(k)) = f[k])}
<1> HIDE DEF U
<1>3. ASSUME S # {} PROVE FALSE
  <2>1. PICK k \in S : \A y \in S : k <= y
    BY <1>3, LeastNumber
  <2>2. CASE k = 0
    <3>1. U(0) = {}
      BY DEF U
    <3> QED
      BY <1>1, <2>1, <2>2, <3>1, FS_EmptySet DEF IsSum
  <2>3. CASE k # 0
    <3>1. k - 1 \in Nat /\ k - 1 <= Len(s) /\ k - 1 \notin S /\ k \in 1..Len(s)
      BY <2>1, <2>3
    <3>2. IsFiniteSet(U(k - 1)) /\ Cardinality(U(k - 1)) = f[k - 1]
      BY <3>1
    <3>3. U(k) = U(k - 1) \cup ({k} \X G[k])
      <4>1. 1..k = (1..(k - 1)) \cup {k}
        BY <3>1
      <4> QED
        BY <4>1 DEF U
    <3>4. U(k - 1) \cap ({k} \X G[k]) = {}
      <4>1. ASSUME NEW x \in U(k - 1), x \in {k} \X G[k] PROVE FALSE
        <5>1. PICK i \in 1..(k - 1) : x \in {i} \X G[i]
          BY DEF U
        <5>2. x[1] = i /\ x[1] = k
          BY <4>1, <5>1
        <5> QED
          BY <3>1, <5>2
      <4> QED
        BY <4>1
    <3>5. IsFiniteSet({k} \X G[k]) /\ Cardinality({k} \X G[k]) = s[k]
      <4>1. IsFiniteSet({k}) /\ Cardinality({k}) = 1
        BY FS_Singleton
      <4>2. IsFiniteSet(G[k]) /\ Cardinality(G[k]) = s[k] /\ s[k] \in Nat
        BY <3>1
      <4>3. /\ Cardinality({k} \X G[k]) = Cardinality({k}) * Cardinality(G[k])
            /\ IsFiniteSet({k} \X G[k])
        BY <4>1, <4>2, FS_Product, Zenon
      <4>4. Cardinality({k} \X G[k]) = 1 * s[k]
        BY <4>1, <4>2, <4>3
      <4> QED
        BY <4>2, <4>3, <4>4
    <3> DEFINE A == U(k - 1)
               B == {k} \X G[k]
    <3>6. IsFiniteSet(A \cup B) /\ Cardinality(A \cup B) = f[k - 1] + s[k] - 0
      <4>1. IsFiniteSet(A) /\ IsFiniteSet(B) /\ A \cap B = {} /\ Cardinality(A) = f[k - 1]
              /\ Cardinality(B) = s[k]
        BY <3>2, <3>4, <3>5
      <4> HIDE DEF A, B
      <4>2. Cardinality({}) = 0
        BY FS_EmptySet
      <4>3. /\ IsFiniteSet(A \cup B)
            /\ Cardinality(A \cup B) = Cardinality(A) + Cardinality(B) - Cardinality(A \cap B)
        BY <4>1, FS_Union, Zenon
      <4> QED
        BY <4>1, <4>2, <4>3
    <3>7. f[k] = f[k - 1] + s[k] /\ f[k - 1] \in Nat /\ s[k] \in Nat
      BY <1>1, <1>2, <3>1 DEF IsSum
    <3>8. IsFiniteSet(U(k)) /\ Cardinality(U(k)) = f[k]
      BY <3>3, <3>6, <3>7
    <3> QED
      BY <2>1, <3>8
  <2> QED
    BY <2>2, <2>3
<1>4. IsFiniteSet(U(Len(s))) /\ Cardinality(U(Len(s))) = f[Len(s)]
  BY <1>0, <1>3
<1>5. U(Len(s)) = Tagged(G)
  BY DEF Tagged, U
<1> QED
  BY <1>0, <1>1, <1>2, <1>4, <1>5, SumEquation

\* The total of process_ib_counters is the number of errors.
LEMMA ErrorsCounted ==
  ASSUME NEW ports \in Seq(Seq(Nat \cup {NoNumber}))
  PROVE  /\ SumOf([i \in DOMAIN ports |-> port_error_total(ports[i])]) \in Nat
         /\ Cardinality(Errors(ports)) =
              SumOf([i \in DOMAIN ports |-> port_error_total(ports[i])])
<1> DEFINE E(port) == Tagged([j \in DOMAIN port |-> 1..port[j]])
<1>1. ASSUME NEW port \in Seq(Nat \cup {NoNumber})
      PROVE  /\ IsFiniteSet(E(port))
             /\ Cardinality(E(port)) = port_error_total(port)
             /\ port_error_total(port) \in Nat
  <2> DEFINE s == [j \in DOMAIN port |-> IF port[j] = NoNumber THEN 0 ELSE port[j]]
             G == [j \in DOMAIN port |-> 1..port[j]]
  <2>1. s \in Seq(Nat) /\ Len(s) = Len(port) /\ DOMAIN G = 1..Len(s)
    OBVIOUS
  <2>2. ASSUME NEW j \in 1..Len(s) PROVE IsFiniteSet(G[j]) /\ Cardinality(G[j]) = s[j]
    <3> DEFINE v == port[j]
    <3>1. v \in Int /\ (v = -1 \/ v \in Nat)
      BY <2>1 DEF NoNumber
    <3>2. G[j] = 1..v /\ s[j] = IF v = -1 THEN 0 ELSE v
      BY <2>1 DEF NoNumber
    <3> HIDE DEF v, G, s
    <3>3. IsFiniteSet(1..v) /\ Cardinality(1..v) = IF 1 > v THEN 0 ELSE v - 1 + 1
      BY <3>1, FS_Interval
    <3> QED
      BY <3>1, <3>2, <3>3
  <2>3. port_error_total(port) = SumOf(s)
    BY DEF port_error_total
  <2> HIDE DEF s, G
  <2>4. /\ IsFiniteSet(Tagged(G)) /\ Cardinality(Tagged(G)) = SumOf(s)
        /\ SumOf(s) \in Nat
    BY <2>1, <2>2, TaggedSum
  <2> QED
    BY <2>3, <2>4 DEF G
<1> DEFINE s == [i \in DOMAIN ports |-> port_error_total(ports[i])]
           G == [i \in DOMAIN ports |-> E(ports[i])]
<1>2. \A i \in DOMAIN ports : ports[i] \in Seq(Nat \cup {NoNumber})
  OBVIOUS
<1> HIDE DEF E
<1>3. s \in Seq(Nat) /\ Len(s) = Len(ports) /\ DOMAIN G = 1..Len(s)
  <2>1. \A i \in DOMAIN ports : port_error_total(ports[i]) \in Nat
    BY <1>1, <1>2
  <2> QED
    BY <2>1
<1>4. \A i \in 1..Len(s) : IsFiniteSet(G[i]) /\ Cardinality(G[i]) = s[i]
  BY <1>1, <1>2, <1>3
<1>5. Errors(ports) = Tagged(G)
  BY DEF Errors, E
<1> HIDE DEF s, G
<1>6. Cardinality(Tagged(G)) = SumOf(s) /\ SumOf(s) \in Nat
  BY <1>3, <1>4, TaggedSum
<1> QED
  BY <1>5, <1>6 DEF s

\* More errors are not better, on whatever ports they are.
LEMMA CountersGrow == SeenInv => CountersAddUp
<1>1. PICK w \in Thresholds, c \in Thresholds :
        Follows("check_ib_counters", LAMBDA o : process_ib_counters(o, w, c))
  BY NetworkAssumption
<1>2. ASSUME NEW o \in Seq(Seq(Nat \cup {NoNumber})), NEW p \in Seq(Seq(Nat \cup {NoNumber})),
             o # <<>>, p # <<>>, Cardinality(Errors(o)) <= Cardinality(Errors(p))
      PROVE  ~ Gt(process_ib_counters(o, w, c), process_ib_counters(p, w, c))
  <2> DEFINE total(q) == SumOf([i \in DOMAIN q |-> port_error_total(q[i])])
  <2>1. total(o) \in Nat /\ total(p) \in Nat /\ total(o) <= total(p)
    BY <1>2, ErrorsCounted
  <2>2. \A q : q # <<>> =>
          process_ib_counters(q, w, c) = Graded(total(q) > c, total(q) > w)
    BY Zenon DEF process_ib_counters
  <2>3. w \in Int /\ c \in Int
    BY ArgumentAssumption
  <2> HIDE DEF total
  <2>4. (total(o) > c => total(p) > c) /\ (total(o) > w => total(p) > w)
    BY <2>1, <2>3
  <2> QED
    BY <1>2, <2>2, <2>4, GradedGrows
<1>3. \A o \in Outcomes("check_ib_counters") : o \in Seq(Seq(Nat \cup {NoNumber}))
  BY OutcomeAssumption
<1> QED
  BY <1>1, <1>2, <1>3 DEF CountersAddUp, SeenInv, Outcomes, Follows

\* Nothing that is wrong stays out of the verdict, whatever the thresholds and
\* however many lines, devices, ports, counters and hosts there are.
THEOREM NothingIsEverHidden == Spec => []NothingHidden
<1>1. SeenInv => NothingHidden
  BY ReportsGrow, DevicesAlone, CountersGrow, HostsAlwaysTested DEF NothingHidden
<1> QED
  BY <1>1, SeenAlways, PTL
=============================================================================
