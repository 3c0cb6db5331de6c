----------------------------- MODULE HostChecks -----------------------------
(***************************************************************************)
(* The verdicts of the checks that look at the host: check_storage,          *)
(* check_processor, check_syslogs, check_blockdev, check_node.               *)
(***************************************************************************)
EXTENDS GpuChecks, FiniteSetsExt

\* Outputs of at most one line, read as a natural.
Numbers(S) == {<<>>, <<NoNumber>>} \cup {<<n>> : n \in S}
NotANumber(o) == Empty(o) \/ Head(o.text) = NoNumber

---------------------------------------------------------------------------
(* check_storage *)

\* df --output=pcent,ipcent: a header and one line of two percentages.
get_disk_usage ==
  shell_command({<<>>, <<0>>} \cup {<<0, n>> : n \in {NoNumber, 1, 2, 3}}, NoNumber)

process_disk_usage(o, warning_thr, critical_thr) ==
  IF Failed(o) \/ Empty(o) THEN WARN
  ELSE IF Len(o.text) < 2 \/ o.text[2] = NoNumber THEN WARN
  ELSE Graded(o.text[2] > critical_thr, o.text[2] > warning_thr)

disk_usage == Check("disk_usage", OneOrMore,
  [o \in get_disk_usage |-> process_disk_usage(o, 1, 2)])

\* mount | grep dir: the return code is that of mount, a line is a mount.
get_mount_status == shell_command({<<>>, <<"mounted">>}, Junk)

process_mount_status(o) ==
  IF Failed(o) THEN WARN ELSE Graded(Empty(o), FALSE)

mounted_directory == Check("mounted_dir", OneOrMore,
  [o \in get_mount_status |-> process_mount_status(o)])

(***************************************************************************)
(* file_exists and directory_exists run no command: the outcome is whether   *)
(* the path is there, or that the test raised, which counts as absent.       *)
(***************************************************************************)
PathTests == {"there", "absent", "raised"}

file_exists(should_not_exist) == Check("file_exists", OneOrMore,
  [o \in PathTests |->
     IF (o = "there") = should_not_exist THEN CRITICAL ELSE OK])

directory_exists == Check("dir_exists", OneOrMore,
  [o \in PathTests |-> IF o = "there" THEN OK ELSE CRITICAL])

(***************************************************************************)
(* check_mountpoint: two awk commands, over fstab and over /proc/mounts.     *)
(* An exception stands for the output of both.                              *)
(***************************************************************************)
get_fstab_mount_info ==
  LET awk == [rc: ReturnCodes, text: {<<>>, <<"a">>, <<"a", "b">>}]
  IN  (awk \X awk) \cup {<<e, e>> : e \in handle_subprocess_exception(Junk)}

process_check_mountpoint(mount_out) ==
  IF Failed(mount_out[1]) \/ Failed(mount_out[2]) THEN WARN
  ELSE Graded(~ Lines(mount_out[1]) \subseteq Lines(mount_out[2]), FALSE)

check_mountpoint == Check("check_mountpoint", OneOrMore,
  [o \in get_fstab_mount_info |-> process_check_mountpoint(o)])

\* df | sed 1d: any of the return codes, of any sign, is a failure.
get_disk_size == shell_command(Numbers(0..2), NoNumber)

process_disk_size(o, operator, expected) ==
  LET actual == Head(o.text) IN
  IF o.rc # 0 \/ Empty(o) THEN WARN
  ELSE IF actual = NoNumber THEN WARN
  ELSE Graded(CASE operator = "<"  -> actual >= expected
                [] operator = "="  -> actual # expected
                [] operator = ">"  -> actual <= expected
                [] operator = ">=" -> actual < expected
                [] operator = "<=" -> actual > expected, FALSE)

disk_size(operator) == Check("disk_size", Once,
  [o \in get_disk_size |-> process_disk_size(o, operator, 1)])

---------------------------------------------------------------------------
(* check_processor *)

get_cpu_freq == shell_command(Numbers(0..2), NoNumber)

process_cpu_freq(o, proc_freq) ==
  IF Failed(o) \/ NotANumber(o) THEN WARN
  ELSE Graded(Head(o.text) < proc_freq, FALSE)

processor_freq == Check("proc_freq", Once,
  [o \in get_cpu_freq |-> process_cpu_freq(o, 1)])

\* cat | uniq: one line if all processors have the same governor.
get_cpufreq_governor ==
  shell_command({<<>>} \cup {<<g>> : g \in {"performance", "powersave"}}
                  \cup {<<"performance", "powersave">>}, Junk)

process_cpufreq_governor(o, governor) ==
  IF Failed(o) \/ Empty(o) THEN WARN
  ELSE Graded(Len(o.text) > 1 \/ Head(o.text) # governor, FALSE)

cpufreq_governor == Check("freq_governor", Once,
  [o \in get_cpufreq_governor |-> process_cpufreq_governor(o, "performance")])

(***************************************************************************)
(* check_mem_size: a line is [count, size] of equal DIMMs; int() refuses     *)
(* NoNumber; a line without a size is an IndexError, which is not caught.    *)
(***************************************************************************)
Dimms(count, size) == [count |-> count, size |-> size]

get_mem_info ==
  LET lines == {Dimms(1, 2), Dimms(2, 1), Dimms(2, 2), Dimms(NoNumber, 1)}
  IN  shell_command({<<>>, <<Dimms(1, NoNumber)>>}
                      \cup {<<l>> : l \in lines} \cup {<<l, m>> : l, m \in lines},
                    Dimms(NoNumber, NoNumber))

process_mem_info(o, dimms, total_size) ==
  IF Failed(o) \/ Empty(o) THEN WARN
  ELSE IF \E l \in Lines(o) : l.count = NoNumber THEN WARN
  ELSE IF \E l \in Lines(o) : l.size = NoNumber THEN Raises
  ELSE Graded(~ /\ dimms = FoldLeft(LAMBDA n, l : n + l.count, 0, o.text)
                /\ total_size = FoldLeft(LAMBDA n, l : n + l.count * l.size, 0, o.text),
              FALSE)

check_mem_size == Check("check_mem_size", Once,
  [o \in get_mem_info |-> process_mem_info(o, 3, 4)])

(***************************************************************************)
(* check_buddyinfo: lines of the free blocks of one zone, of the orders that *)
(* matter.  Every exception, of a missing file or of a line that does not    *)
(* match, is a warning.  No lines at all are sufficient memory.              *)
(***************************************************************************)
BuddyLine == [zone: {"Normal", "DMA"}, blocks: {<<>>, <<0, 1>>, <<2>>}]
BadBuddyLine == [zone |-> Junk, blocks |-> <<>>]

get_buddyinfo_lines ==
  {<<>>, <<BadBuddyLine>>} \cup {<<l, m>> : l, m \in BuddyLine}

parse_buddy_info_lines(lines) == BadBuddyLine \notin lines

check_threshold(l, threshold) ==
  Graded(l.zone = "Normal" /\ ~ \E i \in DOMAIN l.blocks : l.blocks[i] >= threshold,
         FALSE)

process_buddy_info(lines) ==
  IF parse_buddy_info_lines(lines)
  THEN WorstOf(OK, {check_threshold(l, 2) : l \in lines})
  ELSE WARN

check_buddyinfo == Check("check_buddyinfo", Once,
  [o \in get_buddyinfo_lines |-> process_buddy_info({o[i] : i \in DOMAIN o})])

\* An exception of the command is caught as any other: a warning.
get_clocksource == shell_command({<<>>, <<"tsc">>, <<"hpet">>}, Junk)

clocksource_code(o) ==
  IF Failed(o) THEN WARN ELSE Graded(o.text # <<"tsc">>, FALSE)

check_clocksource == Check("check_clocksource", Once,
  [o \in get_clocksource |-> clocksource_code(o)])

---------------------------------------------------------------------------
(* check_syslogs: a command over the log, a line per event *)

get_link_flap_report ==
  shell_command({<<>>} \cup {<<l>> : l \in {"ib", "eth", "ib eth"}}
                  \cup {<<"ib", "eth">>, <<"eth", "ib">>}, Junk)

\* grep returns 1 when it finds nothing.
process_link_flap_output(o) ==
  IF o.rc > 1 THEN WARN
  ELSE Graded(Lines(o) \cap {"ib", "ib eth"} # {}, Lines(o) \cap {"eth", "ib eth"} # {})

link_flaps == Check("link_flap", Once,
  [o \in get_link_flap_report |-> process_link_flap_output(o)])

(***************************************************************************)
(* dmesg | grep: the return code is that of dmesg.  A line is the severity   *)
(* its tables give it; Junk is one no pattern knows.                        *)
(***************************************************************************)
DmesgLines(S) ==
  shell_command({<<>>} \cup {<<l>> : l \in S} \cup {<<l, m>> : l, m \in S}, Junk)

\* Mutant of process_xid_output: the return code is not looked at.
XidIgnoresReturnCode(o) ==
  Graded(Lines(o) \cap {"critical", "no number"} # {}, "non-critical" \in Lines(o))

\* An Xid that is not on the list of the non-critical ones is critical, also
\* one whose number cannot be read; a line without a colon is skipped.
process_xid_output(o) ==
  IF Failed(o) THEN WARN
  ELSE Graded(Lines(o) \cap {"critical", "no number"} # {}, "non-critical" \in Lines(o))

xid == Check("xid_errors", Once,
  [o \in DmesgLines({"critical", "non-critical", "no number", "no colon"})
     |-> process_xid_output(o)])

process_io_errors_output(o) ==
  IF Failed(o) THEN WARN ELSE Graded(~Empty(o), FALSE)

io_errors == Check("io_errors", Once,
  [o \in DmesgLines({"nvme0n1"}) |-> process_io_errors_output(o)])

(***************************************************************************)
(* classify_line: the severity of the first pattern of the table that        *)
(* matches.  A line is the set of phrases it contains, a pattern is a        *)
(* phrase; it also matches a longer phrase it is a part of, case ignored.    *)
(***************************************************************************)
PartOf == {<<"Corrected error", "Uncorrected error">>,
           <<"Uncorrectable", "Uncorrectable (Non-Fatal)">>}
Matches(line, pattern) ==
  \E phrase \in line : phrase = pattern \/ <<pattern, phrase>> \in PartOf

MCE_SEVERITY_PATTERNS ==
  << <<"temperature normal", OK>>, <<"CPU is offline", OK>>, <<"Disabling lock", OK>>,
     <<"Corrected error", WARN>>, <<"temperature above threshold", WARN>>,
     <<"cpu clock throttled", WARN>>, <<"CMCI storm", WARN>>,
     <<"[Hardware Error]", CRITICAL>>, <<"Processor context corrupt", CRITICAL>>,
     <<"Machine Check Exception", CRITICAL>>, <<"Uncorrected error", CRITICAL>>,
     <<"Fatal error", CRITICAL>> >>

PCIE_AER_SEVERITY_PATTERNS ==
  << <<"Corrected error", OK>>, <<"Uncorrectable (Non-Fatal)", WARN>>,
     <<"Uncorrectable", CRITICAL>>, <<"can't recover", CRITICAL>> >>

\* UNKNOWN stands for the None of a line that no pattern matches.
classify_line(line, patterns) ==
  LET hits == {i \in DOMAIN patterns : Matches(line, patterns[i][1])}
  IN  IF hits = {} THEN UNKNOWN ELSE patterns[Min(hits)][2]

\* classify_lines: the severities that occur; an unknown line is a warning.
classify_lines(o, patterns) ==
  {IF classify_line(l, patterns) = UNKNOWN THEN WARN ELSE classify_line(l, patterns)
     : l \in Lines(o)}

process_mce_output(o) ==
  LET severities == classify_lines(o, MCE_SEVERITY_PATTERNS)
  IN  IF Failed(o) THEN WARN
      ELSE Graded(CRITICAL \in severities, WARN \in severities)

MceLines ==
  {{"temperature normal"}, {"Corrected error", "[Hardware Error]"}, {"CMCI storm"},
   {"[Hardware Error]", "Machine Check Exception"}, {"Uncorrected error"}, {}}

get_mce_report ==
  shell_command({<<>>} \cup {<<l>> : l \in MceLines}
                  \cup {<<l, m>> : l, m \in MceLines}, {Junk})

mce == Check("mce_errors", Once,
  [o \in get_mce_report |-> process_mce_output(o)])

process_pcie_aer_output(o) ==
  LET severities == classify_lines(o, PCIE_AER_SEVERITY_PATTERNS)
  IN  IF Failed(o) THEN WARN
      ELSE Graded(CRITICAL \in severities, WARN \in severities)

AerLines == {{"Corrected error"}, {"Uncorrectable (Non-Fatal)"}, {"Uncorrectable"},
             {"can't recover"}, {}}

get_pcie_aer_report ==
  shell_command({<<>>} \cup {<<l>> : l \in AerLines}
                  \cup {<<l, m>> : l, m \in AerLines}, {Junk})

pcie_aer == Check("pcie_aer_errors", Once,
  [o \in get_pcie_aer_report |-> process_pcie_aer_output(o)])

---------------------------------------------------------------------------
(***************************************************************************)
(* check_blockdev: what smartctl says of a disk, or that its output cannot   *)
(* be parsed, which like a missing manifest is a warning of the whole check. *)
(* Of the SMART data only the values the tests below distinguish are kept:   *)
(* used is 80 or less, up to 100, above 100.                                *)
(***************************************************************************)
SmartData ==
  [log: {TRUE}, size: 0..1, used: {"<=80", "<=100", ">100"}, spare: 0..1,
   zeroUnits: BOOLEAN]
    \cup {[log |-> FALSE, size |-> 0, used |-> "<=80", spare |-> 0, zeroUnits |-> FALSE]}
NoSmartData ==
  [log |-> FALSE, size |-> NoNumber, used |-> Junk, spare |-> 0, zeroUnits |-> FALSE]

\* _enumerate_issues, on a disk of size 1 and a spare threshold of 1.
_enumerate_issues(bd) ==
  IF ~bd.log THEN {"HEALTH_LOG_INVALID"}
  ELSE (IF bd.size < 1 THEN {"SIZE_MISMATCH"} ELSE {})
         \cup (IF bd.used = ">100" THEN {"LIFETIME_EXCEEDED"}
               ELSE IF bd.used = "<=100" THEN {"LIFETIME_LOW"} ELSE {})
         \cup (IF bd.spare < 1 THEN {"SPARE_SPACE_LOW"} ELSE {})
         \cup (IF bd.zeroUnits THEN {"BAD_SMARTDATA"} ELSE {})

\* The issues above CRITERION_WARNING are critical too.
process_check_blockdev(disks) ==
  Graded(\E bd \in disks : _enumerate_issues(bd) # {}, FALSE)

blockdev_code(disks) ==
  IF NoSmartData \in disks THEN WARN ELSE process_check_blockdev(disks)

check_blockdev == Check("check_blockdev", Once,
  [o \in {{bd, be} : bd, be \in SmartData} \cup {{NoSmartData}} |-> blockdev_code(o)])

---------------------------------------------------------------------------
(* check_node *)

process_uptime(o, uptime_threshold) ==
  IF Failed(o) \/ Empty(o) THEN WARN
  ELSE IF Head(o.text) = NoNumber THEN WARN
  ELSE IF Head(o.text) > uptime_threshold THEN OK ELSE WARN

uptime == Check("check_uptime", Once,
  [o \in shell_command(Numbers(0..2), NoNumber) |-> process_uptime(o, 1)])

\* lsmod | grep | wc -l; empty output is no number.
process_module(o, mod_count) ==
  IF Failed(o) \/ NotANumber(o) THEN WARN
  ELSE Graded(Head(o.text) < mod_count, FALSE)

\* It asks the killswitch of uptime.
check_module == Check("check_uptime", OneOrMore,
  [o \in shell_command(Numbers(0..2), NoNumber) |-> process_module(o, 1)])

process_dnf_repos(o) == Graded(Failed(o) \/ Empty(o), FALSE)

check_dnf_repos == Check("check_dnf_repos", Once,
  [o \in shell_command({<<>>, <<"repos">>}, Junk) |-> process_dnf_repos(o)])

=============================================================================
