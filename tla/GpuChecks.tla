------------------------------ MODULE GpuChecks ------------------------------
(***************************************************************************)
(* The verdicts of check_dcgmi, check_nccl and memtest.  A health check      *)
(* command is a record: its killswitch, over how many items (of its command  *)
(* line, or GPUs) it can loop, and the verdict on every way the command it   *)
(* runs for an item can end (the domain of that function).                   *)
(***************************************************************************)
EXTENDS ExitCodes, SequencesExt

Check(killswitch, items, verdict) ==
  [killswitch |-> killswitch, items |-> items, verdict |-> verdict]

MaxItems  == 2
Once      == {1}
OneOrMore == 1..MaxItems
AnyNumber == 0..MaxItems

---------------------------------------------------------------------------
(***************************************************************************)
(* dcgmi diag.  A line is one test of the JSON report: whether its category  *)
(* is excluded, its summary (DCGM 4; "none" before) and its results, one     *)
(* per GPU, of which only the first is read.  JSON that cannot be parsed, or *)
(* lacks the report, is a line of its own.                                  *)
(***************************************************************************)
Test(excluded, summary, results) ==
  [excluded |-> excluded, summary |-> summary, results |-> results]
BadJson  == Test(FALSE, Junk, <<>>)
NoReport == Test(FALSE, "no report", <<>>)

DiagTests ==
  {Test(FALSE, "Pass", <<>>), Test(FALSE, "Warn", <<>>), Test(FALSE, "Fail", <<>>),
   Test(TRUE, "Fail", <<>>), Test(FALSE, "none", <<"Fail">>),
   Test(FALSE, "none", <<"Pass", "Pass">>), Test(FALSE, "none", <<"Pass", "Fail">>),
   Test(FALSE, "none", <<>>)}

get_diagnostics ==
  LET texts == {<<>>, <<BadJson>>, <<NoReport>>}
                 \cup {<<t>> : t \in DiagTests} \cup {<<t, u>> : t, u \in DiagTests}
  IN  shell_command(texts, BadJson) \cup [rc: {205}, text: texts]

NON_FATAL_ERRORS == {205}

_get_test_status(test) ==
  IF test.summary # "none" THEN test.summary
  ELSE IF test.results # <<>> THEN Head(test.results)
  ELSE ""

process_dcgmi_diag_output(o) ==
  LET status == {_get_test_status(t) : t \in {u \in Lines(o) : ~u.excluded}}
  IN  IF Failed(o) /\ o.rc \notin NON_FATAL_ERRORS THEN WARN
      ELSE IF Empty(o) THEN WARN
      ELSE IF BadJson \in Lines(o) THEN Raises
      ELSE IF NoReport \in Lines(o) THEN WARN
      ELSE Graded("Fail" \in status, "Warn" \in status)

diag == Check("dcgmi_diag", Once,
              [o \in get_diagnostics |-> process_dcgmi_diag_output(o)])

---------------------------------------------------------------------------
(***************************************************************************)
(* dcgmi nvlink.  A line of the error report is one counter of one link;     *)
(* NoNumber is a value such as "Not Supported".  A line of the status report *)
(* is the set of letters of the links of one GPU.                           *)
(***************************************************************************)
Counters == [name: {"CRC Data Error", "CRC FLIT Error", "Recovery Error",
                    "Replay Error"}, value: {NoNumber, 0, 1, 2}]
BadReport  == [name |-> Junk, value |-> NoNumber]
NoBody     == [name |-> "no body", value |-> NoNumber]

get_nvlink_error_report ==
  shell_command({<<>>, <<BadReport>>, <<NoBody>>} \cup {<<c>> : c \in Counters},
                BadReport)

process_dcgmi_nvlink_error_output(o, thresholds) ==
  IF Failed(o) \/ Empty(o) THEN WARN
  ELSE IF BadReport \in Lines(o) THEN Raises
  ELSE IF NoBody \in Lines(o) THEN WARN
  ELSE Graded(\E c \in Lines(o) : c.value # NoNumber /\ thresholds[c.name] < c.value,
              FALSE)

get_nvlink_status_report ==
  shell_command({<<>>} \cup {<<{"gpuId"}, links>> : links \in SUBSET {"U", "D", "X"}},
                {Junk})

process_nvlink_status_output(o) ==
  IF Failed(o) \/ Empty(o) THEN WARN
  ELSE Graded(\E l \in Lines(o) : l \cap {"D", "X"} # {}, FALSE)

---------------------------------------------------------------------------
(***************************************************************************)
(* check_nccl.  The text is the sequence of "Avg bus bandwidth" lines, read  *)
(* as numbers.                                                             *)
(***************************************************************************)

(***************************************************************************)
(* get_hosts: the groups of hosts that are tested together.  It refuses a   *)
(* pairwise test of fewer than two hosts (here: no groups).                 *)
(***************************************************************************)
get_hosts(flavor, hosts) ==
  LET n == Len(hosts) IN
  CASE flavor = "single" -> {<<hosts[i]>> : i \in 1..n}
    [] flavor # "single" /\ n < 2 -> {}
    [] flavor = "pairwise" /\ n >= 2 ->
         {<<hosts[p[1]], hosts[p[2]]>> : p \in {q \in (1..n) \X (1..n) : q[1] < q[2]}}
    [] flavor = "pairwise-quick" /\ n >= 2 ->
         {<<hosts[2 * i - 1], hosts[2 * i]>> : i \in 1..(n \div 2)}
           \cup (IF n % 2 = 1 THEN {<<hosts[n], hosts[1]>>} ELSE {})

\* get_avg_bus_bw: the first bandwidth, 0 if the line has no number.
get_avg_bus_bw(o) == IF Head(o.text) = NoNumber THEN 0 ELSE Head(o.text)

process_nccl_test_ouput(o, critical_threshold, warn_threshold) ==
  IF Failed(o) \/ Empty(o) THEN WARN
  ELSE Graded(get_avg_bus_bw(o) < critical_threshold,
              get_avg_bus_bw(o) < warn_threshold)

\* One item is one group of hosts and one operation.
check_nccl == Check("nccl_tests", OneOrMore,
  [o \in shell_command({<<>>, <<NoNumber>>} \cup {<<b>> : b \in 0..3}, NoNumber)
     |-> process_nccl_test_ouput(o, 1, 3)])

---------------------------------------------------------------------------
(***************************************************************************)
(* memtest: one thread per GPU; a command that cannot be run, or times out,  *)
(* is a warning.  The verdict is max(exit_codes) over the results in the     *)
(* order in which they complete, UNKNOWN if there are no GPUs.               *)
(***************************************************************************)
run_cuda_memtests_concurrently(o) ==
  IF o \in handle_subprocess_exception(Junk) THEN WARN
  ELSE IF o.rc = 0 THEN OK ELSE CRITICAL

memtest == Check("cuda_memtest", AnyNumber,
  [o \in shell_command({<<>>, <<Junk>>}, Junk) |-> run_cuda_memtests_concurrently(o)])

=============================================================================
