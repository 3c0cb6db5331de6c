------------------------------ MODULE NvidiaSmi ------------------------------
(***************************************************************************)
(* One invocation of check_nvidia_smi or of check_dcgmi nvlink: commands     *)
(* that make several sub-checks, each in a TelemetryContext of its own,      *)
(* inside one OutputContext.  running_procs and running_procs_and_kill are   *)
(* the state machine of RunningProcs; the other sub-checks are verdicts on   *)
(* what they see (NvidiaSmiChecks).                                         *)
(***************************************************************************)
EXTENDS RunningProcs, NvidiaSmiChecks

CONSTANTS
  MaxSelected,   \* how many sub-checks the command line selects at most
  Companions     \* the ones it selects together with those of RunningProcs

ASSUME NvidiaSmiAssumption == MaxSelected \in Nat \ {0}

VARIABLES
  cmd,      \* "nvidia_smi" or "nvlink"
  sink,     \* how the telemetry sink behaves in this invocation
  phase,    \* where the command is
  check,    \* --check: the sub-checks that are selected
  at,       \* where the loop over the table of the command is
  left,     \* how many items of the current one are left
  code,     \* exit_code of the current one
  overall,  \* overall_exit_code
  seen,     \* <<sub-check, verdict>> of every item
  off,      \* the sub-checks whose killswitch was found on
  records,  \* sub-check -> result, of the records in the sink
  exc,      \* what unwinds the contexts
  printed,  \* the verdict on standard output
  status    \* exit status

smiVars == <<cmd, sink, phase, check, at, left, code, overall, seen, off, records, exc,
             printed, status>>
vars == <<smiVars, procVars, rpVars>>

None == -2

RpNames == {"running_procs", "running_procs_and_kill"}

\* The sub-check the loop is at.
Current == Plan(cmd)[at]

\* What the command line of command c may select.
Selections(c) ==
  {S \in SUBSET ToSet(Plan(c)) :
     /\ S # {} /\ Cardinality(S) <= MaxSelected
     /\ S \cap RpNames = {} \/ S \subseteq RpNames \cup Companions}

Init ==
  /\ cmd \in {"nvidia_smi", "nvlink"}
  /\ sink \in {"works", "write fails", "raises"}
  /\ check \in Selections(cmd)
  /\ at = 1
  /\ RpInit
  /\ check \cap RpNames = {} => gpu = [d \in Device |-> {}] /\ ~force_kill
  /\ phase = IF cmd = "nvlink" THEN "subchecks" ELSE "start"
  /\ left = 0
  /\ code = UNKNOWN
  /\ overall = UNKNOWN
  /\ seen = {}
  /\ off = {}
  /\ records = << >>
  /\ exc = "none"
  /\ printed = None
  /\ status = None

---------------------------------------------------------------------------

\* TelemetryContext.__exit__ of sub-check s: what is in the sink afterwards.
Recorded(s, result) ==
  IF sink = "works"
  THEN [t \in {s} \cup DOMAIN records |-> IF t = s THEN result ELSE records[t]]
  ELSE records

(***************************************************************************)
(* obj.get_device_telemetry() raises: a record and a verdict under the name  *)
(* of the command.  No killswitch has been asked.                           *)
(***************************************************************************)
NvmlInitFails(error) ==
  /\ phase = "start"
  /\ overall' = handle_pynvml_error(error)
  /\ printed' = overall'
  /\ phase' = "ended"
  /\ records' = Recorded("nvidia_smi", overall')
  /\ exc' = IF sink = "raises" THEN "Exception" ELSE "SystemExit"
  /\ status' = IF sink = "raises" THEN 1 ELSE overall'
  /\ UNCHANGED <<cmd, sink, check, at, left, code, seen, off, procVars, rpVars>>

\* The killswitch of the command: no record.
NvidiaSmiKillswitch(flag) ==
  /\ phase = "start"
  /\ \/ /\ flag = "off"
        /\ phase' = "subchecks"
        /\ UNCHANGED <<overall, exc>>
     \/ /\ flag = "on"
        /\ phase' = "unwinding"
        /\ overall' = OK
        /\ exc' = "SystemExit"
     \/ /\ flag = "raises"
        /\ phase' = "unwinding"
        /\ exc' = "Exception"
        /\ UNCHANGED overall
  /\ UNCHANGED <<cmd, sink, check, at, left, code, seen, off, records, printed, status,
                 procVars, rpVars>>

\* "if check_id not in check: continue".
SubCheckSkipped ==
  /\ phase = "subchecks"
  /\ at \in DOMAIN Plan(cmd)
  /\ Current \notin check
  /\ at' = at + 1
  /\ UNCHANGED <<cmd, sink, phase, check, left, code, overall, seen, off, records, exc,
                 printed, status, procVars, rpVars>>

Selected == phase = "subchecks" /\ at \in DOMAIN Plan(cmd) /\ Current \in check

(***************************************************************************)
(* A sub-check begins, with its killswitch.  In check_nvidia_smi one that is *)
(* on is a verdict of OK; in nvlink it ends the command, and its OK replaces *)
(* the overall verdict.                                                     *)
(***************************************************************************)
SubCheckOff ==
  /\ Selected
  /\ off' = off \cup {Current}
  /\ code' = OK
  /\ phase' = "closing"
  /\ IF cmd = "nvlink"
     THEN overall' = OK /\ exc' = "SystemExit"
     ELSE overall' = Raise(overall, OK) /\ UNCHANGED exc
  /\ UNCHANGED <<cmd, sink, check, at, left, seen, records, printed, status, procVars, rpVars>>

SubCheckFlagRaises ==
  /\ Selected
  /\ seen' = seen \cup {<<Current, Raises>>}
  /\ code' = UNKNOWN
  /\ exc' = "Exception"
  /\ phase' = "closing"
  /\ UNCHANGED <<cmd, sink, check, at, left, overall, off, records, printed, status, procVars,
                 rpVars>>

SubCheckBegins ==
  /\ Selected
  /\ Current \notin RpNames
  /\ code' = UNKNOWN
  /\ left' \in SubChecks[Current].items
  /\ phase' = "items"
  /\ UNCHANGED <<cmd, sink, check, at, overall, seen, off, records, exc, printed, status,
                 procVars, rpVars>>

\* Mutant of SubCheckItem: a verdict replaces the overall one.
SubCheckItemReplaces(o) ==
  /\ phase = "items"
  /\ left > 0
  /\ left' = left - 1
  /\ code' = SubChecks[Current].verdict[o]
  /\ code' # Raises
  /\ overall' = code'
  /\ seen' = seen \cup {<<Current, code'>>}
  /\ UNCHANGED <<cmd, sink, phase, check, at, off, records, exc, printed, status, procVars, rpVars>>

\* One item: nvlink_errors has one per GPU, the others have one.
SubCheckItem(o) ==
  /\ phase = "items"
  /\ left > 0
  /\ left' = left - 1
  /\ LET verdict == SubChecks[Current].verdict[o]
     IN  /\ seen' = seen \cup {<<Current, verdict>>}
         /\ IF verdict = Raises
            THEN exc' = "Exception" /\ phase' = "closing" /\ UNCHANGED <<code, overall>>
            ELSE /\ code' = verdict
                 /\ overall' = Raise(overall, verdict)
                 /\ UNCHANGED <<exc, phase>>
  /\ UNCHANGED <<cmd, sink, check, at, off, records, printed, status, procVars, rpVars>>

SubCheckDone ==
  /\ phase = "items"
  /\ left = 0
  /\ phase' = "closing"
  /\ UNCHANGED <<cmd, sink, check, at, left, code, overall, seen, off, records, exc, printed,
                 status, procVars, rpVars>>

(***************************************************************************)
(* running_procs and running_procs_and_kill: called, and returned from.      *)
(***************************************************************************)
RunningProcsBegins ==
  /\ Selected
  /\ Current \in RpNames
  /\ LET m == IF Current = "running_procs" THEN "check" ELSE "kill"
     IN  RpStart(m) \/ \E c \in {WARN, CRITICAL, Raises} : RpDevicesFail(m, c)
  /\ code' = UNKNOWN
  /\ phase' = "procs"
  /\ UNCHANGED <<cmd, sink, check, at, left, overall, seen, off, records, exc, printed, status,
                 procVars>>

RunningProcsReturns ==
  /\ phase = "procs"
  /\ rpc \in {"done", "crashed"}
  /\ phase' = "closing"
  /\ IF rpc = "crashed"
     THEN /\ exc' = "Exception"
          /\ seen' = seen \cup {<<Current, Raises>>}
          /\ UNCHANGED <<code, overall>>
     ELSE /\ code' = rexit
          /\ overall' = Raise(overall, rexit)
          /\ seen' = seen \cup {<<Current, rexit>>}
          /\ UNCHANGED exc
  /\ rpc' = IF rpc = "done" THEN "idle" ELSE rpc
  /\ attempt' = 0 /\ dev' = 1 /\ pids' = {} /\ rcode' = OK /\ outcomes' = <<>>
  /\ UNCHANGED <<retry_count, force_kill, mode, victims, waited, killed, rexit>>
  /\ UNCHANGED <<cmd, sink, check, at, left, off, records, printed, status, procVars>>

\* Mutant of SubCheckClosed: the record is written with the overall verdict.
SubCheckClosedOverall ==
  /\ phase = "closing"
  /\ records' = Recorded(Current, overall)
  /\ exc' = IF sink = "raises" THEN "Exception" ELSE exc
  /\ at' = at + 1
  /\ phase' = IF exc' = "none" THEN "subchecks" ELSE "unwinding"
  /\ UNCHANGED <<cmd, sink, check, left, code, overall, seen, off, printed, status, procVars, rpVars>>

\* TelemetryContext.__exit__ of the sub-check.
SubCheckClosed ==
  /\ phase = "closing"
  /\ records' = Recorded(Current, code)
  /\ exc' = IF sink = "raises" THEN "Exception" ELSE exc
  /\ at' = at + 1
  /\ phase' = IF exc' = "none" THEN "subchecks" ELSE "unwinding"
  /\ UNCHANGED <<cmd, sink, check, left, code, overall, seen, off, printed, status, procVars, rpVars>>

\* sys.exit(overall_exit_code.value), or what else leaves the body.
Unwinds ==
  /\ \/ phase = "subchecks" /\ at \notin DOMAIN Plan(cmd) /\ exc' = "SystemExit"
     \/ phase = "unwinding" /\ UNCHANGED exc
  /\ phase' = "ended"
  /\ printed' = IF exc' = "Exception" THEN WARN ELSE overall
  /\ status' = IF exc' = "Exception" THEN 1 ELSE overall
  /\ UNCHANGED <<cmd, sink, check, at, left, code, overall, seen, off, records, procVars, rpVars>>

SmiStep ==
  \/ \E error \in {NvmlError, NvmlLost} : NvmlInitFails(error)
  \/ \E flag \in {"off", "on", "raises"} : NvidiaSmiKillswitch(flag)
  \/ SubCheckSkipped
  \/ SubCheckOff
  \/ SubCheckFlagRaises
  \/ SubCheckBegins
  \/ \E o \in IF phase = "items" THEN DOMAIN SubChecks[Current].verdict ELSE {} :
       SubCheckItem(o)
  \/ SubCheckDone
  \/ RunningProcsBegins
  \/ phase = "procs" /\ RpStep /\ UNCHANGED smiVars
  \/ RunningProcsReturns
  \/ SubCheckClosed
  \/ Unwinds

\* Processes come and go while somebody looks; what they do before is a choice
\* of Init, and what they do between two looks might as well be done in the next.
Next ==
  \/ SmiStep
  \/ phase = "procs" /\ ProcStep /\ UNCHANGED <<smiVars, rpVars>>

(***************************************************************************)
(* Every wait of the command is bounded (timeout of the shell commands, the  *)
(* sleeps between attempts, the timeout of wait_procs), so it goes on.       *)
(***************************************************************************)
Spec == Init /\ [][Next]_vars /\ WF_vars(SmiStep)

---------------------------------------------------------------------------

Ended == phase = "ended"

(***************************************************************************)
(* No sub-check is outvoted: unless an exception ended the command, or the   *)
(* killswitch of a sub-check of nvlink did, the exit status is not below the *)
(* verdict of any item of any sub-check, and what was printed is the exit    *)
(* status (check_nvidia_smi, nvlink).                                       *)
(***************************************************************************)
WorstSubCheckReported ==
  Ended /\ exc = "SystemExit" /\ ~(cmd = "nvlink" /\ off # {}) =>
    /\ printed = status
    /\ \A item \in seen : ~ Gt(item[2], status)

(***************************************************************************)
(* The record of a sub-check is its own verdict: what was selected, ended    *)
(* normally and is not switched off is in the sink with the verdict it had,  *)
(* not with the overall one.  The record of nvlink_errors is about its last  *)
(* GPU only and is left out.                                                *)
(***************************************************************************)
RecordsAreOwnVerdicts ==
  \A s \in DOMAIN records \ {"nvidia_smi", "nvlink_errors"} :
    IF s \in off THEN records[s] = OK
    ELSE \/ <<s, records[s]>> \in seen
         \/ <<s, Raises>> \in seen /\ records[s] = UNKNOWN

(***************************************************************************)
(* A sub-check that crashes ends the command with an exit status that is not *)
(* OK and a record of UNKNOWN; the sub-checks after it leave no record that  *)
(* would look like an answer (run_check() inside of TelemetryContext).       *)
(***************************************************************************)
CrashEndsCommand ==
  \A i \in DOMAIN Plan(cmd) : <<Plan(cmd)[i], Raises>> \in seen =>
    /\ Plan(cmd)[i] \in DOMAIN records => records[Plan(cmd)[i]] = UNKNOWN
    /\ \A j \in DOMAIN Plan(cmd) : i < j => Plan(cmd)[j] \notin DOMAIN records
    /\ Ended => status # OK

(***************************************************************************)
(* A record that looks like an answer is one: it is the verdict of its own    *)
(* sub-check, and a sub-check that crashed, or came after one that did, has   *)
(* none that is OK (TelemetryContext around run_check()).                    *)
(***************************************************************************)
AnswersAreReal == RecordsAreOwnVerdicts /\ CrashEndsCommand

=============================================================================
