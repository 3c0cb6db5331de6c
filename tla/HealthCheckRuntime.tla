-------------------------- MODULE HealthCheckRuntime --------------------------
(***************************************************************************)
(* One invocation of a health check: HealthCheckRuntime opens the telemetry  *)
(* and the output contexts, asks the killswitch, the body runs its command   *)
(* for each of its items and raises the overall verdict, and the contexts    *)
(* are closed in the reverse order, whatever ended the body.                 *)
(*                                                                         *)
(* Command maps the name of a health check to its killswitch, the numbers of *)
(* items it may have and its verdicts (see GpuChecks).  The outcome of each  *)
(* command is kept in `seen`.                                               *)
(***************************************************************************)
EXTENDS ExitCodes

CONSTANT Command

\* "off", "on" and "raises" are what the feature flags can say.
Flags == {"off", "on", "raises"}

ASSUME CommandAssumption ==
  \A name \in DOMAIN Command :
    /\ Command[name].items \subseteq Nat
    /\ \A o \in DOMAIN Command[name].verdict : Command[name].verdict[o] \in Verdicts

VARIABLES
  name,       \* the health check that is run
  type,       \* prolog runs print nothing, nagios runs do
  phase,      \* where the invocation is
  left,       \* how many items are still to be looked at
  seen,       \* the outcomes of the items looked at
  overall,    \* overall_exit_code of the body
  exit_code,  \* HealthCheckRuntime.exit_code, which both contexts read
  exc,        \* what unwinds the stack of contexts
  printed,    \* the verdict on standard output
  record,     \* the result in the record the sink accepted
  status      \* exit status of the process

vars == <<name, type, phase, left, seen, overall, exit_code, exc, printed, record, status>>

None == -2

Phases == {"start", "entered", "running", "output", "telemetry", "ended"}

Init ==
  /\ name \in DOMAIN Command
  /\ type \in {"nagios", "prolog"}
  /\ phase = "start"
  /\ left \in Command[name].items
  /\ seen = {}
  /\ overall = UNKNOWN
  /\ exit_code = UNKNOWN
  /\ exc = "none"
  /\ printed = None
  /\ record = None
  /\ status = None

\* An exception that reaches the interpreter.
Dies ==
  /\ phase' = "ended"
  /\ exc' = "Exception"
  /\ status' = 1

(***************************************************************************)
(* __enter__ up to the killswitch.  Without a GPU node id it goes on; an     *)
(* exception of the logger (its folder cannot be made) opens no context.     *)
(***************************************************************************)
Enter ==
  /\ phase = "start"
  /\ phase' = "entered"
  /\ UNCHANGED <<name, type, left, seen, overall, exit_code, exc, printed, record, status>>

EnterFails ==
  /\ phase = "start"
  /\ Dies
  /\ UNCHANGED <<name, type, left, seen, overall, exit_code, printed, record>>

(***************************************************************************)
(* __enter__, the killswitch.  On: the contexts are closed as if nothing     *)
(* happened, and then the process exits with OK.  An exception of the        *)
(* getter leaves __enter__, so nobody closes the contexts.                   *)
(***************************************************************************)
Killswitch(flag) ==
  /\ phase = "entered"
  /\ \/ /\ flag = "off"
        /\ phase' = "running"
        /\ UNCHANGED <<exit_code, exc, status>>
     \/ /\ flag = "on"
        /\ exit_code' = OK
        /\ phase' = "output"
        /\ UNCHANGED <<exc, status>>
     \/ /\ flag = "raises"
        /\ Dies
        /\ UNCHANGED exit_code
  /\ UNCHANGED <<name, type, left, seen, overall, printed, record>>

(***************************************************************************)
(* The body: one item, whose command ends with outcome o.                    *)
(***************************************************************************)
CheckItem(o) ==
  /\ phase = "running"
  /\ left > 0
  /\ left' = left - 1
  /\ seen' = seen \cup {o}
  /\ IF Command[name].verdict[o] = Raises
     THEN /\ exc' = "Exception"
          /\ phase' = "output"
          /\ UNCHANGED overall
     ELSE /\ overall' = Raise(overall, Command[name].verdict[o])
          /\ UNCHANGED <<exc, phase>>
  /\ UNCHANGED <<name, type, exit_code, printed, record, status>>

\* HealthCheckRuntime.finish: sys.exit raises SystemExit through the body.
finish ==
  /\ phase = "running"
  /\ left = 0
  /\ exit_code' = overall
  /\ exc' = "SystemExit"
  /\ phase' = "output"
  /\ UNCHANGED <<name, type, left, seen, overall, printed, record, status>>

\* Mutant of OutputExit: sys.exit is taken for a crash.
OutputExitAnyException ==
  /\ phase = "output"
  /\ phase' = "telemetry"
  /\ printed' = IF exc # "none" THEN WARN
                ELSE IF type = "nagios" THEN exit_code ELSE None
  /\ UNCHANGED <<name, type, left, seen, overall, exit_code, exc, record, status>>

(***************************************************************************)
(* OutputContext.__exit__, the first to be closed.  A check that did not     *)
(* exit normally is printed as a warning.                                   *)
(***************************************************************************)
OutputExit ==
  /\ phase = "output"
  /\ phase' = "telemetry"
  /\ printed' = IF exc = "Exception" THEN WARN
                ELSE IF type = "nagios" THEN exit_code ELSE None
  /\ UNCHANGED <<name, type, left, seen, overall, exit_code, exc, record, status>>

\* The status of the process once the contexts are closed.
ExitStatus == IF exc = "Exception" THEN 1 ELSE exit_code

(***************************************************************************)
(* TelemetryContext.__exit__: int(SLURM_JOB_ID) and the constructor of the   *)
(* sink are outside of its try and replace whatever was being raised; an     *)
(* exception of the write is logged.                                        *)
(***************************************************************************)
TelemetryExit ==
  /\ phase = "telemetry"
  /\ record' = exit_code
  /\ phase' = "ended"
  /\ status' = ExitStatus
  /\ UNCHANGED <<name, type, left, seen, overall, exit_code, exc, printed>>

TelemetryWriteFails ==
  /\ phase = "telemetry"
  /\ phase' = "ended"
  /\ status' = ExitStatus
  /\ UNCHANGED <<name, type, left, seen, overall, exit_code, exc, printed, record>>

\* Mutant of TelemetrySinkFails: the exit code survives the exception.
SinkFailureKeepsStatus ==
  /\ phase = "telemetry"
  /\ phase' = "ended"
  /\ exc' = "Exception"
  /\ status' = ExitStatus
  /\ UNCHANGED <<name, type, left, seen, overall, exit_code, printed, record>>

TelemetrySinkFails ==
  /\ phase = "telemetry"
  /\ Dies
  /\ UNCHANGED <<name, type, left, seen, overall, exit_code, printed, record>>

Next ==
  \/ Enter
  \/ EnterFails
  \/ \E flag \in Flags : Killswitch(flag)
  \/ \E o \in DOMAIN Command[name].verdict : CheckItem(o)
  \/ finish
  \/ OutputExit
  \/ TelemetryExit
  \/ TelemetryWriteFails
  \/ TelemetrySinkFails

Spec == Init /\ [][Next]_vars

---------------------------------------------------------------------------

RtTypeOK ==
  /\ name \in DOMAIN Command
  /\ type \in {"nagios", "prolog"}
  /\ phase \in Phases
  /\ left \in Nat
  /\ overall \in ExitCode
  /\ exit_code \in ExitCode
  /\ exc \in {"none", "SystemExit", "Exception"}
  /\ printed \in ExitCode \cup {None}
  /\ record \in ExitCode \cup {None}
  /\ status \in ExitCode \cup {None}

Ended == phase = "ended"

(***************************************************************************)
(* The three reports of an invocation agree: the exit status Slurm or Nagios *)
(* acts on, the record in the sink and the line that was printed are the     *)
(* same verdict, unless an exception ended the process (runtime.py __exit__, *)
(* telem.py __exit__, output_context_manager.py __exit__).                   *)
(***************************************************************************)
ReportsAgree ==
  Ended /\ exc # "Exception" =>
    /\ record \in {None, status}
    /\ printed \in {None, status}

(***************************************************************************)
(* A check that crashed, wherever it did, never leaves a healthy exit status *)
(* behind, and its record never says OK when the body did not get to a       *)
(* verdict (runtime.py: exit_code starts as UNKNOWN).                        *)
(***************************************************************************)
CrashNotHealthy ==
  Ended /\ exc = "Exception" =>
    /\ status # OK
    /\ record \in {None, UNKNOWN}

(***************************************************************************)
(* A verdict of OK is the verdict of every item, or the killswitch's: no     *)
(* item that failed, or that nobody looked at, is behind an exit status of   *)
(* OK (the loops over volumes, services, hosts, GPUs and modules).           *)
(***************************************************************************)
HealthyMeansAllHealthy ==
  Ended /\ status = OK =>
    \/ exc = "none" /\ seen = {}
    \/ /\ left = 0
       /\ seen # {}
       /\ \A o \in seen : Command[name].verdict[o] \in {OK, UNKNOWN}

(***************************************************************************)
(* The worst item decides, whatever came after it: the exit status of a      *)
(* check that ended normally is the verdict of one of its items and none of  *)
(* them is above it in the order of ExitCode.                               *)
(***************************************************************************)
WorstItemReported ==
  Ended /\ exc = "SystemExit" =>
    /\ seen = {} => status = UNKNOWN
    /\ \A o \in seen : ~ Gt(Command[name].verdict[o], status)
    /\ seen # {} => \E o \in seen : Command[name].verdict[o] = status

=============================================================================
