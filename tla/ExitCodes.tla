------------------------------ MODULE ExitCodes ------------------------------
(***************************************************************************)
(* The vocabulary of the health checks: exit codes and their order, what a  *)
(* shell command gives back, and how the checks add verdicts up.            *)
(*                                                                         *)
(* A verdict is an exit code, or Raises when the code that computes it ends *)
(* with an exception nobody catches.                                       *)
(*                                                                         *)
(* The output of a command is [rc, text]: its return code (negative when a  *)
(* signal killed it) and its lines, reduced to what the check looks for in  *)
(* them.  Junk and NoNumber are lines that mean nothing to the check: the   *)
(* second stands for them where lines are read as naturals.                 *)
(***************************************************************************)
EXTENDS Integers, Sequences, FiniteSets

OK       == 0
WARN     == 1
CRITICAL == 2
UNKNOWN  == 3
ExitCode == {OK, WARN, CRITICAL, UNKNOWN}

Raises   == -1
Verdicts == ExitCode \cup {Raises}

Junk     == "junk"
NoNumber == -1

\* Mutant of Gt: the values are compared as they are, UNKNOWN above CRITICAL.
GtByValue(a, b) == a > b

(***************************************************************************)
(* ExitCode.__gt__ and ExitCode.__lt__: UNKNOWN is below all the others, and *)
(* below itself.                                                           *)
(***************************************************************************)
Gt(a, b) == a # UNKNOWN /\ (b = UNKNOWN \/ a > b)
Lt(a, b) == a = UNKNOWN \/ (b # UNKNOWN /\ a < b)

(***************************************************************************)
(* "if exit_code > overall_exit_code: overall_exit_code = exit_code".       *)
(***************************************************************************)
Raise(overall, code) == IF Gt(code, overall) THEN code ELSE overall

(***************************************************************************)
(* What a loop that starts from `first` and raises it makes of a set of     *)
(* verdicts.  The order of the loop does not matter (RaiseCommutes in       *)
(* HealthCheckProofs).                                                      *)
(***************************************************************************)
WorstOf(first, codes) ==
  CHOOSE w \in codes \cup {first} :
    \A c \in codes \cup {first} : ~ Gt(c, w)

\* The worst verdict of a check that starts from OK, and raises on exceptions.
Graded(isCritical, isWarning) ==
  IF isCritical THEN CRITICAL ELSE IF isWarning THEN WARN ELSE OK

---------------------------------------------------------------------------
(***************************************************************************)
(* Commands.                                                               *)
(***************************************************************************)

Out(rc, text) == [rc |-> rc, text |-> text]

(***************************************************************************)
(* handle_subprocess_exception: a command that timed out, or could not be   *)
(* run, is given a return code and one line of text.                        *)
(***************************************************************************)
handle_subprocess_exception(junk) == {Out(128, <<junk>>), Out(2, <<junk>>)}

(***************************************************************************)
(* shell_command and the handler around it: every way a command can end.    *)
(* -9 is the return code of a shell that was killed.                       *)
(***************************************************************************)
ReturnCodes == {-9, 0, 1}

shell_command(texts, junk) ==
  [rc: ReturnCodes, text: texts] \cup handle_subprocess_exception(junk)

Failed(o) == o.rc > 0
Empty(o)  == o.text = <<>>

\* A line of the output satisfies P, written as a set of lines.
Lines(o) == {o.text[i] : i \in DOMAIN o.text}

=============================================================================
