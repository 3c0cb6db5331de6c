--------------------------- MODULE PublishChunk ---------------------------
(***************************************************************************)
(* publish_chunk of gcm/monitoring/cli/sacct_backfill.py: `gcm fsacct`     *)
(* piped into the publish command, both watched by one backfill process.   *)
(* Calls are concurrent when the backfill is (one call when it is serial). *)
(*                                                                         *)
(* The module installs a SIGCHLD handler that reaps every dead child of    *)
(* the process.  It runs whenever the main thread is between two           *)
(* bytecodes, so it races with Popen.wait for the exit status: the one     *)
(* that calls waitpid first gets it, and Popen.wait takes a child that is  *)
(* already gone for one that exited with status 0.                         *)
(***************************************************************************)
CONSTANT Calls    \* the calls of publish_chunk in progress

VARIABLES
  pc,      \* where each call is
  proc,    \* its two children as the kernel and the process see them
  code,    \* the status each child really exited with
  logged,  \* the calls that logged "Failed to publish"
  raised,  \* the calls that ended in an exception
  expired  \* the calls one of whose waits raised TimeoutExpired

chunkVars == <<pc, proc, code, logged, raised, expired>>

Places ==
  {"start", "piping", "waitSacct", "terminatePublish", "terminateSacct", "waitPublish",
   "terminateLate", "exitPublish", "exitSacct", "done"}

Children == {"sacct", "publish"}

\* "waited" was reaped by Popen.wait, "stolen" by the signal handler.
ProcStates == {"none", "running", "zombie", "waited", "stolen"}

ChunkTypeOK ==
  /\ pc \in [Calls -> Places]
  /\ proc \in [Calls -> [Children -> ProcStates]]
  /\ code \in [Calls -> [Children -> {"none", "zero", "nonzero"}]]
  /\ logged \subseteq Calls
  /\ raised \subseteq Calls
  /\ expired \subseteq Calls

ChunkInit ==
  /\ pc = [c \in Calls |-> "start"]
  /\ proc = [c \in Calls |-> [k \in Children |-> "none"]]
  /\ code = [c \in Calls |-> [k \in Children |-> "none"]]
  /\ logged = {}
  /\ raised = {}
  /\ expired = {}

Dead(c, k) == proc[c][k] \in {"none", "zombie", "waited", "stolen"}

-----------------------------------------------------------------------------
(***************************************************************************)
(* The two children and the signal handler.                                *)
(***************************************************************************)

\* The publish command reads its stdin to the end before it exits with 0, and
\* its stdin ends when sacct does.
ChildExits(c, k) ==
  /\ proc[c][k] = "running"
  /\ \E status \in {"zero", "nonzero"} :
       /\ k = "publish" /\ status = "zero" => Dead(c, "sacct")
       /\ code' = [code EXCEPT ![c][k] = status]
  /\ proc' = [proc EXCEPT ![c][k] = "zombie"]
  /\ UNCHANGED <<pc, logged, raised, expired>>

\* reap_children: while os.waitpid(-1, WNOHANG) finds a child.
ReapChildren ==
  /\ \E c \in Calls, k \in Children : proc[c][k] = "zombie"
  /\ proc' = [c \in Calls |-> [k \in Children |->
                IF proc[c][k] = "zombie" THEN "stolen" ELSE proc[c][k]]]
  /\ UNCHANGED <<pc, code, logged, raised, expired>>

-----------------------------------------------------------------------------
(***************************************************************************)
(* The call.  Both Popen objects are context managers: leaving a with      *)
(* waits for the child without a timeout.                                  *)
(***************************************************************************)
SpawnSacct(c) ==
  /\ pc[c] = "start"
  /\ \/ /\ proc' = [proc EXCEPT ![c]["sacct"] = "running"]
        /\ pc' = [pc EXCEPT ![c] = "piping"]
        /\ UNCHANGED raised
     \/ /\ pc' = [pc EXCEPT ![c] = "done"]
        /\ raised' = raised \cup {c}
        /\ UNCHANGED proc
  /\ UNCHANGED <<code, logged, expired>>

\* A publish command that cannot be started leaves only the outer with.
SpawnPublish(c) ==
  /\ pc[c] = "piping"
  /\ \/ /\ proc' = [proc EXCEPT ![c]["publish"] = "running"]
        /\ pc' = [pc EXCEPT ![c] = "waitSacct"]
        /\ UNCHANGED raised
     \/ /\ pc' = [pc EXCEPT ![c] = "exitSacct"]
        /\ raised' = raised \cup {c}
        /\ UNCHANGED proc
  /\ UNCHANGED <<code, logged, expired>>

\* The returncode Popen.wait finds: 0 for a child somebody else has reaped.
Returncode(c, k) == IF proc[c][k] = "stolen" THEN "zero" ELSE code[c][k]

\* Popen.wait reaps the child unless it is gone already.
Wait(c, k) ==
  /\ Dead(c, k)
  /\ proc' = [proc EXCEPT ![c][k] = IF @ = "zombie" THEN "waited" ELSE @]

\* Popen.terminate polls the child first, which reaps one that has exited, and
\* sends SIGTERM to one that has not.
Terminate(c, k) ==
  /\ proc' = [proc EXCEPT ![c][k] =
                CASE @ = "running" -> "zombie" [] @ = "zombie" -> "waited" [] OTHER -> @]
  /\ code' = [code EXCEPT ![c][k] = IF proc[c][k] = "running" THEN "nonzero" ELSE @]

SacctWaited(c) ==
  /\ pc[c] = "waitSacct"
  /\ Wait(c, "sacct")
  /\ IF Returncode(c, "sacct") = "zero"
     THEN /\ pc' = [pc EXCEPT ![c] = "waitPublish"]
          /\ UNCHANGED logged
     ELSE /\ pc' = [pc EXCEPT ![c] = "exitPublish"]
          /\ logged' = logged \cup {c}
  /\ UNCHANGED <<code, raised, expired>>

\* sacct_timeout_sec passed: the last poll found sacct running.  The error is
\* logged before anything is terminated.
SacctTimeout(c) ==
  /\ pc[c] = "waitSacct"
  /\ proc[c]["sacct"] = "running"
  /\ logged' = logged \cup {c}
  /\ expired' = expired \cup {c}
  /\ pc' = [pc EXCEPT ![c] = "terminatePublish"]
  /\ UNCHANGED <<proc, code, raised>>

TerminatePublish(c) ==
  /\ pc[c] = "terminatePublish"
  /\ Terminate(c, "publish")
  /\ pc' = [pc EXCEPT ![c] = "terminateSacct"]
  /\ UNCHANGED <<logged, raised, expired>>

\* Mutant of TerminateSacct: only the publisher is terminated.
SacctIsOrphaned(c) ==
  /\ pc[c] = "terminateSacct"
  /\ pc' = [pc EXCEPT ![c] = "exitPublish"]
  /\ UNCHANGED <<proc, code, logged, raised, expired>>

TerminateSacct(c) ==
  /\ pc[c] = "terminateSacct"
  /\ Terminate(c, "sacct")
  /\ pc' = [pc EXCEPT ![c] = "exitPublish"]
  /\ UNCHANGED <<logged, raised, expired>>

\* Mutant of PublishWaited: the returncode of the publisher is not looked at.
PublishWaitedUnchecked(c) ==
  /\ pc[c] = "waitPublish"
  /\ Wait(c, "publish")
  /\ pc' = [pc EXCEPT ![c] = "exitPublish"]
  /\ UNCHANGED <<code, logged, raised, expired>>

PublishWaited(c) ==
  /\ pc[c] = "waitPublish"
  /\ Wait(c, "publish")
  /\ pc' = [pc EXCEPT ![c] = "exitPublish"]
  /\ logged' = IF Returncode(c, "publish") = "zero" THEN logged ELSE logged \cup {c}
  /\ UNCHANGED <<code, raised, expired>>

\* publish_timeout_sec passed: the last poll found the publisher running.
PublishTimeout(c) ==
  /\ pc[c] = "waitPublish"
  /\ proc[c]["publish"] = "running"
  /\ expired' = expired \cup {c}
  /\ pc' = [pc EXCEPT ![c] = "terminateLate"]
  /\ UNCHANGED <<proc, code, logged, raised>>

\* Mutant of TerminateLate: the timeout is logged but the publisher left alone,
\* and the call goes on to wait for sacct only.
LateIsLeft(c) ==
  /\ pc[c] = "terminateLate"
  /\ logged' = logged \cup {c}
  /\ pc' = [pc EXCEPT ![c] = "exitSacct"]
  /\ UNCHANGED <<proc, code, raised, expired>>

\* The publisher is terminated, then the error is logged.
TerminateLate(c) ==
  /\ pc[c] = "terminateLate"
  /\ Terminate(c, "publish")
  /\ logged' = logged \cup {c}
  /\ pc' = [pc EXCEPT ![c] = "exitPublish"]
  /\ UNCHANGED <<raised, expired>>

\* publish_proc.__exit__ and sacct_proc.__exit__.
ExitPublish(c) ==
  /\ pc[c] = "exitPublish"
  /\ Wait(c, "publish")
  /\ pc' = [pc EXCEPT ![c] = "exitSacct"]
  /\ UNCHANGED <<code, logged, raised, expired>>

ExitSacct(c) ==
  /\ pc[c] = "exitSacct"
  /\ Wait(c, "sacct")
  /\ pc' = [pc EXCEPT ![c] = "done"]
  /\ UNCHANGED <<code, logged, raised, expired>>

\* What the thread of the call does next.
ThreadStep(c) ==
  \/ SpawnSacct(c)    \/ SpawnPublish(c)
  \/ SacctWaited(c)   \/ SacctTimeout(c)   \/ TerminatePublish(c) \/ TerminateSacct(c)
  \/ PublishWaited(c) \/ PublishTimeout(c) \/ TerminateLate(c)
  \/ ExitPublish(c)   \/ ExitSacct(c)

\* Every call has returned and nothing is left to reap.
AllDone ==
  /\ \A c \in Calls : pc[c] = "done"
  /\ UNCHANGED chunkVars

ChunkNext ==
  \/ \E c \in Calls : ThreadStep(c) \/ (\E k \in Children : ChildExits(c, k))
  \/ ReapChildren
  \/ AllDone

\* The thread of a call is scheduled and its timeouts expire.  Neither child
\* has to end by itself.
ChunkSpec ==
  /\ ChunkInit /\ [][ChunkNext]_chunkVars
  /\ \A c \in Calls : WF_chunkVars(ThreadStep(c))

\* As above, and a publisher whose input has ended exits.
ResponsiveSpec ==
  /\ ChunkSpec
  /\ \A c \in Calls : WF_chunkVars(Dead(c, "sacct") /\ ChildExits(c, "publish"))

-----------------------------------------------------------------------------
\* A call that returned leaves nothing behind: no child of it still runs
\* (and writes to the sink while the next chunk is published) or waits to be
\* reaped.
NoChildLeft ==
  \A c \in Calls : pc[c] = "done" =>
    \A k \in Children : proc[c][k] \in {"none", "waited", "stolen"}

\* An error in the log has a cause: a child that failed, or a wait that timed
\* out.  A timeout is not a failure: the child may end well between the last
\* poll and the SIGTERM, and a complete chunk is then logged, and retried.
LoggedForCause ==
  \A c \in Calls : c \in logged => c \in expired \/ \E k \in Children : code[c][k] = "nonzero"

\* A call that returned has logged its timeout, and the failure of either
\* child unless the signal handler reaped that child first.
LoggedUnlessStolen ==
  \A c \in Calls : pc[c] = "done" /\ c \notin raised =>
    /\ c \in expired => c \in logged
    /\ \A k \in Children : code[c][k] = "nonzero" /\ proc[c][k] # "stolen" => c \in logged

\* What the log of failures tells who retries from it (publish_chunk): every
\* chunk that is not in it, whose calls did not raise and whose children
\* nobody else reaped, is complete; one that is in it failed or was late.
\* The help of `new` promises more, "Chunks which fail log an error to STDERR":
\* that does not hold of a child whose status the handler took.
LogExact == LoggedForCause /\ LoggedUnlessStolen

\* Every call that could start its publisher ends, however long sacct takes,
\* when the publisher ends after its input does.  (A publisher that cannot be
\* started leaves sacct behind, and the with waits for it without a timeout.)
ChunkEnds == \A c \in Calls : <>(pc[c] = "done" \/ c \in raised)
=============================================================================
