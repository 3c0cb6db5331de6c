---------------------------- MODULE ChunkProofs ----------------------------
(***************************************************************************)
(* Theorems about a chunk of a backfill: the two children that publish it  *)
(* (PublishChunk), the clients that meet before and after it (Rendezvous)  *)
(* and what flows from sacct to the sink (SacctPipeline).  The three share *)
(* no state and no constants; each part rests on its own assumptions.      *)
(***************************************************************************)
EXTENDS PublishChunk, Rendezvous, SacctPipeline, FiniteSetTheorems, SequenceTheorems,
        WellFoundedInduction, TLAPS

(***************************************************************************)
(* Theorems about publish_chunk for any number of concurrent calls.        *)
(*                                                                         *)
(* The three invariants rest on one about a single call, CallInv: the      *)
(* status of a child is known exactly when it is dead, and once a call has *)
(* passed a child without logging, that child was reaped with status 0 or  *)
(* stolen by the signal handler.                                           *)
(***************************************************************************)

Reaped(c, k) == proc[c][k] \in {"waited", "stolen"}

\* The child did not fail as far as the call can know.
PassedFor(c, k) == Reaped(c, k) /\ (proc[c][k] = "waited" => code[c][k] = "zero")

CallInv(c) ==
  /\ \A k \in Children : (code[c][k] = "none") <=> (proc[c][k] \in {"none", "running"})
  /\ pc[c] = "start" => \A k \in Children : proc[c][k] = "none"
  /\ pc[c] \in {"start", "piping"} => c \notin logged /\ c \notin raised /\ proc[c]["publish"] = "none"
  /\ pc[c] \notin {"start", "piping", "exitSacct", "done"} =>
       c \notin raised /\ proc[c]["publish"] # "none" /\ proc[c]["sacct"] # "none"
  /\ pc[c] = "piping" => proc[c]["sacct"] # "none"
  /\ pc[c] = "waitSacct" => c \notin logged
  /\ pc[c] = "waitPublish" => PassedFor(c, "sacct") /\ c \notin logged
  /\ pc[c] = "exitPublish" /\ c \notin logged => PassedFor(c, "sacct") /\ PassedFor(c, "publish")
  /\ pc[c] \in {"exitSacct", "done"} => proc[c]["publish"] = "none" \/ Reaped(c, "publish")
  /\ pc[c] \in {"exitSacct", "done"} /\ c \notin raised /\ c \notin logged =>
       PassedFor(c, "sacct") /\ PassedFor(c, "publish")
  /\ pc[c] = "done" => proc[c]["sacct"] = "none" \/ Reaped(c, "sacct")
  /\ pc[c] \in {"terminatePublish", "terminateSacct"} => c \in logged
  /\ pc[c] = "terminateLate" => c \in expired
  /\ c \in expired => c \in logged \/ pc[c] = "terminateLate"
  /\ c \in logged => c \in expired \/ \E k \in Children : code[c][k] = "nonzero"

ChunkInv == ChunkTypeOK /\ \A c \in Calls : CallInv(c)

\* The invariant holds before any call starts.
LEMMA ChunkInitInv ==
  ASSUME ChunkInit
  PROVE  ChunkInv
BY DEF ChunkInit, ChunkInv, ChunkTypeOK, Places, CallInv, Children, ProcStates, PassedFor, Reaped

\* A step of one call's thread or child leaves what belongs to the others
\* alone.
LEMMA OthersUntouched ==
  ASSUME NEW c \in Calls, CallInv(c),
         pc'[c] = pc[c], proc'[c] = proc[c], code'[c] = code[c],
         (c \in logged') <=> (c \in logged), (c \in raised') <=> (c \in raised),
         (c \in expired') <=> (c \in expired)
  PROVE  CallInv(c)'
BY DEF CallInv, PassedFor, Reaped

\* Every step preserves the invariant.
LEMMA ChunkStepInv ==
  ASSUME ChunkInv, [ChunkNext]_chunkVars
  PROVE  ChunkInv'
<1> USE DEF ChunkInv
<1>1. ASSUME NEW d \in Calls, ThreadStep(d) \/ \E k \in Children : ChildExits(d, k)
      PROVE  ChunkInv'
  <2> CallInv(d)
    OBVIOUS
  <2>1. \A c \in Calls \ {d} :
          /\ pc'[c] = pc[c] /\ proc'[c] = proc[c] /\ code'[c] = code[c]
          /\ (c \in logged' <=> c \in logged) /\ (c \in raised' <=> c \in raised)
          /\ (c \in expired' <=> c \in expired)
    BY <1>1 DEF ChunkTypeOK, ThreadStep, SpawnSacct, SpawnPublish, SacctWaited, SacctTimeout,
                TerminatePublish, TerminateSacct, PublishWaited, PublishTimeout, TerminateLate,
                ExitPublish, ExitSacct, ChildExits, Wait, Terminate
  <2>2. \A c \in Calls \ {d} : CallInv(c)'
    BY <2>1, OthersUntouched
  <2>3. ChunkTypeOK' /\ CallInv(d)'
    <3> USE DEF ChunkTypeOK, Places, CallInv, Children, ProcStates, PassedFor, Reaped
    <3>1. CASE SpawnSacct(d)
      <4>1. CASE UNCHANGED raised
        <5>1. /\ proc' = [proc EXCEPT ![d]["sacct"] = "running"]
              /\ pc' = [pc EXCEPT ![d] = "piping"]
              /\ d \notin raised'
          BY <3>1, <4>1 DEF SpawnSacct
        <5>2. /\ proc'[d]["sacct"] = "running" /\ proc'[d]["publish"] = "none"
              /\ pc'[d] = "piping"
          BY <5>1, <3>1 DEF SpawnSacct
        <5>3. ChunkTypeOK'
          BY <3>1, <4>1, <5>1 DEF SpawnSacct
        <5> QED
          BY <3>1, <4>1, <5>1, <5>2, <5>3 DEF SpawnSacct
      <4>2. CASE UNCHANGED proc
        BY <3>1, <4>2 DEF SpawnSacct
      <4> QED
        BY <3>1, <4>1, <4>2 DEF SpawnSacct
    <3>2. CASE SpawnPublish(d)
      <4>1. CASE UNCHANGED raised
        <5>1. /\ proc' = [proc EXCEPT ![d]["publish"] = "running"]
              /\ pc' = [pc EXCEPT ![d] = "waitSacct"]
              /\ d \notin raised'
          BY <3>2, <4>1 DEF SpawnPublish
        <5>2. /\ proc'[d]["sacct"] = proc[d]["sacct"] /\ proc'[d]["publish"] = "running"
              /\ pc'[d] = "waitSacct"
          BY <5>1, <3>2 DEF SpawnPublish
        <5>3. ChunkTypeOK'
          BY <3>2, <4>1, <5>1 DEF SpawnPublish
        <5> QED
          BY <3>2, <4>1, <5>1, <5>2, <5>3 DEF SpawnPublish
      <4>2. CASE UNCHANGED proc
        BY <3>2, <4>2 DEF SpawnPublish
      <4> QED
        BY <3>2, <4>1, <4>2 DEF SpawnPublish
    <3>3. CASE SacctWaited(d)
      <4>1. CASE Returncode(d, "sacct") = "zero"
        <5>1. /\ pc'[d] = "waitPublish" /\ proc'[d]["publish"] = proc[d]["publish"]
              /\ UNCHANGED <<logged, code, raised, expired>>
          BY <3>3, <4>1 DEF SacctWaited, Wait
        <5>2. PassedFor(d, "sacct")'
          BY <3>3, <4>1 DEF SacctWaited, Wait, Dead, Returncode
        <5>3. ChunkTypeOK'
          <6>1. pc' = [pc EXCEPT ![d] = "waitPublish"]
            BY <3>3, <4>1 DEF SacctWaited
          <6>2. proc' \in [Calls -> [Children -> ProcStates]]
            BY <3>3 DEF SacctWaited, Wait
          <6> QED
            BY <5>1, <6>1, <6>2
        <5>4. /\ proc'[d]["sacct"] \notin {"none", "running"}
              /\ code[d]["sacct"] # "none"
          BY <3>3, <5>2 DEF SacctWaited, Wait, Dead
        <5>5. d \notin logged /\ d \notin raised /\ d \notin expired /\ proc[d]["publish"] # "none"
          BY <3>3 DEF SacctWaited
        <5>6. (code[d]["publish"] = "none") <=> (proc[d]["publish"] \in {"none", "running"})
          OBVIOUS
        <5>7. \A k \in Children : (code'[d][k] = "none") <=> (proc'[d][k] \in {"none", "running"})
          BY <5>1, <5>4, <5>6
        <5> QED
          BY <5>1, <5>2, <5>3, <5>4, <5>5, <5>7
      <4>2. CASE Returncode(d, "sacct") # "zero"
        <5>1. /\ pc' = [pc EXCEPT ![d] = "exitPublish"] /\ logged' = logged \cup {d}
              /\ UNCHANGED <<code, raised, expired>>
              /\ proc' = [proc EXCEPT ![d]["sacct"] = IF @ = "zombie" THEN "waited" ELSE @]
          BY <3>3, <4>2 DEF SacctWaited, Wait
        <5>2. code[d]["sacct"] = "nonzero" /\ proc[d]["sacct"] \notin {"none", "running"}
          BY <3>3, <4>2 DEF SacctWaited, Wait, Dead, Returncode
        <5>3. ChunkTypeOK'
          BY <5>1
        <5>4. d \notin raised /\ proc[d]["publish"] # "none" /\ pc[d] = "waitSacct"
          BY <3>3 DEF SacctWaited
        <5>5. /\ pc'[d] = "exitPublish" /\ d \in logged'
              /\ proc'[d]["publish"] = proc[d]["publish"]
              /\ proc'[d]["sacct"] \notin {"none", "running"}
          BY <5>1, <5>2
        <5>6. \A k \in Children : (code'[d][k] = "none") <=> (proc'[d][k] \in {"none", "running"})
          BY <5>1, <5>2, <5>5
        <5> QED
          BY <5>1, <5>2, <5>3, <5>4, <5>5, <5>6
      <4> QED
        BY <4>1, <4>2
    <3>4. CASE SacctTimeout(d)
      BY <3>4 DEF SacctTimeout
    <3>5. CASE PublishWaited(d)
      <4>1. CASE Returncode(d, "publish") = "zero"
        <5>1. logged' = logged
          BY <3>5, <4>1 DEF PublishWaited
        <5> QED
          BY <3>5, <4>1, <5>1 DEF PublishWaited, Wait, Dead, Returncode
      <4>2. CASE Returncode(d, "publish") # "zero"
        <5>1. logged' = logged \cup {d}
          BY <3>5, <4>2 DEF PublishWaited
        <5> QED
          BY <3>5, <4>2, <5>1 DEF PublishWaited, Wait, Dead, Returncode
      <4> QED
        BY <4>1, <4>2
    <3>6. CASE PublishTimeout(d)
      BY <3>6 DEF PublishTimeout
    <3>10. CASE TerminatePublish(d)
      BY <3>10 DEF TerminatePublish, Terminate
    <3>11. CASE TerminateSacct(d)
      BY <3>11 DEF TerminateSacct, Terminate
    <3>12. CASE TerminateLate(d)
      BY <3>12 DEF TerminateLate, Terminate
    <3>7. CASE ExitPublish(d)
      BY <3>7 DEF ExitPublish, Wait, Dead
    <3>8. CASE ExitSacct(d)
      BY <3>8 DEF ExitSacct, Wait, Dead
    <3>9. ASSUME NEW k \in Children, ChildExits(d, k)
          PROVE  ChunkTypeOK' /\ CallInv(d)'
      BY <3>9 DEF ChildExits
    <3> QED
      BY <1>1, <3>1, <3>2, <3>3, <3>4, <3>5, <3>6, <3>7, <3>8, <3>9, <3>10, <3>11, <3>12
      DEF ThreadStep
  <2> QED
    BY <2>2, <2>3
<1>2. CASE ReapChildren
  <2>1. ChunkTypeOK'
    BY <1>2 DEF ReapChildren, ChunkTypeOK, ProcStates
  <2>2. ASSUME NEW c \in Calls
        PROVE  CallInv(c)'
    <3>1. CallInv(c)
      OBVIOUS
    <3> QED
      BY <1>2, <3>1 DEF ReapChildren, ChunkTypeOK, CallInv, Children, ProcStates, PassedFor, Reaped
  <2> QED
    BY <2>1, <2>2
<1>3. CASE UNCHANGED chunkVars
  BY <1>3 DEF chunkVars, ChunkTypeOK, CallInv, PassedFor, Reaped
<1> QED
  BY <1>1, <1>2, <1>3 DEF ChunkNext, AllDone

\* The invariant says what the properties say.
LEMMA ChunkInvImplies ==
  ASSUME ChunkInv
  PROVE  NoChildLeft /\ LogExact
<1>1. NoChildLeft
  BY DEF ChunkInv, CallInv, NoChildLeft, Children, Reaped
<1>2. LoggedForCause
  BY DEF ChunkInv, CallInv, LoggedForCause
<1>3. LoggedUnlessStolen
  BY DEF ChunkInv, CallInv, LoggedUnlessStolen, Children, PassedFor, Reaped
<1> QED
  BY <1>1, <1>2, <1>3 DEF LogExact

\* For any number of concurrent calls: the state of the calls and of their
\* children keeps its type.
THEOREM ChunkTypeCorrect == ChunkSpec => []ChunkTypeOK
<1>1. ChunkInit => ChunkInv
  BY ChunkInitInv
<1>2. ChunkInv /\ [ChunkNext]_chunkVars => ChunkInv'
  BY ChunkStepInv
<1>3. ChunkInv => ChunkTypeOK
  BY DEF ChunkInv
<1> QED
  BY <1>1, <1>2, <1>3, PTL DEF ChunkSpec

\* For any number of concurrent calls: a returned call leaves no child behind.
THEOREM NoChildIsLeft == ChunkSpec => []NoChildLeft
<1>1. ChunkInit => ChunkInv
  BY ChunkInitInv
<1>2. ChunkInv /\ [ChunkNext]_chunkVars => ChunkInv'
  BY ChunkStepInv
<1>3. ChunkInv => NoChildLeft
  BY ChunkInvImplies
<1> QED
  BY <1>1, <1>2, <1>3, PTL DEF ChunkSpec

\* For any number of concurrent calls: a logged chunk failed or was late, and a
\* late one is logged, as is a failed one unless the signal handler took the
\* status away or the call raised.
THEOREM FailureLogExact == ChunkSpec => []LogExact
<1>1. ChunkInit => ChunkInv
  BY ChunkInitInv
<1>2. ChunkInv /\ [ChunkNext]_chunkVars => ChunkInv'
  BY ChunkStepInv
<1>3. ChunkInv => LogExact
  BY ChunkInvImplies
<1> QED
  BY <1>1, <1>2, <1>3, PTL DEF ChunkSpec

(***************************************************************************)
(* The half of ChunkEnds that needs no fairness: a call and its children   *)
(* only move forward, so that nothing of it is ever done twice.  Progress  *)
(* is a variant: it is bounded and every step increases it.                *)
(***************************************************************************)
PcRank(at) ==
  CASE at = "start"       -> 0
    [] at = "piping"      -> 1
    [] at = "waitSacct"   -> 2
    [] at \in {"terminatePublish", "waitPublish"}   -> 3
    [] at \in {"terminateSacct", "terminateLate"} -> 4
    [] at = "exitPublish" -> 5
    [] at = "exitSacct"   -> 6
    [] at = "done"        -> 7

ProcRank(p) ==
  CASE p = "none"    -> 0
    [] p = "running" -> 1
    [] p = "zombie"  -> 2
    [] p \in {"waited", "stolen"} -> 3

Progress(c) == PcRank(pc[c]) + ProcRank(proc[c]["sacct"]) + ProcRank(proc[c]["publish"])

\* A call is over after at most 13 steps of its thread, its children and the
\* handler; no step takes a call back, and every step takes one further
\* (publish_chunk has no loop and starts each child once).
ProgressBounded == \A c \in Calls : Progress(c) \in 0..13

OnlyForward ==
  /\ \A c \in Calls : Progress(c) <= Progress(c)'
  /\ \E c \in Calls : Progress(c) < Progress(c)'

\* The ranks of a state of the proper type are numbers.
LEMMA RanksAreNumbers ==
  ASSUME ChunkTypeOK, NEW c \in Calls
  PROVE  /\ PcRank(pc[c]) \in 0..7
         /\ \A k \in Children : ProcRank(proc[c][k]) \in 0..3
         /\ Progress(c) = PcRank(pc[c]) + ProcRank(proc[c]["sacct"]) + ProcRank(proc[c]["publish"])
         /\ Progress(c) \in 0..13
<1>1. PcRank(pc[c]) \in 0..7
  BY DEF ChunkTypeOK, Places, PcRank
<1>2. \A k \in Children : ProcRank(proc[c][k]) \in 0..3
  BY DEF ChunkTypeOK, ProcStates, Children, ProcRank
<1> QED
  BY <1>1, <1>2 DEF Progress, Children

\* A call whose place and children do not fall behind does not either.
LEMMA ProgressGrows ==
  ASSUME ChunkTypeOK, ChunkTypeOK', NEW c \in Calls,
         PcRank(pc[c]) <= PcRank(pc'[c]),
         \A k \in Children : ProcRank(proc[c][k]) <= ProcRank(proc'[c][k])
  PROVE  /\ Progress(c) <= Progress(c)'
         /\ PcRank(pc[c]) < PcRank(pc'[c]) => Progress(c) < Progress(c)'
         /\ \A k \in Children :
              ProcRank(proc[c][k]) < ProcRank(proc'[c][k]) => Progress(c) < Progress(c)'
<1>1. /\ PcRank(pc[c]) \in 0..7 /\ PcRank(pc'[c]) \in 0..7
      /\ \A k \in Children : ProcRank(proc[c][k]) \in 0..3 /\ ProcRank(proc'[c][k]) \in 0..3
  BY RanksAreNumbers DEF ChunkTypeOK, Places, PcRank, ProcRank, ProcStates, Children
<1>2. "sacct" \in Children /\ "publish" \in Children
      /\ \A k \in Children : k = "sacct" \/ k = "publish"
  BY DEF Children
<1> QED
  BY <1>1, <1>2 DEF Progress

\* A step of the thread of a call takes the call further.
LEMMA ThreadMovesOn ==
  ASSUME ChunkInv, ChunkInv', NEW c \in Calls, ThreadStep(c)
  PROVE  OnlyForward
<1>0. ChunkTypeOK /\ ChunkTypeOK' /\ CallInv(c)
  BY DEF ChunkInv
<1>1. /\ PcRank(pc[c]) < PcRank(pc'[c])
      /\ \A k \in Children : ProcRank(proc[c][k]) <= ProcRank(proc'[c][k])
  <2> USE <1>0 DEF ChunkTypeOK, Places, PcRank, ProcRank, ProcStates, Children
  <2>1. CASE SpawnSacct(c)
    BY <2>1 DEF SpawnSacct, CallInv
  <2>2. CASE SpawnPublish(c)
    BY <2>2 DEF SpawnPublish, CallInv
  <2>3. CASE SacctWaited(c)
    BY <2>3 DEF SacctWaited, Wait
  <2>4. CASE SacctTimeout(c)
    BY <2>4 DEF SacctTimeout
  <2>5. CASE PublishWaited(c)
    BY <2>5 DEF PublishWaited, Wait
  <2>6. CASE PublishTimeout(c)
    BY <2>6 DEF PublishTimeout
  <2>7. CASE ExitPublish(c)
    BY <2>7 DEF ExitPublish, Wait
  <2>8. CASE ExitSacct(c)
    BY <2>8 DEF ExitSacct, Wait
  <2>9. CASE TerminatePublish(c)
    BY <2>9 DEF TerminatePublish, Terminate
  <2>10. CASE TerminateSacct(c)
    BY <2>10 DEF TerminateSacct, Terminate
  <2>11. CASE TerminateLate(c)
    BY <2>11 DEF TerminateLate, Terminate
  <2> QED
    BY <2>1, <2>2, <2>3, <2>4, <2>5, <2>6, <2>7, <2>8, <2>9, <2>10, <2>11 DEF ThreadStep
<1>2. \A d \in Calls \ {c} : pc'[d] = pc[d] /\ proc'[d] = proc[d]
  BY <1>0 DEF ThreadStep, SpawnSacct, SpawnPublish, SacctWaited, SacctTimeout, PublishWaited,
         PublishTimeout, TerminatePublish, TerminateSacct, TerminateLate, ExitPublish, ExitSacct,
         Wait, Terminate, ChunkTypeOK
<1>3. \A d \in Calls : /\ PcRank(pc[d]) \in 0..7 /\ PcRank(pc'[d]) \in 0..7
                       /\ \A k \in Children : ProcRank(proc[d][k]) \in 0..3
  BY <1>0, RanksAreNumbers DEF ChunkTypeOK, Places, PcRank
<1>4. Progress(c) < Progress(c)' /\ Progress(c) <= Progress(c)'
  BY <1>0, <1>1, <1>3, ProgressGrows
<1>5. \A d \in Calls : Progress(d) <= Progress(d)'
  <2> SUFFICES ASSUME NEW d \in Calls, d # c
               PROVE  Progress(d) <= Progress(d)'
    BY <1>4
  <2>1. pc'[d] = pc[d] /\ proc'[d] = proc[d]
    BY <1>2
  <2> QED
    BY <1>0, <1>3, <2>1, ProgressGrows
<1> QED
  BY <1>4, <1>5 DEF OnlyForward

\* The exit of a child takes its call further.
LEMMA ChildMovesOn ==
  ASSUME ChunkTypeOK, ChunkTypeOK', NEW c \in Calls, NEW k \in Children, ChildExits(c, k)
  PROVE  OnlyForward
<1>1. /\ \A d \in Calls : pc'[d] = pc[d]
      /\ \A d \in Calls, j \in Children :
           proc'[d][j] = IF d = c /\ j = k THEN "zombie" ELSE proc[d][j]
      /\ proc[c][k] = "running"
  BY DEF ChildExits, ChunkTypeOK
<1>2. ProcRank("running") = 1 /\ ProcRank("zombie") = 2
  BY DEF ProcRank
<1>3. \A d \in Calls : PcRank(pc[d]) \in 0..7
                        /\ \A j \in Children : ProcRank(proc[d][j]) \in 0..3
  BY RanksAreNumbers
<1>4. \A d \in Calls : /\ PcRank(pc[d]) <= PcRank(pc'[d])
                       /\ \A j \in Children : ProcRank(proc[d][j]) <= ProcRank(proc'[d][j])
  BY <1>1, <1>2, <1>3
<1>5. ProcRank(proc[c][k]) < ProcRank(proc'[c][k])
  BY <1>1, <1>2
<1> QED
  BY <1>4, <1>5, ProgressGrows DEF OnlyForward

\* The handler takes every call further that it reaps a child of.
LEMMA HandlerMovesOn ==
  ASSUME ChunkTypeOK, ChunkTypeOK', ReapChildren
  PROVE  OnlyForward
<1>1. PICK c \in Calls, k \in Children : proc[c][k] = "zombie"
  BY DEF ReapChildren
<1>2. /\ \A d \in Calls : pc'[d] = pc[d]
      /\ \A d \in Calls, j \in Children :
           proc'[d][j] = IF proc[d][j] = "zombie" THEN "stolen" ELSE proc[d][j]
  BY DEF ReapChildren
<1>3. ProcRank("zombie") = 2 /\ ProcRank("stolen") = 3
  BY DEF ProcRank
<1>4. \A d \in Calls : PcRank(pc[d]) \in 0..7
                        /\ \A j \in Children : ProcRank(proc[d][j]) \in 0..3
  BY RanksAreNumbers
<1>5. \A d \in Calls : /\ PcRank(pc[d]) <= PcRank(pc'[d])
                       /\ \A j \in Children : ProcRank(proc[d][j]) <= ProcRank(proc'[d][j])
  BY <1>2, <1>3, <1>4
<1>6. ProcRank(proc[c][k]) < ProcRank(proc'[c][k])
  BY <1>1, <1>2, <1>3
<1> QED
  BY <1>5, <1>6, ProgressGrows DEF OnlyForward

\* For any number of concurrent calls: calls only move forward, each by at most
\* 13 steps.  With the fairness of ResponsiveSpec this is why ChunkEnds holds.
THEOREM CallsOnlyMoveForward ==
  ChunkSpec => []ProgressBounded /\ [][OnlyForward]_chunkVars
<1>1. ChunkInit => ChunkInv
  BY ChunkInitInv
<1>2. ChunkInv /\ [ChunkNext]_chunkVars => ChunkInv'
  BY ChunkStepInv
<1>3. ChunkInv => ProgressBounded
  <2> SUFFICES ASSUME ChunkInv, NEW c \in Calls
               PROVE  Progress(c) \in 0..13
    BY DEF ProgressBounded
  <2>1. ChunkTypeOK
    BY DEF ChunkInv
  <2> QED
    BY <2>1, RanksAreNumbers
<1>4. ChunkInv /\ ChunkInv' /\ [ChunkNext]_chunkVars => [OnlyForward]_chunkVars
  <2> SUFFICES ASSUME ChunkInv, ChunkInv', ChunkNext
               PROVE  OnlyForward \/ UNCHANGED chunkVars
    OBVIOUS
  <2>1. ChunkTypeOK /\ ChunkTypeOK'
    BY DEF ChunkInv
  <2>2. CASE \E c \in Calls : ThreadStep(c)
    BY <2>2, ThreadMovesOn
  <2>3. CASE \E c \in Calls, k \in Children : ChildExits(c, k)
    BY <2>1, <2>3, ChildMovesOn
  <2>4. CASE ReapChildren
    BY <2>1, <2>4, HandlerMovesOn
  <2>5. CASE AllDone
    BY <2>5 DEF AllDone
  <2> QED
    BY <2>2, <2>3, <2>4, <2>5 DEF ChunkNext
<1> QED
  BY <1>1, <1>2, <1>3, <1>4, PTL DEF ChunkSpec

-----------------------------------------------------------------------------
(***************************************************************************)
(* The lockstep of the clients, for any number of clients, chunks and      *)
(* threads, whatever waits time out.                                       *)
(*                                                                         *)
(* The invariant follows a chunk through its barrier.  For every base b    *)
(* and chunk c one of five stages holds: the clients gather (S1), leave    *)
(* the first wait (S2), publish and gather again (S3), leave the second    *)
(* wait (S4), are done (S5).  A barrier is full only when every client is  *)
(* inside, which takes clients of one base.                                *)
(***************************************************************************)

Team(b) == {p \in Procs : base[p] = b}

S1(b, c) ==
  /\ barrier[<<b, c>>] \in {"filling", "broken"}
  /\ \A p \in Team(b) : phase[p][c] \in {"todo", "start", "lost"}
  /\ \A p \in Team(b) : phase[p][c] = "lost" => barrier[<<b, c>>] = "broken"
  /\ \A p \in inside[<<b, c>>] : phase[p][c] = "start"

S2(b, c) ==
  /\ barrier[<<b, c>>] = "draining" /\ Team(b) = Procs
  /\ \A p \in Team(b) :
       IF p \in inside[<<b, c>>] THEN phase[p][c] = "start" ELSE phase[p][c] \in {"publishing", "end"}

S3(b, c) ==
  /\ barrier[<<b, c>>] \in {"filling", "broken"} /\ Team(b) = Procs
  /\ \A p \in Team(b) : phase[p][c] \in {"publishing", "end", "torn"}
  /\ \A p \in Team(b) : phase[p][c] = "torn" => barrier[<<b, c>>] = "broken"
  /\ \A p \in inside[<<b, c>>] : phase[p][c] = "end"

S4(b, c) ==
  /\ barrier[<<b, c>>] = "draining" /\ Team(b) = Procs
  /\ \A p \in Team(b) :
       IF p \in inside[<<b, c>>] THEN phase[p][c] = "end" ELSE phase[p][c] = "done"

S5(b, c) ==
  /\ barrier[<<b, c>>] = "filling" /\ Team(b) = Procs
  /\ inside[<<b, c>>] = {}
  /\ \A p \in Team(b) : phase[p][c] = "done"

Stage(b, c) ==
  /\ inside[<<b, c>>] \subseteq Team(b)
  /\ S1(b, c) \/ S2(b, c) \/ S3(b, c) \/ S4(b, c) \/ S5(b, c)

RvInv == RvTypeOK /\ \A b \in Bases, c \in Chunks : Stage(b, c)

\* Nobody has come to any chunk at the start.
LEMMA RvInitInv ==
  ASSUME RvInit
  PROVE  RvInv
<1>1. RvTypeOK
  BY DEF RvInit, RvTypeOK, RvPhases
<1>2. ASSUME NEW b \in Bases, NEW c \in Chunks
      PROVE  Stage(b, c)
  <2>1. <<b, c>> \in Keys
    BY DEF Keys
  <2> QED
    BY <2>1 DEF RvInit, Stage, S1, Team
<1> QED
  BY <1>1, <1>2 DEF RvInv

\* A barrier is full when every client is inside.
LEMMA FullBarrier ==
  ASSUME Parties = Cardinality(Procs), NEW S, S \subseteq Procs, Cardinality(S) = Parties
  PROVE  S = Procs
BY RendezvousAssumption, FS_Subset

\* The stage of a chunk depends only on its own barrier and on its team.
LEMMA OtherStage ==
  ASSUME NEW b \in Bases, NEW c \in Chunks, Stage(b, c), UNCHANGED base,
         barrier'[<<b, c>>] = barrier[<<b, c>>], inside'[<<b, c>>] = inside[<<b, c>>],
         \A q \in Team(b) : phase'[q][c] = phase[q][c]
  PROVE  Stage(b, c)'
<1>1. Team(b)' = Team(b)
  BY DEF Team
<1>2. \A q \in inside[<<b, c>>] : phase'[q][c] = phase[q][c]
  BY DEF Stage
<1> QED
  BY <1>1, <1>2 DEF Stage, S1, S2, S3, S4, S5

\* A step of client p with chunk d changes nothing but that chunk and its
\* barrier.
Touches(p, d) ==
  /\ UNCHANGED base
  /\ \A q \in Procs, c \in Chunks : ~(q = p /\ c = d) => phase'[q][c] = phase[q][c]
  /\ \A k \in Keys : k # Key(p, d) => barrier'[k] = barrier[k] /\ inside'[k] = inside[k]

\* Every step of a client touches one chunk.
LEMMA StepTouches ==
  ASSUME RvTypeOK, NEW p \in Procs, NEW d \in Chunks,
         \/ Take(p, d) \/ Arrive(p, d) \/ Begin(p, d)
         \/ Published(p, d) \/ Finish(p, d) \/ Fail(p, d)
  PROVE  RvTypeOK' /\ Touches(p, d)
<1>1. /\ UNCHANGED <<base, luck>> /\ alive' \subseteq Procs
      /\ UNCHANGED <<barrier, inside>> \/ Enter(p, d) \/ Leave(p, d) \/ Breaks(p, d)
      /\ UNCHANGED phase \/ \E ph \in RvPhases : MoveTo(p, d, ph)
  BY DEF RvTypeOK, RvPhases, Take, Arrive, Begin, Published, Finish, Fail, given
<1>2. Key(p, d) \in Keys
  BY DEF RvTypeOK, Key, Keys
<1>3. /\ phase' \in [Procs -> [Chunks -> RvPhases]]
      /\ \A q \in Procs, c \in Chunks : ~(q = p /\ c = d) => phase'[q][c] = phase[q][c]
  BY <1>1 DEF RvTypeOK, MoveTo
<1>4. /\ barrier' \in [Keys -> {"filling", "draining", "broken"}]
      /\ inside' \in [Keys -> SUBSET Procs]
      /\ \A k \in Keys : k # Key(p, d) => barrier'[k] = barrier[k] /\ inside'[k] = inside[k]
  <2>1. CASE UNCHANGED <<barrier, inside>>
    BY <2>1 DEF RvTypeOK
  <2>2. CASE Enter(p, d)
    BY <2>2, <1>2 DEF RvTypeOK, Enter
  <2>3. CASE Leave(p, d)
    BY <2>3, <1>2 DEF RvTypeOK, Leave
  <2>4. CASE Breaks(p, d)
    BY <2>4, <1>2 DEF RvTypeOK, Breaks
  <2> QED
    BY <1>1, <2>1, <2>2, <2>3, <2>4
<1> QED
  BY <1>1, <1>3, <1>4 DEF RvTypeOK, Touches

\* It is enough to look at the chunk a step touches.
LEMMA OneStage ==
  ASSUME RvInv, NEW p \in Procs, NEW d \in Chunks, NEW a, a = base[p],
         RvTypeOK', Touches(p, d), Stage(a, d)'
  PROVE  RvInv'
<1> SUFFICES ASSUME NEW b \in Bases, NEW c \in Chunks
             PROVE  Stage(b, c)'
  BY DEF RvInv
<1>1. CASE b = a /\ c = d
  BY <1>1
<1>2. CASE ~(b = a /\ c = d)
  <2>1. <<b, c>> \in Keys /\ <<b, c>> # Key(p, d)
    BY <1>2 DEF Keys, Key
  <2>2. \A q \in Team(b) : ~(q = p /\ c = d)
    BY <1>2 DEF Team
  <2> QED
    BY <2>1, <2>2, OtherStage DEF RvInv, Touches, Team
<1> QED
  BY <1>1, <1>2

\* Every step takes the chunk it touches from a stage to the same or the next.
LEMMA RvStepInv ==
  ASSUME Parties = Cardinality(Procs), RvInv, [RvNext]_rvVars
  PROVE  RvInv'
<1>1. ASSUME NEW p \in Procs, NEW d \in Chunks,
             \/ Take(p, d) \/ Arrive(p, d) \/ Begin(p, d)
             \/ Published(p, d) \/ Finish(p, d) \/ Fail(p, d)
      PROVE  RvInv'
  <2>1. PICK a \in Bases : a = base[p]
    BY DEF RvInv, RvTypeOK
  <2>2. RvTypeOK /\ RvTypeOK' /\ Touches(p, d)
    BY <1>1, StepTouches DEF RvInv
  <2>3. PICK k \in Keys : k = <<a, d>>
    BY DEF Keys
  <2>4. /\ Key(p, d) = k /\ p \in Team(a) /\ Team(a)' = Team(a) /\ Team(a) \subseteq Procs
        /\ Stage(a, d)
    BY <2>1, <2>2, <2>3 DEF Key, Team, Touches, RvInv
  <2>5. \A q \in Team(a) : q # p => phase'[q][d] = phase[q][d]
    BY <2>2, <2>4 DEF Touches
  <2>6. inside[k] \subseteq Team(a)
    BY <2>3, <2>4 DEF Stage
  <2>7. Stage(a, d)'
    <3> USE <2>3, <2>4, <2>5, <2>6
    <3>1. CASE Take(p, d)
      <4>1. /\ UNCHANGED <<barrier, inside>> /\ phase[p][d] = "todo" /\ phase'[p][d] = "start"
        BY <2>2, <3>1 DEF Take, Ready, MoveTo, RvTypeOK
      <4>2. S1(a, d)
        BY <4>1 DEF Stage, S1, S2, S3, S4, S5
      <4>3. S1(a, d)'
        BY <4>1, <4>2 DEF S1
      <4> QED
        BY <4>1, <4>3 DEF Stage
    <3>2. CASE Arrive(p, d)
      <4>1. /\ UNCHANGED phase /\ phase[p][d] \in {"start", "end"} /\ barrier[k] = "filling"
            /\ inside'[k] = inside[k] \cup {p}
            /\ barrier'[k] = IF Cardinality(inside[k] \cup {p}) = Parties THEN "draining" ELSE "filling"
        BY <2>2, <3>2 DEF Arrive, Enter, RvTypeOK
      <4>2. inside'[k] \subseteq Team(a)
        BY <4>1
      <4>3. CASE Cardinality(inside[k] \cup {p}) = Parties
        <5>1. inside'[k] = Procs /\ Team(a) = Procs
          BY <4>1, <4>2, <4>3, FullBarrier
        <5>2. CASE S1(a, d)
          <6>1. S2(a, d)'
            BY <4>1, <4>3, <5>1, <5>2 DEF S1, S2
          <6> QED
            BY <4>2, <6>1 DEF Stage
        <5>3. CASE S3(a, d)
          <6>1. S4(a, d)'
            BY <4>1, <4>3, <5>1, <5>3 DEF S3, S4
          <6> QED
            BY <4>2, <6>1 DEF Stage
        <5> QED
          BY <4>1, <5>2, <5>3 DEF Stage, S2, S4, S5
      <4>4. CASE Cardinality(inside[k] \cup {p}) # Parties
        <5>1. barrier'[k] = "filling"
          BY <4>1, <4>4
        <5>2. CASE S1(a, d)
          <6>1. S1(a, d)'
            BY <4>1, <5>1, <5>2 DEF S1
          <6> QED
            BY <4>2, <6>1 DEF Stage
        <5>3. CASE S3(a, d)
          <6>1. S3(a, d)'
            BY <4>1, <5>1, <5>3 DEF S3
          <6> QED
            BY <4>2, <6>1 DEF Stage
        <5> QED
          BY <4>1, <5>2, <5>3 DEF Stage, S2, S4, S5
      <4> QED
        BY <4>3, <4>4
    <3>3. CASE Begin(p, d)
      <4>1. /\ phase[p][d] = "start" /\ phase'[p][d] = "publishing" /\ barrier[k] = "draining"
            /\ p \in inside[k] /\ inside'[k] = inside[k] \ {p}
            /\ barrier'[k] = IF inside[k] = {p} THEN "filling" ELSE "draining"
        BY <2>2, <3>3 DEF Begin, Leave, Waiting, MoveTo, RvTypeOK
      <4>2. S2(a, d)
        BY <4>1 DEF Stage, S1, S2, S3, S4, S5
      <4>3. CASE inside[k] = {p}
        <5>1. S3(a, d)'
          BY <4>1, <4>2, <4>3 DEF S2, S3
        <5> QED
          BY <4>1, <5>1 DEF Stage
      <4>4. CASE inside[k] # {p}
        <5>1. S2(a, d)'
          BY <4>1, <4>2, <4>4 DEF S2
        <5> QED
          BY <4>1, <5>1 DEF Stage
      <4> QED
        BY <4>3, <4>4
    <3>4. CASE Published(p, d)
      <4>1. /\ UNCHANGED <<barrier, inside>> /\ phase[p][d] = "publishing" /\ phase'[p][d] = "end"
        BY <2>2, <3>4 DEF Published, MoveTo, RvTypeOK
      <4>2. CASE S2(a, d)
        <5>1. S2(a, d)'
          BY <4>1, <4>2 DEF S2
        <5> QED
          BY <4>1, <5>1 DEF Stage
      <4>3. CASE S3(a, d)
        <5>1. S3(a, d)'
          BY <4>1, <4>3 DEF S3
        <5> QED
          BY <4>1, <5>1 DEF Stage
      <4> QED
        BY <4>1, <4>2, <4>3 DEF Stage, S1, S4, S5
    <3>5. CASE Finish(p, d)
      <4>1. /\ phase[p][d] = "end" /\ phase'[p][d] = "done" /\ barrier[k] = "draining"
            /\ p \in inside[k] /\ inside'[k] = inside[k] \ {p}
            /\ barrier'[k] = IF inside[k] = {p} THEN "filling" ELSE "draining"
        BY <2>2, <3>5 DEF Finish, Leave, Waiting, MoveTo, RvTypeOK
      <4>2. S4(a, d)
        BY <4>1 DEF Stage, S1, S2, S3, S4, S5
      <4>3. CASE inside[k] = {p}
        <5>1. S5(a, d)'
          BY <4>1, <4>2, <4>3 DEF S4, S5
        <5> QED
          BY <4>1, <5>1 DEF Stage
      <4>4. CASE inside[k] # {p}
        <5>1. S4(a, d)'
          BY <4>1, <4>2, <4>4 DEF S4
        <5> QED
          BY <4>1, <5>1 DEF Stage
      <4> QED
        BY <4>3, <4>4
    <3>6. CASE Fail(p, d)
      <4>1. /\ barrier[k] \in {"filling", "broken"} /\ barrier'[k] = "broken"
            /\ inside'[k] = inside[k] \ {p}
            /\ (barrier[k] = "filling" => p \in inside[k])
        BY <2>2, <3>6 DEF Fail, Breaks, Waiting, RvTypeOK
      <4>2. \/ phase[p][d] = "start" /\ phase'[p][d] = "lost"
            \/ phase[p][d] = "end" /\ phase'[p][d] = "torn"
        BY <2>2, <3>6 DEF Fail, MoveTo, RvTypeOK
      <4>3. CASE S1(a, d)
        <5>1. S1(a, d)'
          BY <4>1, <4>2, <4>3 DEF S1
        <5> QED
          BY <4>1, <5>1 DEF Stage
      <4>4. CASE S3(a, d)
        <5>1. S3(a, d)'
          BY <4>1, <4>2, <4>4 DEF S3
        <5> QED
          BY <4>1, <5>1 DEF Stage
      <4> QED
        BY <4>1, <4>2, <4>3, <4>4 DEF Stage, S2, S4, S5
    <3> QED
      BY <1>1, <3>1, <3>2, <3>3, <3>4, <3>5, <3>6
  <2> QED
    BY <2>1, <2>2, <2>7, OneStage
<1>2. CASE UNCHANGED rvVars
  <2>1. RvTypeOK'
    BY <1>2 DEF RvInv, RvTypeOK, rvVars, given
  <2>2. ASSUME NEW b \in Bases, NEW c \in Chunks
        PROVE  Stage(b, c)'
    BY <1>2, OtherStage DEF RvInv, rvVars, given
  <2> QED
    BY <2>1, <2>2 DEF RvInv
<1> QED
  BY <1>1, <1>2 DEF RvNext, ClientStep, AllOver

\* The stages keep the clients together.
LEMMA StagesTogether ==
  ASSUME RvInv
  PROVE  InStep
<1> SUFFICES ASSUME NEW p \in Procs, NEW q \in Procs, NEW c \in Chunks
             PROVE  /\ phase[p][c] = "publishing" => phase[q][c] \in {"start", "publishing", "end", "torn"}
                    /\ phase[p][c] = "done" => phase[q][c] \in {"end", "done", "torn"}
  BY DEF InStep, Lockstep, DoneTogether
<1>1. PICK b \in Bases : b = base[p]
  BY DEF RvInv, RvTypeOK
<1>2. Stage(b, c) /\ p \in Team(b)
  BY <1>1 DEF RvInv, Team
<1> QED
  BY <1>2 DEF Stage, S1, S2, S3, S4, S5

\* The state of clients and barriers keeps its type.
THEOREM RvTypeCorrect ==
  ASSUME Parties = Cardinality(Procs)
  PROVE  RvSpec => []RvTypeOK
<1>1. RvInit => RvInv
  BY RvInitInv
<1>2. RvInv /\ [RvNext]_rvVars => RvInv'
  BY RvStepInv
<1>3. RvInv => RvTypeOK
  BY DEF RvInv
<1> QED
  BY <1>1, <1>2, <1>3, PTL DEF RvSpec

\* The clients of a server started for their number publish every chunk in
\* lockstep, for any number of clients, chunks and threads.
THEOREM ClientsInLockstep ==
  ASSUME Parties = Cardinality(Procs)
  PROVE  RvSpec => []InStep
<1>1. RvInit => RvInv
  BY RvInitInv
<1>2. RvInv /\ [RvNext]_rvVars => RvInv'
  BY RvStepInv
<1>3. RvInv => InStep
  BY StagesTogether
<1> QED
  BY <1>1, <1>2, <1>3, PTL DEF RvSpec

\* Clients that were started in the same second, with timeouts that outlast all
\* but a deadlock.
Together == luck = "good" /\ \A p, q \in Procs : base[p] = base[q]

\* Chunks are taken up in order.
InOrder ==
  \A p \in Procs : \A c, d \in Chunks : d < c /\ phase[p][d] = "todo" => phase[p][c] = "todo"

\* A barrier that everybody has come to has opened.
NotFull == \A k \in Keys : barrier[k] = "filling" => inside[k] # Procs

Unbroken == Together => alive = Procs /\ \A k \in Keys : barrier[k] # "broken"

MeetInv == RvInv /\ InOrder /\ NotFull /\ Unbroken

\* A set of numbers has a least one.
LEMMA LeastNumber ==
  ASSUME NEW T, T \subseteq Nat, T # {}
  PROVE  \E m \in T : \A n \in T : m <= n
<1>1. PICK m \in T : \A n \in T : ~(<<n, m>> \in OpToRel(<, Nat))
  BY NatLessThanWellFounded, WFMin
<1>2. \A n \in T : ~(n < m)
  BY <1>1 DEF OpToRel
<1> QED
  BY <1>2

\* The clients of one second are never all waiting for each other: the first
\* chunk that somebody is not done with can go on.
LEMMA NotStuck ==
  ASSUME Parties = Cardinality(Procs), MeetInv, Together,
         NEW p \in Procs, NEW c \in Chunks, phase[p][c] # "done"
  PROVE  ~Stuck
<1> SUFFICES ASSUME Stuck
             PROVE  FALSE
  OBVIOUS
<1> DEFINE T == {d \in Chunks : \E q \in Procs : phase[q][d] # "done"}
<1>1. T \subseteq Nat /\ T # {}
  BY RendezvousAssumption DEF Chunks
<1>2. PICK m \in T : \A d \in T : m <= d
  BY <1>1, LeastNumber
<1>3. /\ m \in Chunks /\ m \in Nat
      /\ \A d \in Chunks : d < m => \A q \in Procs : phase[q][d] = "done"
  BY <1>1, <1>2 DEF Chunks
<1>4. PICK u \in Procs : phase[u][m] # "done"
  BY <1>2
<1>5. PICK b \in Bases : b = base[u]
  BY DEF MeetInv, RvInv, RvTypeOK
<1>6. /\ Team(b) = Procs /\ \A q \in Procs : Key(q, m) = <<b, m>>
  BY <1>4, <1>5 DEF Together, Team, Key
<1>7. /\ <<b, m>> \in Keys /\ barrier[<<b, m>>] # "broken" /\ alive = Procs
      /\ barrier[<<b, m>>] = "filling" => inside[<<b, m>>] # Procs
  BY <1>3, <1>5 DEF Keys, MeetInv, Unbroken, NotFull
<1>8. Stage(b, m)
  BY <1>3, <1>5 DEF MeetInv, RvInv
<1>9. \A q \in Procs : phase[q][m] # "todo"
  <2> SUFFICES ASSUME NEW q \in Procs, phase[q][m] = "todo"
               PROVE  FALSE
    OBVIOUS
  <2>1. \A d \in Chunks : phase[q][d] \in {"todo", "done"}
    <3> SUFFICES ASSUME NEW d \in Chunks
                 PROVE  phase[q][d] \in {"todo", "done"}
      OBVIOUS
    <3>1. CASE d < m
      BY <1>3, <3>1
    <3>2. CASE d > m
      BY <1>3, <3>2 DEF MeetInv, InOrder
    <3>3. d \in Nat
      BY RendezvousAssumption DEF Chunks
    <3> QED
      BY <1>3, <3>1, <3>2, <3>3
  <2>2. InProgress(q) = {}
    BY <2>1 DEF InProgress
  <2>3. Cardinality(InProgress(q)) < Window[q]
    BY <2>2, FS_EmptySet, RendezvousAssumption
  <2>4. \A d \in 1..(m - 1) : phase[q][d] # "todo"
    <3>1. \A d \in 1..(m - 1) : d \in Chunks /\ d < m
      BY <1>3, RendezvousAssumption DEF Chunks
    <3> QED
      BY <1>3, <3>1
  <2>5. Ready(q, m)
    BY <2>3, <2>4 DEF Ready
  <2> QED
    BY <1>3, <1>7, <2>5 DEF Stuck
<1>10. \A q \in Procs : phase[q][m] # "publishing"
  BY <1>3, <1>7 DEF Stuck
<1>11. \A q \in Procs : phase[q][m] \in {"start", "end"} => q \in inside[<<b, m>>] /\ barrier[<<b, m>>] = "filling"
  BY <1>3, <1>6, <1>7 DEF Stuck, Waiting
<1>12. inside[<<b, m>>] \subseteq Procs
  BY <1>6, <1>8 DEF Stage
<1>13. CASE S1(b, m)
  <2>1. \A q \in Procs : phase[q][m] = "start"
    BY <1>6, <1>7, <1>9, <1>13 DEF S1
  <2> QED
    BY <1>4, <1>7, <1>11, <1>12, <2>1
<1>14. CASE S2(b, m) \/ S4(b, m)
  BY <1>4, <1>6, <1>10, <1>11, <1>14 DEF S2, S4
<1>15. CASE S3(b, m)
  <2>1. \A q \in Procs : phase[q][m] = "end"
    BY <1>6, <1>7, <1>10, <1>15 DEF S3
  <2> QED
    BY <1>4, <1>7, <1>11, <1>12, <2>1
<1>16. CASE S5(b, m)
  BY <1>4, <1>6, <1>16 DEF S5
<1> QED
  BY <1>8, <1>13, <1>14, <1>15, <1>16 DEF Stage

\* Every step keeps the clients of one second together.
LEMMA MeetStep ==
  ASSUME Parties = Cardinality(Procs), MeetInv, [RvNext]_rvVars
  PROVE  MeetInv'
<1>0. RvInv'
  BY RvStepInv DEF MeetInv
<1>1. CASE UNCHANGED rvVars
  <2>1. UNCHANGED <<base, luck, phase, alive, barrier, inside>>
    BY <1>1 DEF rvVars, given
  <2> QED
    BY <1>0, <2>1 DEF MeetInv, InOrder, NotFull, Unbroken, Together
<1>2. ASSUME NEW p \in Procs, NEW d \in Chunks,
             \/ Take(p, d) \/ Arrive(p, d) \/ Begin(p, d)
             \/ Published(p, d) \/ Finish(p, d) \/ Fail(p, d)
      PROVE  MeetInv'
  <2>1. /\ RvTypeOK /\ RvTypeOK' /\ Touches(p, d) /\ Key(p, d) \in Keys /\ UNCHANGED <<base, luck>>
    BY <1>0, <1>2, StepTouches DEF MeetInv, RvInv, RvTypeOK, Key, Keys, given,
       Take, Arrive, Begin, Published, Finish, Fail
  <2>2. InOrder'
    <3>1. /\ phase'[p][d] # "todo"
          /\ \A e \in Chunks : e < d => phase[p][e] # "todo"
      <4>1. CASE Take(p, d)
        <5>1. phase'[p][d] = "start"
          BY <2>1, <4>1 DEF Take, MoveTo, RvTypeOK
        <5>2. \A e \in Chunks : e < d => e \in 1..(d - 1)
          BY RendezvousAssumption DEF Chunks
        <5> QED
          BY <4>1, <5>1, <5>2 DEF Take, Ready
      <4>2. CASE ~Take(p, d)
        <5>1. phase[p][d] # "todo"
          BY <1>2, <4>2 DEF Arrive, Begin, Published, Finish, Fail
        <5>2. phase'[p][d] # "todo"
          BY <1>2, <2>1, <4>2 DEF Arrive, Begin, Published, Finish, Fail, MoveTo, RvTypeOK
        <5> QED
          BY <5>1, <5>2 DEF MeetInv, InOrder
      <4> QED
        BY <4>1, <4>2
    <3> QED
      BY <2>1, <3>1 DEF MeetInv, InOrder, Touches
  <2>3. NotFull'
    <3>1. barrier'[Key(p, d)] = "filling" => inside'[Key(p, d)] # Procs
      <4>1. CASE UNCHANGED <<barrier, inside>>
        BY <2>1, <4>1 DEF MeetInv, NotFull
      <4>2. CASE Enter(p, d)
        BY <2>1, <4>2 DEF Enter, RvTypeOK
      <4>3. CASE Leave(p, d)
        BY <2>1, <4>3 DEF Leave, RvTypeOK
      <4>4. CASE Breaks(p, d)
        BY <2>1, <4>4 DEF Breaks, RvTypeOK
      <4> QED
        BY <1>2, <4>1, <4>2, <4>3, <4>4 DEF Take, Arrive, Begin, Published, Finish, Fail
    <3> QED
      BY <2>1, <3>1 DEF MeetInv, NotFull, Touches
  <2>4. Unbroken'
    <3> SUFFICES ASSUME Together
                 PROVE  alive' = Procs /\ \A k \in Keys : barrier'[k] # "broken"
      BY <2>1 DEF Unbroken, Together
    <3>1. alive = Procs /\ \A k \in Keys : barrier[k] # "broken"
      BY DEF MeetInv, Unbroken
    <3>2. ~Fail(p, d)
      <4> SUFFICES ASSUME Fail(p, d)
                   PROVE  FALSE
        OBVIOUS
      <4>1. phase[p][d] # "done"
        BY DEF Fail
      <4>2. ~Stuck
        BY <4>1, NotStuck
      <4>3. barrier[Key(p, d)] # "broken"
        BY <2>1, <3>1
      <4> QED
        BY <4>2, <4>3 DEF Fail, Breaks, Together
    <3>3. alive' = Procs
      BY <1>2, <3>1, <3>2 DEF Take, Arrive, Begin, Published, Finish, Together
    <3>4. barrier'[Key(p, d)] # "broken"
      BY <1>2, <2>1, <3>1, <3>2 DEF Take, Arrive, Begin, Published, Finish, Enter, Leave, RvTypeOK
    <3> QED
      BY <2>1, <3>1, <3>3, <3>4 DEF Touches
  <2> QED
    BY <1>0, <2>2, <2>3, <2>4 DEF MeetInv
<1> QED
  BY <1>1, <1>2 DEF RvNext, ClientStep, AllOver

\* Clients that ask for the same dates never break a barrier unless a timeout
\* or an exception makes them: the lockstep has no deadlock of its own, for any
\* number of clients and chunks and whatever windows they have.
THEOREM SameDatesAlwaysMeet ==
  ASSUME Parties = Cardinality(Procs)
  PROVE  RvSpec => []SameDatesMeet
<1>1. RvInit => MeetInv
  <2> SUFFICES ASSUME RvInit
               PROVE  MeetInv
    OBVIOUS
  <2>1. Procs # {}
    BY FS_EmptySet, RendezvousAssumption
  <2>2. InOrder /\ NotFull /\ Unbroken
    BY <2>1 DEF RvInit, InOrder, NotFull, Unbroken
  <2> QED
    BY <2>2, RvInitInv DEF MeetInv
<1>2. MeetInv /\ [RvNext]_rvVars => MeetInv'
  BY MeetStep
<1>3. MeetInv => SameDatesMeet
  BY DEF MeetInv, Unbroken, Together, SameDatesMeet
<1> QED
  BY <1>1, <1>2, <1>3, PTL DEF RvSpec

-----------------------------------------------------------------------------
(***************************************************************************)
(* The pipeline, for any jobs, rows, range, step, slack and batch size, and *)
(* whichever of the three processes dies.                                  *)
(*                                                                         *)
(* PlInv follows a job through the pipeline: it is in one place only, what *)
(* is put together is a whole row, what is published ended by now, and a   *)
(* job of the chunk is on its way, published, or in a chunk that failed.   *)
(* The failures of a chunk that is over are logged or in `unlogged`.       *)
(***************************************************************************)

\* The job of the row that sacct is printing.
RowJob == IF row = NoRow THEN {} ELSE {row[1]}

\* A row that the wrapper has put together: all of a job's row.
Whole(r) == \E j \in Job : r = [lines |-> RowOf(j), delims |-> Delims[j][Height(j)]]

Rows == [lines : Seq(Job \X Nat), delims : Nat]
JobsIn(s) == {JobOf(s[i]) : i \in DOMAIN s}
Distinct(s) == \A i, k \in DOMAIN s : JobOf(s[i]) = JobOf(s[k]) => i = k
WholeRows(s) == s \in Seq(Rows) /\ (\A i \in DOMAIN s : Whole(s[i])) /\ Distinct(s)

\* The row of a job names the job, in its first line as in its last.
LEMMA RowFacts ==
  ASSUME NEW j \in Job
  PROVE  /\ Height(j) \in Nat /\ Height(j) > 0
         /\ RowOf(j) \in Seq(Job \X Nat) /\ Len(RowOf(j)) = Height(j)
         /\ \A i \in 1..Height(j) : RowOf(j)[i] = <<j, i>>
         /\ Delims[j] \in Seq(Nat) /\ Delims[j][Height(j)] \in Nat
         /\ N \in Nat \ {0}
<1>1. Delims[j] \in Seq(Nat) /\ Height(j) > 0 /\ N \in Nat \ {0}
  BY RowAssumption
<1>2. Height(j) \in Nat
  BY <1>1 DEF Height
<1>3. RowOf(j) \in Seq(Job \X Nat) /\ Len(RowOf(j)) = Height(j) /\ \A i \in 1..Height(j) : RowOf(j)[i] = <<j, i>>
  BY <1>2 DEF RowOf
<1> QED
  BY <1>1, <1>2, <1>3 DEF Height

\* Two jobs have two rows.
LEMMA RowOfInjective ==
  ASSUME NEW j \in Job, NEW k \in Job, RowOf(j) = RowOf(k)
  PROVE  j = k
<1>1. RowOf(j)[1] = <<j, 1>> /\ RowOf(k)[1] = <<k, 1>>
  BY RowFacts
<1> QED
  BY <1>1

\* What a whole row says of its job.
LEMMA WholeFacts ==
  ASSUME NEW r, Whole(r)
  PROVE  /\ r \in Rows /\ JobOf(r) \in Job
         /\ r.lines = RowOf(JobOf(r)) /\ r.delims = Delims[JobOf(r)][Height(JobOf(r))]
<1>1. PICK j \in Job : r = [lines |-> RowOf(j), delims |-> Delims[j][Height(j)]]
  BY DEF Whole
<1>2. /\ Height(j) \in Nat /\ Height(j) > 0
      /\ RowOf(j) \in Seq(Job \X Nat) /\ Len(RowOf(j)) = Height(j)
      /\ \A i \in 1..Height(j) : RowOf(j)[i] = <<j, i>>
      /\ Delims[j][Height(j)] \in Nat
  BY RowFacts
<1>3. r.lines = RowOf(j) /\ r.delims = Delims[j][Height(j)]
  BY <1>1
<1>4. JobOf(r) = j
  BY <1>2, <1>3 DEF JobOf
<1> QED
  BY <1>1, <1>2, <1>3, <1>4 DEF Rows

\* A row joins the end of a queue.
LEMMA AppendRow ==
  ASSUME NEW s, WholeRows(s), NEW r, Whole(r), JobOf(r) \notin JobsIn(s)
  PROVE  /\ WholeRows(Append(s, r)) /\ JobsIn(Append(s, r)) = JobsIn(s) \cup {JobOf(r)}
         /\ Len(Append(s, r)) = Len(s) + 1
<1>1. r \in Rows /\ s \in Seq(Rows)
  BY WholeFacts DEF WholeRows
<1>2. /\ Append(s, r) \in Seq(Rows) /\ Len(Append(s, r)) = Len(s) + 1
      /\ DOMAIN Append(s, r) = DOMAIN s \cup {Len(s) + 1} /\ DOMAIN s = 1..Len(s)
      /\ Append(s, r)[Len(s) + 1] = r
      /\ \A i \in 1..Len(s) : Append(s, r)[i] = s[i]
  BY <1>1
<1>3. JobsIn(Append(s, r)) = JobsIn(s) \cup {JobOf(r)}
  BY <1>2 DEF JobsIn
<1>4. Distinct(Append(s, r))
  BY <1>2 DEF Distinct, WholeRows, JobsIn
<1> QED
  BY <1>2, <1>3, <1>4 DEF WholeRows

\* A row leaves the head of a queue.
LEMMA TailRow ==
  ASSUME NEW s, WholeRows(s), s # <<>>
  PROVE  /\ Whole(Head(s)) /\ JobOf(Head(s)) \in JobsIn(s) /\ WholeRows(Tail(s))
         /\ JobsIn(Tail(s)) = JobsIn(s) \ {JobOf(Head(s))}
         /\ Len(Tail(s)) = Len(s) - 1
<1>1. /\ s \in Seq(Rows) /\ Len(s) \in Nat \ {0} /\ DOMAIN s = 1..Len(s) /\ Head(s) = s[1]
      /\ Tail(s) \in Seq(Rows) /\ Len(Tail(s)) = Len(s) - 1 /\ DOMAIN Tail(s) = 1..(Len(s) - 1)
      /\ \A i \in 1..(Len(s) - 1) : Tail(s)[i] = s[i + 1]
  BY DEF WholeRows
<1>2. Whole(Head(s)) /\ JobOf(Head(s)) \in JobsIn(s)
  BY <1>1 DEF WholeRows, JobsIn
<1>3. \A i \in 1..(Len(s) - 1) : i + 1 \in DOMAIN s /\ Tail(s)[i] = s[i + 1]
  BY <1>1
<1>4. \A i \in DOMAIN s : i # 1 => i - 1 \in 1..(Len(s) - 1) /\ Tail(s)[i - 1] = s[i]
  BY <1>1
<1>5. JobsIn(Tail(s)) \subseteq JobsIn(s) \ {JobOf(Head(s))}
  <2> SUFFICES ASSUME NEW i \in 1..(Len(s) - 1)
               PROVE  JobOf(Tail(s)[i]) \in JobsIn(s) \ {JobOf(Head(s))}
    BY <1>1 DEF JobsIn
  <2>1. i + 1 \in DOMAIN s /\ i + 1 # 1 /\ Tail(s)[i] = s[i + 1]
    BY <1>1, <1>3
  <2> QED
    BY <1>1, <2>1 DEF JobsIn, WholeRows, Distinct
<1>6. JobsIn(s) \ {JobOf(Head(s))} \subseteq JobsIn(Tail(s))
  <2> SUFFICES ASSUME NEW i \in DOMAIN s, JobOf(s[i]) # JobOf(Head(s))
               PROVE  JobOf(s[i]) \in JobsIn(Tail(s))
    BY DEF JobsIn
  <2>1. i - 1 \in DOMAIN Tail(s) /\ Tail(s)[i - 1] = s[i]
    BY <1>1, <1>4
  <2> QED
    BY <2>1 DEF JobsIn
<1>7. Distinct(Tail(s))
  <2> SUFFICES ASSUME NEW i \in 1..(Len(s) - 1), NEW k \in 1..(Len(s) - 1),
                      JobOf(Tail(s)[i]) = JobOf(Tail(s)[k])
               PROVE  i = k
    BY <1>1 DEF Distinct
  <2>1. i + 1 = k + 1
    BY <1>3 DEF WholeRows, Distinct
  <2> QED
    BY <2>1
<1>8. \A i \in DOMAIN Tail(s) : Whole(Tail(s)[i])
  BY <1>1, <1>3 DEF WholeRows
<1> QED
  BY <1>1, <1>2, <1>5, <1>6, <1>7, <1>8 DEF WholeRows

\* An empty queue.
LEMMA EmptyRows == WholeRows(<<>>) /\ JobsIn(<<>>) = {} /\ Len(<<>>) = 0
BY DEF WholeRows, JobsIn, Distinct

Types ==
  /\ ignore_line_errors \in BOOLEAN /\ chunking \in BOOLEAN /\ serial \in BOOLEAN
  /\ lo \in Lower..Upper
  /\ todo \subseteq Job
  /\ row = NoRow \/ \E j \in Job : \E i \in 2..Height(j) : row = <<j, i>>
  /\ sacct \in Exits /\ wrapper \in Exits /\ publisher \in Exits \cup {"none"}
  /\ waiting \in Waits
  /\ prev \in Rows /\ prev.delims < N
  /\ IsABag(published)

Queues ==
  /\ WholeRows(batch) /\ WholeRows(parsed) /\ WholeRows(pipe)
  /\ Len(batch) <= BatchSize /\ Len(parsed) <= BatchSize /\ Len(pipe) <= PipeCapacity

\* What get_sacct_lines remembers is the part of the row that has been read.
Glued(j, i) ==
  /\ Len(prev.lines) = i - 1
  /\ \A k \in 1..(i - 1) : prev.lines[k] = <<j, k>>
  /\ prev.delims = IF i = 1 THEN 0 ELSE Delims[j][i - 1]

Gluing ==
  sacct = "running" /\ wrapper = "running" =>
    /\ row = NoRow => prev = NoPrev
    /\ row # NoRow => Glued(row[1], row[2])

\* A job is in one place of the pipeline only.
Apart ==
  /\ todo \cap (RowJob \cup JobsIn(batch) \cup JobsIn(parsed) \cup JobsIn(pipe)) = {}
  /\ RowJob \cap (JobsIn(batch) \cup JobsIn(parsed) \cup JobsIn(pipe)) = {}
  /\ JobsIn(batch) \cap (JobsIn(parsed) \cup JobsIn(pipe)) = {}
  /\ JobsIn(parsed) \cap JobsIn(pipe) = {}

OnTheWay == todo \cup RowJob \cup JobsIn(batch) \cup JobsIn(parsed) \cup JobsIn(pipe)

\* What is published ended by the end of this chunk; what of it ended in this
\* chunk will not come again.
Once ==
  /\ \A r \in DOMAIN published : \E j \in Job :
       /\ r = RowOf(j) /\ Proper(j) /\ published[r] = 1
       /\ End[j] <= ChunkEnd(lo)
       /\ End[j] >= lo => j \notin OnTheWay
  /\ \A j \in JobsIn(pipe) : End[j] \in Chunk(lo)

\* The chunks with a failure, seen by publish_chunk or not.
Noted == failed \cup unlogged

Endings ==
  /\ sacct = "ok" => todo = {} /\ row = NoRow
  /\ wrapper = "ok" => sacct = "ok" /\ batch = <<>> /\ parsed = <<>>
  /\ publisher = "ok" => lo \in Noted \/ (pipe = <<>> /\ wrapper # "running")
  /\ waiting = "popen" => publisher = "none"
  /\ waiting = "publisher" => lo \in Noted \/ wrapper = "ok"
  /\ waiting \in {"terminate", "raise"} => lo \in Noted
  /\ waiting = "return" => lo \in Noted \/ (wrapper = "ok" /\ publisher = "ok")

\* The chunk has failed somewhere.
Doomed == sacct = "failed" \/ wrapper = "failed" \/ publisher = "failed" \/ lo \in Noted

Kept ==
  \A j \in Job : Proper(j) /\ Timely(j) /\ Lower <= End[j] =>
    /\ End[j] < lo => RowOf(j) \in DOMAIN published \/ \E c \in Noted : End[j] \in Chunk(c)
    /\ End[j] \in Chunk(lo) => RowOf(j) \in DOMAIN published \/ j \in OnTheWay \/ Doomed

PlInv == Types /\ Queues /\ Gluing /\ Apart /\ Once /\ Endings /\ Kept

\* A job is asked for in the chunk in which it ended.
LEMMA AskedFor ==
  ASSUME NEW start \in Nat, NEW j \in Job, End[j] \in Chunk(start), Timely(j)
  PROVE  j \in get_patched_sacct_cmd(start)
<1>1. /\ End[j] \in Nat /\ Selected[j] \in Int /\ Slack \in Nat
      /\ End[j] - Slack <= Selected[j] /\ Selected[j] <= End[j]
  BY SelectionAssumption, PipelineAssumption DEF Timely
<1>2. ChunkEnd(start) \in Int
  BY PipelineAssumption DEF ChunkEnd
<1> QED
  BY <1>1, <1>2 DEF Chunk, get_patched_sacct_cmd

\* The invariant before the first line is read.
LEMMA PlInitInv ==
  ASSUME Init
  PROVE  PlInv
<1> USE PipelineAssumption
<1>0. N \in Nat \ {0}
  BY RowAssumption
<1>1. todo \subseteq Job /\ RowJob = {} /\ published = <<>> /\ DOMAIN published = {}
  BY DEF Init, get_patched_sacct_cmd, RowJob, EmptyBag, SetToBag
<1>2. Types
  <2>1. prev \in Rows /\ prev.delims < N
    BY <1>0 DEF Init, NoPrev, Rows
  <2>2. IsABag(published)
    BY <1>1 DEF IsABag
  <2> QED
    BY <1>1, <2>1, <2>2 DEF Init, Types, Exits, Waits
<1>3. Queues /\ JobsIn(batch) = {} /\ JobsIn(parsed) = {} /\ JobsIn(pipe) = {}
  BY EmptyRows DEF Init, Queues
<1>4. Gluing /\ Apart /\ Once /\ Endings
  BY <1>1, <1>3 DEF Init, Gluing, Apart, Once, Endings
<1>5. Kept
  <2>1. lo = Lower /\ Lower \in Nat /\ todo = get_patched_sacct_cmd(lo)
    BY DEF Init
  <2>2. \A j \in Job : End[j] \in Nat
    BY SelectionAssumption
  <2>3. \A j \in Job : Timely(j) /\ End[j] \in Chunk(lo) => j \in todo
    BY <2>1, AskedFor
  <2> QED
    BY <2>1, <2>2, <2>3 DEF Kept, OnTheWay
<1> QED
  BY <1>2, <1>3, <1>4, <1>5 DEF PlInv

\* A line is a row of its own, the last or another line of a broken row, or
\* one delimiter too many.
LEMMA LineRead ==
  ASSUME PlInv, NEW line \in NextLines, ReadLine(line)
  PROVE  \E j \in Job :
           /\ j \in todo \/ j \in RowJob
           /\ RowJob \subseteq {j} /\ todo' = todo \ {j}
           /\ \/ /\ row' = NoRow /\ prev' = NoPrev /\ wrapper' = wrapper
                 /\ \E r : Whole(r) /\ JobOf(r) = j /\ batch' = Append(batch, r)
              \/ row' = NoRow /\ wrapper' = "failed" /\ batch' = batch /\ prev' = prev
              \/ /\ \E i \in 2..Height(j) : row' = <<j, i>> /\ Glued(j, i)'
                 /\ prev' \in Rows /\ prev'.delims < N
                 /\ batch' = batch /\ wrapper' = wrapper
<1>1. PICK j \in Job, i \in Nat :
        /\ line = <<j, i>> /\ i \in 1..Height(j) /\ Glued(j, i)
        /\ j \in todo \/ j \in RowJob
        /\ RowJob \subseteq {j}
        /\ i = 1 => prev = NoPrev
  <2>1. CASE row = NoRow
    <3>1. PICK j \in todo : line = <<j, 1>>
      BY <2>1 DEF NextLines
    <3>2. j \in Job /\ 1 \in 1..Height(j) /\ prev = NoPrev
      BY <2>1, <3>1, RowFacts DEF PlInv, Types, Gluing, ReadLine
    <3>3. Glued(j, 1)
      BY <3>2 DEF Glued, NoPrev
    <3> QED
      BY <2>1, <3>1, <3>2, <3>3 DEF RowJob
  <2>2. CASE row # NoRow
    <3>0. PICK j \in Job : \E i \in 2..Height(j) : row = <<j, i>>
      BY <2>2 DEF PlInv, Types
    <3>1. PICK i \in 2..Height(j) : row = <<j, i>>
      BY <3>0
    <3>2. line = <<j, i>> /\ i \in Nat /\ i \in 1..Height(j) /\ i # 1
      BY <2>2, <3>1, RowFacts DEF NextLines
    <3>3. Glued(j, i)
      BY <2>2, <3>1 DEF PlInv, Gluing, ReadLine
    <3>4. RowJob = {j}
      BY <2>2, <3>1 DEF RowJob
    <3> QED
      BY <3>1, <3>2, <3>3, <3>4
  <2> QED
    BY <2>1, <2>2
<1>2. PICK d : d = LineDelims(j, i)
  OBVIOUS
<1>3. /\ Height(j) \in Nat /\ Height(j) > 0 /\ N \in Nat \ {0}
      /\ RowOf(j) \in Seq(Job \X Nat) /\ Len(RowOf(j)) = Height(j)
      /\ \A k \in 1..Height(j) : RowOf(j)[k] = <<j, k>>
  BY RowFacts
<1>a. /\ Delims[j] \in Seq(Nat) /\ Len(Delims[j]) = Height(j)
      /\ Delims[j][Height(j)] >= N
      /\ \A k \in 1..Height(j) - 1 : Delims[j][k] < N
      /\ \A k \in 1..Height(j) : Delims[j][k] \in Nat
  <2>1. /\ Delims[j] \in Seq(Nat) /\ Delims[j][Height(j)] >= N
        /\ \A k \in 1..(Height(j) - 1) : Delims[j][k] < N
    BY RowAssumption
  <2>2. Len(Delims[j]) = Height(j)
    BY DEF Height
  <2> QED
    BY <1>3, <2>1, <2>2
<1>b. d \in Nat /\ (Height(j) # 1 => d < N)
  <2>1. d \in (IF Height(j) = 1 THEN Nat ELSE 0..N - 1)
    BY <1>1, <1>2, RowAssumption
  <2> QED
    BY <1>3, <2>1
<1>c. prev \in Rows /\ prev.delims \in Nat /\ prev.lines \in Seq(Job \X Nat)
  BY DEF PlInv, Types, Rows
<1>4. /\ prev.delims + d = Delims[j][i] /\ Delims[j][i] \in Nat
      /\ i = 1 => d = Delims[j][1]
  <2>1. i # 1 => Delims[j][i - 1] \in Nat
    <3>1. i # 1 => i - 1 \in 1..Height(j)
      BY <1>1, <1>3
    <3> QED
      BY <1>a, <3>1
  <2>2. prev.delims = IF i = 1 THEN 0 ELSE Delims[j][i - 1]
    BY <1>1 DEF Glued
  <2>3. d = Delims[j][i] - (IF i = 1 THEN 0 ELSE Delims[j][i - 1])
    BY <1>2 DEF LineDelims
  <2>4. Delims[j][i] \in Nat
    BY <1>1, <1>a
  <2> QED
    BY <1>3, <2>1, <2>2, <2>3, <2>4
<1>d. /\ Delims[j][i] < N => i + 1 \in 2..Height(j) /\ i < Height(j)
      /\ Delims[j][i] >= N => i = Height(j)
  BY <1>1, <1>3, <1>a
<1>5. /\ todo' = todo \ {j} /\ row' = IF i < Height(j) THEN <<j, i + 1>> ELSE NoRow
  BY <1>1 DEF ReadLine, PrintsLine
<1>6. \/ d >= N /\ Yield(<<line>>, d) /\ UNCHANGED <<prev, wrapper>>
      \/ /\ d < N /\ prev.delims + d = N
         /\ Yield(Append(prev.lines, line), N)
         /\ prev' = NoPrev
         /\ UNCHANGED wrapper
      \/ /\ d < N /\ prev.delims + d > N
         /\ wrapper' = "failed"
         /\ UNCHANGED <<batch, prev>>
      \/ /\ d < N /\ prev.delims + d < N
         /\ prev' = [lines |-> Append(prev.lines, line), delims |-> prev.delims + d]
         /\ UNCHANGED <<batch, wrapper>>
  BY <1>1, <1>2 DEF ReadLine, get_sacct_lines
<1>7. /\ prev.lines \in Seq(Job \X Nat) /\ line \in Job \X Nat
      /\ Append(prev.lines, line) \in Seq(Job \X Nat)
      /\ Len(Append(prev.lines, line)) = i
      /\ \A k \in 1..i : Append(prev.lines, line)[k] = <<j, k>>
  <2>1. line \in Job \X Nat /\ Len(prev.lines) = i - 1 /\ \A k \in 1..(i - 1) : prev.lines[k] = <<j, k>>
    BY <1>1 DEF Glued
  <2>2. /\ Append(prev.lines, line) \in Seq(Job \X Nat)
        /\ Len(Append(prev.lines, line)) = i
        /\ Append(prev.lines, line)[i] = line
        /\ \A k \in 1..(i - 1) : Append(prev.lines, line)[k] = prev.lines[k]
    BY <1>1, <1>c, <2>1
  <2>3. 1..i = 1..(i - 1) \cup {i}
    BY <1>1
  <2> QED
    BY <1>1, <1>c, <2>1, <2>2, <2>3
<1>8. i = Height(j) => Append(prev.lines, line) = RowOf(j)
  BY <1>3, <1>7, SeqEqual
<1>9. ASSUME NEW lines, NEW n, Yield(lines, n), lines = RowOf(j), n = Delims[j][Height(j)]
      PROVE  \E r : Whole(r) /\ JobOf(r) = j /\ batch' = Append(batch, r)
  <2>1. PICK r : r = [lines |-> RowOf(j), delims |-> Delims[j][Height(j)]]
    OBVIOUS
  <2>2. Whole(r) /\ batch' = Append(batch, r)
    BY <1>9, <2>1 DEF Whole, Yield
  <2>3. JobOf(r) \in Job /\ r.lines = RowOf(JobOf(r))
    BY <2>2, WholeFacts
  <2>4. JobOf(r) = j
    BY <2>1, <2>3, RowOfInjective
  <2> QED
    BY <2>2, <2>4
<1>10. CASE d >= N /\ Yield(<<line>>, d) /\ UNCHANGED <<prev, wrapper>>
  <2>1. Height(j) = 1 /\ i = 1
    BY <1>1, <1>3, <1>b, <1>10
  <2>2. /\ <<line>> \in Seq(Job \X Nat) /\ Len(<<line>>) = 1 /\ <<line>>[1] = <<j, 1>>
    BY <1>1, <1>7, <2>1
  <2>3. <<line>> = RowOf(j)
    BY <1>3, <2>1, <2>2, SeqEqual
  <2>4. d = Delims[j][Height(j)] /\ prev' = NoPrev /\ row' = NoRow
    BY <1>1, <1>3, <1>4, <1>5, <1>10, <2>1
  <2> QED
    BY <1>1, <1>5, <1>9, <1>10, <2>3, <2>4
<1>11. CASE /\ d < N /\ prev.delims + d = N
            /\ Yield(Append(prev.lines, line), N)
            /\ prev' = NoPrev
            /\ UNCHANGED wrapper
  <2>1. i = Height(j) /\ N = Delims[j][Height(j)] /\ row' = NoRow
    BY <1>3, <1>4, <1>d, <1>5, <1>11
  <2> QED
    BY <1>1, <1>5, <1>8, <1>9, <1>11, <2>1
<1>12. CASE /\ d < N /\ prev.delims + d > N
            /\ wrapper' = "failed"
            /\ UNCHANGED <<batch, prev>>
  <2>1. i = Height(j) /\ row' = NoRow
    BY <1>3, <1>4, <1>d, <1>5, <1>12
  <2> QED
    BY <1>1, <1>5, <1>12, <2>1
<1>13. CASE /\ d < N /\ prev.delims + d < N
            /\ prev' = [lines |-> Append(prev.lines, line), delims |-> prev.delims + d]
            /\ UNCHANGED <<batch, wrapper>>
  <2>1. i + 1 \in 2..Height(j) /\ row' = <<j, i + 1>> /\ (i + 1) - 1 = i /\ i + 1 # 1
    BY <1>3, <1>4, <1>d, <1>5, <1>13
  <2>2. /\ prev' \in Rows /\ prev'.delims < N
        /\ prev'.lines = Append(prev.lines, line) /\ prev'.delims = Delims[j][i]
    BY <1>3, <1>4, <1>7, <1>c, <1>13 DEF Rows
  <2>3. PICK n : n = i + 1
    OBVIOUS
  <2>4. Glued(j, n)'
    BY <1>7, <2>1, <2>2, <2>3 DEF Glued
  <2> QED
    BY <1>1, <1>5, <1>13, <2>1, <2>2, <2>3, <2>4
<1> QED
  BY <1>6, <1>10, <1>11, <1>12, <1>13

\* Within a chunk, as long as nothing is published: jobs leave the pipeline
\* only if they do not belong to the chunk or the chunk fails.
LEMMA SameChunk ==
  ASSUME Once, Kept, UNCHANGED <<lo, published>>, Noted \subseteq Noted', OnTheWay' \subseteq OnTheWay,
         \A j \in JobsIn(pipe') : End[j] \in Chunk(lo),
         Doomed => Doomed',
         Doomed' \/ \A j \in OnTheWay \ OnTheWay' : End[j] \notin Chunk(lo)
  PROVE  Once' /\ Kept'
<1>1. Once'
  <2>1. Chunk(lo') = Chunk(lo) /\ ChunkEnd(lo') = ChunkEnd(lo)
    OBVIOUS
  <2>2. \A r \in DOMAIN published' : \E j \in Job :
          /\ r = RowOf(j) /\ Proper(j) /\ published'[r] = 1
          /\ End[j] <= ChunkEnd(lo')
          /\ End[j] >= lo' => j \notin OnTheWay'
    BY DEF Once
  <2> QED
    BY <2>1, <2>2 DEF Once
<1>2. Kept'
  <2> SUFFICES ASSUME NEW j \in Job, Proper(j), Timely(j), Lower <= End[j]
               PROVE  /\ End[j] < lo => RowOf(j) \in DOMAIN published \/ \E c \in Noted' : End[j] \in Chunk(c)
                      /\ End[j] \in Chunk(lo) => RowOf(j) \in DOMAIN published \/ j \in OnTheWay' \/ Doomed'
    BY DEF Kept
  <2> QED
    BY DEF Kept
<1> QED
  BY <1>1, <1>2

\* What a step of publish_chunk leaves alone, and what it notes.
LEMMA PublishChunkNotes ==
  ASSUME PlInv, publish_chunk
  PROVE  /\ UNCHANGED <<options, lo, todo, row, sacct, prev, batch, parsed, pipe, published>>
         /\ wrapper' \in Exits /\ publisher' \in Exits \cup {"none"} /\ waiting' \in Waits
         /\ wrapper' = "running" => wrapper = "running"
         /\ Noted \subseteq Noted' /\ (Doomed => Doomed') /\ Endings'
<1>0. UNCHANGED <<options, lo, todo, row, sacct, prev, batch, parsed, pipe, published>>
  BY DEF publish_chunk, PopenPublisher, WrapperWaited, PublisherWaited, Waited, SacctTimesOut,
         PublishTimesOut, Terminates, results, processes
<1> USE DEF PlInv, Types, Exits, Waits, Noted, Doomed, Endings
<1>1. CASE PopenPublisher
  BY <1>0, <1>1 DEF PopenPublisher
<1>2. CASE WrapperWaited
  BY <1>0, <1>2 DEF WrapperWaited, Waited, processes
<1>3. CASE PublisherWaited
  BY <1>0, <1>3 DEF PublisherWaited, Waited, processes
<1>4. CASE SacctTimesOut
  BY <1>0, <1>4 DEF SacctTimesOut, processes
<1>5. CASE PublishTimesOut
  BY <1>0, <1>5 DEF PublishTimesOut, processes
<1>6. CASE Terminates
  BY <1>0, <1>6 DEF Terminates, AfterSigterm, results
<1> QED
  BY <1>0, <1>1, <1>2, <1>3, <1>4, <1>5, <1>6 DEF publish_chunk

\* A process that ends, as it should or not, and publish_chunk move no row.
LEMMA ProcessStep ==
  ASSUME PlInv,
         \/ SacctEnds \/ FilterRaises \/ WrapperExits \/ PublisherEnds \/ PublisherDies
         \/ publish_chunk \/ UNCHANGED vars
  PROVE  PlInv'
<1>1. /\ UNCHANGED <<options, lo, todo, row, prev, batch, parsed, pipe, published>>
      /\ sacct' \in Exits /\ wrapper' \in Exits /\ publisher' \in Exits \cup {"none"} /\ waiting' \in Waits
      /\ sacct' = "running" => sacct = "running"
      /\ wrapper' = "running" => wrapper = "running"
      /\ Noted \subseteq Noted' /\ (Doomed => Doomed') /\ Endings'
  <2>1. CASE publish_chunk
    <3>1. sacct \in Exits
      BY DEF PlInv, Types
    <3> QED
      BY <2>1, <3>1, PublishChunkNotes
  <2>2. CASE ~publish_chunk
    <3>1. UNCHANGED <<options, waiting, lo, todo, row, prev, batch, parsed, pipe, published, failed, unlogged>>
      BY <2>2 DEF SacctEnds, FilterRaises, WrapperExits, PublisherEnds, PublisherDies, vars, results
    <3>2. Noted' = Noted
      BY <3>1 DEF Noted
    <3>3. /\ sacct' \in Exits /\ wrapper' \in Exits /\ publisher' \in Exits \cup {"none"} /\ waiting' \in Waits
          /\ sacct' = "running" => sacct = "running"
          /\ wrapper' = "running" => wrapper = "running"
          /\ Doomed => Doomed'
      BY <2>2, <3>1, <3>2 DEF SacctEnds, FilterRaises, WrapperExits, PublisherEnds, PublisherDies,
         vars, processes, PlInv, Types, Exits, Doomed
    <3>4. Endings'
      BY <2>2, <3>1, <3>2 DEF SacctEnds, FilterRaises, WrapperExits, PublisherEnds, PublisherDies,
         vars, processes, PlInv, Types, Exits, Endings, BatchReady
    <3> QED
      BY <3>1, <3>2, <3>3, <3>4
  <2> QED
    BY <2>1, <2>2
<1>4. Types' /\ Queues' /\ Gluing'
  BY <1>1 DEF PlInv, Types, Queues, Gluing, Glued, options
<1>5. OnTheWay' = OnTheWay /\ Apart'
  BY <1>1 DEF PlInv, Apart, OnTheWay, RowJob
<1>6. Once' /\ Kept'
  <2>1. \A j \in JobsIn(pipe') : End[j] \in Chunk(lo)
    BY <1>1 DEF PlInv, Once
  <2> QED
    BY <1>1, <1>5, <2>1, SameChunk DEF PlInv
<1> QED
  BY <1>1, <1>4, <1>5, <1>6 DEF PlInv

\* sacct dies, maybe in the middle of a row.
LEMMA SacctDiesStep ==
  ASSUME PlInv, SacctDies
  PROVE  PlInv'
<1>1. UNCHANGED <<options, waiting, lo, wrapper, publisher, prev, batch, parsed, pipe, published, Noted>>
  BY DEF SacctDies, results, Noted
<1>2. sacct' = "failed" /\ todo' = {} /\ row' = NoRow /\ RowJob' = {} /\ Doomed'
  BY DEF SacctDies, RowJob, Doomed
<1>3. Types' /\ Queues' /\ Gluing'
  BY <1>1, <1>2 DEF PlInv, Types, Queues, Gluing, Exits, options
<1>4. Endings'
  BY <1>1, <1>2 DEF PlInv, Endings, SacctDies
<1>5. OnTheWay' \subseteq OnTheWay /\ Apart'
  BY <1>1, <1>2 DEF PlInv, Apart, OnTheWay
<1>6. Once' /\ Kept'
  <2>1. \A j \in JobsIn(pipe') : End[j] \in Chunk(lo)
    BY <1>1 DEF PlInv, Once
  <2> QED
    BY <1>1, <1>2, <1>5, <2>1, SameChunk DEF PlInv
<1> QED
  BY <1>3, <1>4, <1>5, <1>6 DEF PlInv

\* A line is read.
LEMMA ReadLineStep ==
  ASSUME PlInv, NEW line \in NextLines, ReadLine(line)
  PROVE  PlInv'
<1>1. UNCHANGED <<options, waiting, lo, sacct, publisher, parsed, pipe, published, Noted>>
  BY DEF ReadLine, results, Noted
<1>2. sacct = "running" /\ wrapper = "running" /\ Len(batch) < BatchSize
  BY DEF ReadLine
<1>3. PICK j \in Job :
        /\ j \in todo \/ j \in RowJob
        /\ RowJob \subseteq {j} /\ todo' = todo \ {j}
        /\ \/ /\ row' = NoRow /\ prev' = NoPrev /\ wrapper' = wrapper
              /\ \E r : Whole(r) /\ JobOf(r) = j /\ batch' = Append(batch, r)
           \/ row' = NoRow /\ wrapper' = "failed" /\ batch' = batch /\ prev' = prev
           \/ /\ \E i \in 2..Height(j) : row' = <<j, i>> /\ Glued(j, i)'
              /\ prev' \in Rows /\ prev'.delims < N
              /\ batch' = batch /\ wrapper' = wrapper
  BY LineRead
<1>4. j \notin JobsIn(batch) \cup JobsIn(parsed) \cup JobsIn(pipe)
  BY <1>3 DEF PlInv, Apart
<1>5. /\ wrapper' \in Exits /\ (Doomed => Doomed')
      /\ wrapper' = "ok" => FALSE
  BY <1>1, <1>2, <1>3 DEF Exits, Doomed
<1>6. Endings'
  BY <1>1, <1>2, <1>5 DEF PlInv, Endings
<1>7. \A k \in JobsIn(pipe') : End[k] \in Chunk(lo)
  BY <1>1 DEF PlInv, Once
<1>n. N \in Nat \ {0} /\ NoPrev \in Rows /\ NoPrev.delims < N
  BY RowAssumption DEF NoPrev, Rows
<1>8. CASE /\ row' = NoRow /\ prev' = NoPrev /\ wrapper' = wrapper
           /\ \E r : Whole(r) /\ JobOf(r) = j /\ batch' = Append(batch, r)
  <2>1. PICK r : Whole(r) /\ JobOf(r) = j /\ batch' = Append(batch, r)
    BY <1>8
  <2>2. /\ WholeRows(batch') /\ JobsIn(batch') = JobsIn(batch) \cup {j}
        /\ Len(batch') = Len(batch) + 1
    BY <1>4, <2>1, AppendRow DEF PlInv, Queues
  <2>3. RowJob' = {}
    BY <1>8 DEF RowJob
  <2>4. Types'
    BY <1>1, <1>3, <1>5, <1>8, <1>n DEF PlInv, Types, options
  <2>5. Queues'
    <3>1. Len(batch) \in Nat /\ BatchSize \in Nat
      BY PipelineAssumption DEF PlInv, Queues, WholeRows
    <3> QED
      BY <1>1, <1>2, <2>2, <3>1 DEF PlInv, Queues
  <2>6. Gluing'
    BY <1>8 DEF Gluing
  <2>7. Apart' /\ OnTheWay' = OnTheWay
    BY <1>1, <1>3, <1>4, <2>2, <2>3 DEF PlInv, Apart, OnTheWay
  <2>8. Once' /\ Kept'
    BY <1>1, <1>5, <1>7, <2>7, SameChunk DEF PlInv
  <2> QED
    BY <1>6, <2>4, <2>5, <2>6, <2>7, <2>8 DEF PlInv
<1>9. CASE row' = NoRow /\ wrapper' = "failed" /\ batch' = batch /\ prev' = prev
  <2>1. RowJob' = {} /\ Doomed'
    BY <1>9 DEF RowJob, Doomed
  <2>2. Types' /\ Queues' /\ Gluing'
    BY <1>1, <1>3, <1>5, <1>9 DEF PlInv, Types, Queues, Gluing, options
  <2>3. Apart' /\ OnTheWay' \subseteq OnTheWay
    BY <1>1, <1>3, <1>9, <2>1 DEF PlInv, Apart, OnTheWay
  <2>4. Once' /\ Kept'
    BY <1>1, <1>5, <1>7, <2>1, <2>3, SameChunk DEF PlInv
  <2> QED
    BY <1>6, <2>2, <2>3, <2>4 DEF PlInv
<1>10. CASE /\ \E i \in 2..Height(j) : row' = <<j, i>> /\ Glued(j, i)'
            /\ prev' \in Rows /\ prev'.delims < N
            /\ batch' = batch /\ wrapper' = wrapper
  <2>1. PICK i \in 2..Height(j) : row' = <<j, i>> /\ Glued(j, i)'
    BY <1>10
  <2>2. RowJob' = {j} /\ row' # NoRow /\ row'[1] = j /\ row'[2] = i
    BY <2>1 DEF RowJob, NoRow
  <2>3. Types' /\ Queues'
    BY <1>1, <1>3, <1>5, <1>10 DEF PlInv, Types, Queues, options
  <2>4. Gluing'
    BY <2>1, <2>2 DEF Gluing
  <2>5. Apart' /\ OnTheWay' = OnTheWay
    BY <1>1, <1>3, <1>4, <1>10, <2>2 DEF PlInv, Apart, OnTheWay
  <2>6. Once' /\ Kept'
    BY <1>1, <1>5, <1>7, <2>5, SameChunk DEF PlInv
  <2> QED
    BY <1>6, <2>3, <2>4, <2>5, <2>6 DEF PlInv
<1> QED
  BY <1>3, <1>8, <1>9, <1>10

\* The ends of a batch are parsed.
LEMMA ParseEndsStep ==
  ASSUME PlInv, ParseEnds
  PROVE  PlInv'
<1>1. /\ UNCHANGED <<options, waiting, lo, todo, row, sacct, wrapper, publisher, prev, pipe, published, Noted>>
      /\ parsed = <<>> /\ parsed' = batch /\ batch' = <<>> /\ wrapper = "running"
  BY DEF ParseEnds, BatchReady, results, processes, Noted
<1>2. RowJob' = RowJob /\ (Doomed => Doomed')
  BY <1>1 DEF RowJob, Doomed
<1>3. JobsIn(batch') = {} /\ JobsIn(parsed') = JobsIn(batch) /\ JobsIn(parsed) = {} /\ JobsIn(pipe') = JobsIn(pipe)
  BY <1>1, EmptyRows
<1>4. Types' /\ Gluing' /\ Endings'
  BY <1>1 DEF PlInv, Types, Gluing, Glued, Endings, options
<1>5. Queues'
  BY <1>1, EmptyRows, PipelineAssumption DEF PlInv, Queues
<1>6. Apart' /\ OnTheWay' = OnTheWay
  BY <1>1, <1>2, <1>3 DEF PlInv, Apart, OnTheWay
<1>7. Once' /\ Kept'
  <2>1. \A j \in JobsIn(pipe') : End[j] \in Chunk(lo)
    BY <1>3 DEF PlInv, Once
  <2> QED
    BY <1>1, <1>2, <1>6, <2>1, SameChunk DEF PlInv
<1> QED
  BY <1>4, <1>5, <1>6, <1>7 DEF PlInv

\* A row is printed, or not: the chunk has jobs of its own only.
LEMMA FilterStep ==
  ASSUME PlInv, filter_sacct_lines_batched
  PROVE  PlInv'
<1>1. /\ UNCHANGED <<options, waiting, lo, todo, row, sacct, wrapper, publisher, prev, batch, published, Noted>>
      /\ parsed # <<>> /\ parsed' = Tail(parsed) /\ wrapper = "running"
  BY DEF filter_sacct_lines_batched, results, processes, Noted
<1>2. PICK j : j = JobOf(Head(parsed))
  OBVIOUS
<1>3. /\ Whole(Head(parsed)) /\ j \in JobsIn(parsed) /\ WholeRows(parsed')
      /\ JobsIn(parsed') = JobsIn(parsed) \ {j}
      /\ Len(parsed') = Len(parsed) - 1 /\ Len(parsed) \in Nat
  BY <1>1, <1>2, TailRow DEF PlInv, Queues, WholeRows
<1>4. RowJob' = RowJob /\ (Doomed => Doomed')
  BY <1>1 DEF RowJob, Doomed
<1>5. Types' /\ Gluing'
  BY <1>1 DEF PlInv, Types, Gluing, Glued, options
<1>6. Endings'
  BY <1>1 DEF PlInv, Endings
<1>7. Len(parsed') <= BatchSize
  BY <1>3, PipelineAssumption DEF PlInv, Queues
<1>8. CASE InInterval(Head(parsed))
  <2>1. Len(pipe) < PipeCapacity /\ pipe' = Append(pipe, Head(parsed))
    BY <1>8 DEF filter_sacct_lines_batched
  <2>2. j \notin JobsIn(pipe) /\ WholeRows(pipe) /\ Len(pipe) \in Nat
    BY <1>3 DEF PlInv, Apart, Queues, WholeRows
  <2>3. WholeRows(pipe') /\ JobsIn(pipe') = JobsIn(pipe) \cup {j} /\ Len(pipe') = Len(pipe) + 1
    BY <1>2, <1>3, <2>1, <2>2, AppendRow
  <2>4. Queues'
    BY <1>1, <1>3, <1>7, <2>1, <2>2, <2>3, PipelineAssumption DEF PlInv, Queues
  <2>5. Apart' /\ OnTheWay' = OnTheWay
    BY <1>1, <1>3, <1>4, <2>3 DEF PlInv, Apart, OnTheWay
  <2>6. \A k \in JobsIn(pipe') : End[k] \in Chunk(lo)
    BY <1>2, <1>8, <2>3 DEF PlInv, Once, InInterval
  <2>7. Once' /\ Kept'
    BY <1>1, <1>4, <2>5, <2>6, SameChunk DEF PlInv
  <2> QED
    BY <1>5, <1>6, <2>4, <2>5, <2>7 DEF PlInv
<1>9. CASE ~InInterval(Head(parsed))
  <2>1. pipe' = pipe /\ End[j] \notin Chunk(lo)
    BY <1>2, <1>9 DEF filter_sacct_lines_batched, InInterval
  <2>2. Queues'
    BY <1>1, <1>3, <1>7, <2>1 DEF PlInv, Queues
  <2>3. Apart' /\ OnTheWay' \subseteq OnTheWay /\ OnTheWay \ OnTheWay' \subseteq {j}
    BY <1>1, <1>3, <1>4, <2>1 DEF PlInv, Apart, OnTheWay
  <2>4. \A k \in JobsIn(pipe') : End[k] \in Chunk(lo)
    BY <2>1 DEF PlInv, Once
  <2>5. Once' /\ Kept'
    BY <1>1, <1>4, <2>1, <2>3, <2>4, SameChunk DEF PlInv
  <2> QED
    BY <1>5, <1>6, <2>2, <2>3, <2>5 DEF PlInv
<1> QED
  BY <1>8, <1>9

\* The publisher takes a row.
LEMMA PublishStep ==
  ASSUME PlInv, generate_sacct_records
  PROVE  PlInv'
<1>1. /\ UNCHANGED <<options, waiting, lo, todo, row, sacct, wrapper, prev, batch, parsed, failed>>
      /\ pipe # <<>> /\ pipe' = Tail(pipe) /\ publisher = "running"
  BY DEF generate_sacct_records
<1>2. PICK j : j = JobOf(Head(pipe))
  OBVIOUS
<1>3. /\ Whole(Head(pipe)) /\ j \in JobsIn(pipe) /\ WholeRows(pipe')
      /\ JobsIn(pipe') = JobsIn(pipe) \ {j}
      /\ Len(pipe') = Len(pipe) - 1 /\ Len(pipe) \in Nat
  BY <1>1, <1>2, TailRow DEF PlInv, Queues, WholeRows
<1>4. j \in Job /\ Head(pipe).lines = RowOf(j) /\ (Proper(j) <=> Head(pipe).delims = N)
  BY <1>2, <1>3, WholeFacts DEF Proper
<1>5. RowJob' = RowJob
  BY <1>1 DEF RowJob
<1>6. /\ Apart' /\ OnTheWay' = OnTheWay \ {j} /\ j \in OnTheWay
  BY <1>1, <1>3, <1>5 DEF PlInv, Apart, OnTheWay
<1>7. Queues'
  BY <1>1, <1>3, PipelineAssumption DEF PlInv, Queues
<1>8. Gluing'
  BY <1>1 DEF PlInv, Gluing, Glued
<1>9. End[j] \in Chunk(lo) /\ \A k \in JobsIn(pipe') : End[k] \in Chunk(lo)
  BY <1>3 DEF PlInv, Once
<1>10. CASE Head(pipe).delims = N
  <2>1. publisher' = publisher /\ published' = published (+) SetToBag({RowOf(j)}) /\ Noted' = Noted
    BY <1>4, <1>10 DEF generate_sacct_records, Noted
  <2>2. RowOf(j) \notin DOMAIN published
    <3>1. ASSUME RowOf(j) \in DOMAIN published
          PROVE  FALSE
      <4>1. PICK k \in Job : RowOf(j) = RowOf(k) /\ (End[k] >= lo => k \notin OnTheWay)
        BY <3>1 DEF PlInv, Once
      <4>2. k = j
        BY <1>4, <4>1, RowOfInjective
      <4>3. End[j] >= lo
        BY <1>9 DEF Chunk
      <4> QED
        BY <1>6, <4>1, <4>2, <4>3
    <3> QED
      BY <3>1
  <2>3. /\ DOMAIN published' = DOMAIN published \cup {RowOf(j)}
        /\ published'[RowOf(j)] = 1
        /\ \A r \in DOMAIN published : published'[r] = published[r]
        /\ IsABag(published')
    <3>1. IsABag(published)
      BY DEF PlInv, Types
    <3> QED
      BY <2>1, <2>2, <3>1 DEF (+), SetToBag, IsABag
  <2>4. Types'
    BY <1>1, <2>1, <2>3 DEF PlInv, Types, options
  <2>5. Endings' /\ (Doomed => Doomed')
    BY <1>1, <2>1 DEF PlInv, Endings, Doomed
  <2>6. Once'
    <3>1. ASSUME NEW r \in DOMAIN published'
          PROVE  \E k \in Job :
                   /\ r = RowOf(k) /\ Proper(k) /\ published'[r] = 1
                   /\ End[k] <= ChunkEnd(lo') /\ (End[k] >= lo' => k \notin OnTheWay')
      <4>1. CASE r = RowOf(j)
        <5>1. End[j] <= ChunkEnd(lo)
          BY <1>9 DEF Chunk
        <5> QED
          BY <1>1, <1>4, <1>6, <1>10, <2>3, <4>1, <5>1
      <4>2. CASE r \in DOMAIN published
        BY <1>1, <1>6, <2>3, <4>2 DEF PlInv, Once
      <4> QED
        BY <2>3, <4>1, <4>2
    <3> QED
      BY <1>1, <1>9, <3>1 DEF Once
  <2>7. Kept'
    BY <1>1, <1>6, <2>1, <2>3, <2>5 DEF PlInv, Kept
  <2> QED
    BY <1>6, <1>7, <1>8, <2>4, <2>5, <2>6, <2>7 DEF PlInv
<1>11. CASE Head(pipe).delims # N
  <2>1. /\ published' = published /\ publisher' \in Exits /\ (publisher' = "ok" => lo \in Noted')
        /\ Noted \subseteq Noted' /\ (Doomed => Doomed')
    BY <1>1, <1>11 DEF generate_sacct_records, Doomed, Exits, Noted
  <2>2. Types'
    BY <1>1, <2>1 DEF PlInv, Types, options
  <2>3. Endings'
    BY <1>1, <2>1 DEF PlInv, Endings
  <2>4. Once'
    BY <1>1, <1>6, <1>9, <2>1 DEF PlInv, Once
  <2>5. Kept'
    <3> SUFFICES ASSUME NEW k \in Job, Proper(k), Timely(k), Lower <= End[k]
                 PROVE  /\ End[k] < lo => RowOf(k) \in DOMAIN published \/ \E c \in Noted' : End[k] \in Chunk(c)
                        /\ End[k] \in Chunk(lo) => RowOf(k) \in DOMAIN published \/ k \in OnTheWay' \/ Doomed'
      BY <1>1, <2>1 DEF Kept
    <3>1. k # j
      BY <1>4, <1>11
    <3> QED
      BY <1>6, <2>1, <3>1 DEF PlInv, Kept
  <2> QED
    BY <1>6, <1>7, <1>8, <2>2, <2>3, <2>4, <2>5 DEF PlInv
<1> QED
  BY <1>10, <1>11

\* A chunk that is over without a failure has nothing left on the way.
LEMMA CleanEnd ==
  ASSUME PlInv, ChunkOver, lo \notin Noted
  PROVE  OnTheWay = {} /\ ~Doomed
<1>1. wrapper = "ok" /\ publisher = "ok" /\ sacct = "ok"
  BY DEF ChunkOver, PlInv, Endings
<1>2. todo = {} /\ row = NoRow /\ batch = <<>> /\ parsed = <<>> /\ pipe = <<>>
  BY <1>1 DEF PlInv, Endings
<1> QED
  BY <1>1, <1>2, EmptyRows DEF OnTheWay, RowJob, Doomed

\* The next chunk begins: the last one is published or has a failure.
LEMMA NextChunkStep ==
  ASSUME PlInv, NextChunk
  PROVE  PlInv'
<1> USE PipelineAssumption
<1>0. N \in Nat \ {0} /\ \A j \in Job : End[j] \in Nat
  BY RowAssumption, SelectionAssumption
<1>1. /\ UNCHANGED <<options, published, Noted>> /\ lo' = lo + Step /\ ChunkOver
      /\ todo' = get_patched_sacct_cmd(lo') /\ row' = NoRow
      /\ sacct' = "running" /\ wrapper' = "running" /\ publisher' = "none" /\ waiting' = "popen"
      /\ prev' = NoPrev /\ batch' = <<>> /\ parsed' = <<>> /\ pipe' = <<>>
  BY DEF NextChunk, results, Noted
<1>2. /\ lo \in Nat /\ Lower <= lo /\ lo + Step < Upper /\ lo' \in Nat
      /\ ChunkEnd(lo) = lo' - 1 /\ Chunk(lo) = lo..(lo' - 1) /\ ChunkEnd(lo') >= lo' /\ ChunkEnd(lo') \in Nat
  BY <1>1 DEF PlInv, Types, NextChunk, Last_chunk, ChunkEnd, Chunk
<1>3. RowJob' = {} /\ JobsIn(batch') = {} /\ JobsIn(parsed') = {} /\ JobsIn(pipe') = {}
  BY <1>1, EmptyRows DEF RowJob
<1>4. Types'
  <2>1. prev' \in Rows /\ prev'.delims < N
    BY <1>0, <1>1 DEF NoPrev, Rows
  <2>2. todo' \subseteq Job
    BY <1>1 DEF get_patched_sacct_cmd
  <2> QED
    BY <1>1, <1>2, <2>1, <2>2 DEF PlInv, Types, Exits, Waits, options
<1>5. Queues'
  BY <1>1, EmptyRows DEF Queues
<1>6. Gluing' /\ Endings'
  BY <1>1 DEF Gluing, Endings
<1>7. Apart'
  BY <1>3 DEF Apart
<1>8. Once'
  <2>1. ASSUME NEW r \in DOMAIN published'
        PROVE  \E k \in Job :
                 /\ r = RowOf(k) /\ Proper(k) /\ published'[r] = 1
                 /\ End[k] <= ChunkEnd(lo') /\ (End[k] >= lo' => k \notin OnTheWay')
    <3>1. PICK k \in Job : /\ r = RowOf(k) /\ Proper(k) /\ published[r] = 1
                           /\ End[k] <= ChunkEnd(lo)
      BY <1>1 DEF PlInv, Once
    <3>2. End[k] <= ChunkEnd(lo') /\ ~(End[k] >= lo')
      BY <1>0, <1>2, <3>1
    <3> QED
      BY <1>1, <3>1, <3>2
  <2> QED
    BY <1>3, <2>1 DEF Once
<1>9. lo \notin Noted => OnTheWay = {} /\ ~Doomed
  BY <1>1, CleanEnd
<1>10. Kept'
  <2> SUFFICES ASSUME NEW j \in Job, Proper(j), Timely(j), Lower <= End[j]
               PROVE  /\ End[j] < lo' => RowOf(j) \in DOMAIN published \/ \E c \in Noted : End[j] \in Chunk(c)
                      /\ End[j] \in Chunk(lo') => j \in OnTheWay'
    BY <1>1 DEF Kept
  <2>1. End[j] \in Chunk(lo') => j \in OnTheWay'
    BY <1>1, <1>2, AskedFor DEF OnTheWay
  <2>2. CASE End[j] < lo
    BY <2>1, <2>2 DEF PlInv, Kept
  <2>3. CASE End[j] >= lo /\ End[j] < lo'
    <3>1. End[j] \in Chunk(lo)
      BY <1>0, <1>2, <2>3
    <3>2. CASE lo \in Noted
      BY <2>1, <3>1, <3>2
    <3>3. CASE lo \notin Noted
      BY <1>9, <2>1, <3>1, <3>3 DEF PlInv, Kept
    <3> QED
      BY <3>2, <3>3
  <2> QED
    BY <1>0, <1>2, <2>1, <2>2, <2>3
<1> QED
  BY <1>4, <1>5, <1>6, <1>7, <1>8, <1>10 DEF PlInv

\* The pipeline keeps its invariant.
LEMMA PlStepInv ==
  ASSUME PlInv, [Next]_vars
  PROVE  PlInv'
BY ProcessStep, SacctDiesStep, ReadLineStep, ParseEndsStep, FilterStep, PublishStep, NextChunkStep
   DEF Next

\* The state of the pipeline keeps its type, and queues their bounds.
THEOREM PlTypeCorrect == Spec => []PlTypeOK
<1>1. PlInv => PlTypeOK
  <2> SUFFICES ASSUME PlInv
               PROVE  PlTypeOK
    OBVIOUS
  <2>1. prev.delims \in 0..N - 1
    <3>1. prev.delims \in Nat /\ prev.delims < N /\ N \in Nat
      BY RowAssumption DEF PlInv, Types, Rows
    <3> QED
      BY <3>1
  <2>2. row = NoRow \/ row[1] \in Job
    BY DEF PlInv, Types
  <2> QED
    BY <2>1, <2>2 DEF PlInv, Types, Queues, PlTypeOK
<1> QED
  BY <1>1, PlInitInv, PlStepInv, PTL DEF Spec

\* Whatever line breaks and delimiters the rows have, and wherever a process
\* dies, a payload is one whole row of one job.
THEOREM PayloadsAreWholeRows == Spec => []PayloadsAreRows
<1>1. PlInv => PayloadsAreRows
  BY DEF PlInv, Once, PayloadsAreRows, BagToSet
<1> QED
  BY <1>1, PlInitInv, PlStepInv, PTL DEF Spec

\* No job is published twice, whatever the range, the step and the slack, and
\* however often sacct reports it.
THEOREM NoJobIsPublishedTwice == Spec => []NoJobTwice
<1>1. PlInv => NoJobTwice
  BY DEF PlInv, Once, NoJobTwice, BagIn, BagToSet
<1> QED
  BY <1>1, PlInitInv, PlStepInv, PTL DEF Spec

\* Every job of the range that has a proper row and that sacct reports in time
\* is published, or its chunk has a failure: logged, or one of the three that
\* publish_chunk does not log (NoneLost).
THEOREM NoJobIsLost == Spec => []NoneLost
<1>1. PlInv => NoneLost
  <2> SUFFICES ASSUME PlInv, Done, NEW j \in Job, End[j] \in Lower..ChunkEnd(lo), Proper(j), Timely(j),
                      \A c \in failed \cup unlogged : End[j] \notin Chunk(c)
               PROVE  RowOf(j) \in DOMAIN published
    BY DEF NoneLost, BagToSet
  <2>1. /\ lo \in Nat /\ Lower \in Nat /\ End[j] \in Nat /\ Lower <= End[j] /\ ChunkOver
        /\ Chunk(lo) = lo..ChunkEnd(lo) /\ ChunkEnd(lo) \in Nat
        /\ \A c \in Noted : End[j] \notin Chunk(c)
    BY PipelineAssumption, SelectionAssumption DEF PlInv, Types, Done, Chunk, ChunkEnd, Noted
  <2>2. CASE End[j] < lo
    BY <2>1, <2>2 DEF PlInv, Kept
  <2>3. CASE End[j] >= lo
    <3>1. End[j] \in Chunk(lo) /\ lo \notin Noted
      BY <2>1, <2>3
    <3>2. OnTheWay = {} /\ ~Doomed
      BY <2>1, <3>1, CleanEnd
    <3> QED
      BY <2>1, <3>1, <3>2 DEF PlInv, Kept
  <2> QED
    BY <2>1, <2>2, <2>3
<1> QED
  BY <1>1, PlInitInv, PlStepInv, PTL DEF Spec
=============================================================================
