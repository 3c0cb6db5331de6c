------------------------- MODULE SlurmMonitorProofs -------------------------
(***************************************************************************)
(* slurm_monitor never publishes an Sdiag row of an earlier cycle, and what *)
(* it publishes in a cycle is one scrape, for every sink configuration,     *)
(* chunk size, number of retries and cycles.                               *)
(***************************************************************************)
EXTENDS SlurmMonitor, DataCollectionProofs

\* The record being built is typed: the scrape it names is a number.
LEMMA SMYieldType ==
  ASSUME SMTypeOK, NEW src \in 0..Len(scrapedIn), NEW n \in Sizes, YieldRecord(src, n),
         UNCHANGED <<last_sdiag, scrapedIn>>
  PROVE  SMTypeOK'
<1>1. src \in Nat /\ TypeOK
  BY DEF SMTypeOK
<1> QED
  BY <1>1, YieldType DEF SMTypeOK

\* Every state of slurm_monitor has its type: the cache names no scrape that
\* was not made.
THEOREM SMTypeCorrect == SMSpec => []SMTypeOK
<1>1. SMInit => SMTypeOK
  BY SinkInitType, DataCollectionAssumption DEF SMInit, LoopInit, SMTypeOK, TypeOK
<1>2. SMTypeOK /\ [SMNext]_smVars => SMTypeOK'
  <2> SUFFICES ASSUME SMTypeOK, [SMNext]_smVars
               PROVE  SMTypeOK'
    OBVIOUS
  <2>0. TypeOK /\ SinkTypeOK /\ scrapedIn \in Seq(Nat) /\ Len(scrapedIn) \in Nat
    BY DEF SMTypeOK, TypeOK
  <2>1. CASE SMLoopStep
    <3>1. CASE WriteStep
      BY <2>0, <2>1, <3>1, WritesType, InCallType DEF WriteStep, SMLoopStep, SMTypeOK
    <3>2. CASE Ended
      BY <2>0, <2>1, <3>2 DEF Ended, SMLoopStep, SMTypeOK, TypeOK, SinkTypeOK, vars,
                              sinkVars, callVars, loopVars
    <3>3. CASE StartCycle \/ GetData \/ TaskDone \/ TaskRaised \/ Sleep
      BY <2>0, <2>1, <3>3, LoopStepType DEF LoopStep, SMLoopStep, SMTypeOK
    <3> QED
      BY <2>1, <3>1, <3>2, <3>3 DEF SMLoopStep
  <2>2. CASE CollectSlurmStarts
    <3>1. TypeOK'
      BY <2>0, <2>2, GenStartsType, InCallType DEF CollectSlurmStarts
    <3>2. scrapedIn' = Append(scrapedIn, cycle) /\ cycle \in Nat
      BY <2>0, <2>2 DEF CollectSlurmStarts, TypeOK
    <3>3. scrapedIn' \in Seq(Nat) /\ last_sdiag' = Len(scrapedIn')
      BY <2>0, <2>2, <3>2 DEF CollectSlurmStarts
    <3> QED
      BY <3>1, <3>3 DEF SMTypeOK
  <2>3. ASSUME NEW n \in Sizes, CollectSlurmYields(n) PROVE SMTypeOK'
    BY <2>0, <2>3, SMYieldType DEF CollectSlurmYields
  <2>4. CASE CollectSlurmEnds
    BY <2>0, <2>4, GenEndsType, InCallType DEF CollectSlurmEnds, SMTypeOK
  <2>5. CASE CollectSlurmRaises
    <3>1. SinkTypeOK'
      BY <2>0, <2>5, GenRaisesType, ReadFailsType DEF CollectSlurmRaises
    <3>2. last_sdiag' \in 0..Len(scrapedIn) /\ scrapedIn' = scrapedIn /\ UNCHANGED loopVars
      BY <2>0, <2>5 DEF CollectSlurmRaises, InvalidateCache, SMTypeOK
    <3> QED
      BY <2>0, <3>1, <3>2, InCallType DEF SMTypeOK
  <2>6. CASE CollectSdiagStarts
    BY <2>0, <2>6, GenStartsType, InCallType DEF CollectSdiagStarts, SMTypeOK
  <2>7. ASSUME NEW n \in Sizes, CollectSdiagYields(n) PROVE SMTypeOK'
    BY <2>0, <2>7, SMYieldType DEF CollectSdiagYields, SMTypeOK
  <2>8. CASE CollectSdiagEnds
    BY <2>0, <2>8, GenEndsType, InCallType DEF CollectSdiagEnds, SMTypeOK
  <2>9. CASE CollectSdiagReadFails
    BY <2>0, <2>9, ReadFailsType, InCallType DEF CollectSdiagReadFails, SMTypeOK
  <2>10. CASE UNCHANGED smVars
    BY <2>0, <2>10 DEF SMTypeOK, TypeOK, SinkTypeOK, smVars, vars, sinkVars, callVars, loopVars
  <2> QED
    BY <2>1, <2>2, <2>3, <2>4, <2>5, <2>6, <2>7, <2>8, <2>9, <2>10 DEF SMNext, SMCollectorStep
<1> QED
  BY <1>1, <1>2, PTL DEF SMSpec

-----------------------------------------------------------------------------
(***************************************************************************)
(* The inductive invariant.  NoStaleSdiag speaks of stored records only;   *)
(* records on their way must be fresh too, and so must the cache, except   *)
(* while collect_slurm of the current cycle has not begun.  That it does   *)
(* begin before collect_sdiag is what the invariant has to show: with      *)
(* chunk_size 0 and a sink that ignores the metrics stream it never runs   *)
(* at all, and the cache is then never filled.                             *)
(***************************************************************************)
FreshIn(n, c) == n \in DOMAIN scrapedIn /\ scrapedIn[n] = c

AllFresh(s) == \A i \in DOMAIN s : IsSdiag(s[i]) => FreshIn(s[i].src, s[i].cycle)

CacheInv ==
  \/ last_sdiag = 0
  \/ FreshIn(last_sdiag, cycle)
  \/ loop \in {"cycle", "sleep"}
  \/ task = SlurmTask /\ loop = "task"
  \/ task = SlurmTask /\ loop = "writing" /\ status = "reading" /\ gen = "fresh"

UnreadInv ==
  limit = 0 =>
    /\ held = <<>>
    /\ status = "reading" => task \in Routed
    /\ SlurmTask \notin Routed => last_sdiag = 0

IdleInv == loop \in {"cycle", "task", "sleep", "done"} => status = "idle"

FreshInv ==
  /\ AllFresh(delivered) /\ AllFresh(chunk) /\ AllFresh(held)
  /\ CacheInv
  /\ UnreadInv
  /\ IdleInv

\* What a sink stores of a fresh chunk is fresh.
LEMMA StoreFresh ==
  ASSUME NEW s \in Seq(Record), NEW t \in Seq(Record), NEW k \in 0..Len(t),
         AllFresh(s), AllFresh(t)
  PROVE  AllFresh(s \o SubSeq(t, 1, k))
<1> DEFINE u == s \o SubSeq(t, 1, k)
<1>1. SubSeq(t, 1, k) \in Seq(Record) /\ Len(SubSeq(t, 1, k)) = k
  OBVIOUS
<1>2. \A i \in 1..k : SubSeq(t, 1, k)[i] = t[i]
  OBVIOUS
<1>3. u \in Seq(Record) /\ Len(u) = Len(s) + k
  BY <1>1
<1>4. \A i \in DOMAIN u : u[i] = IF i <= Len(s) THEN s[i] ELSE t[i - Len(s)]
  BY <1>1, <1>2, <1>3
<1> HIDE DEF u
<1>5. ASSUME NEW i \in DOMAIN u
      PROVE  \/ i \in DOMAIN s /\ u[i] = s[i]
             \/ (i - Len(s)) \in DOMAIN t /\ u[i] = t[i - Len(s)]
  BY <1>3, <1>4
<1>6. AllFresh(u)
  BY <1>5 DEF AllFresh
<1> QED
  BY <1>6 DEF u

\* A fresh record added to a fresh chunk leaves it fresh.
LEMMA AppendFresh ==
  ASSUME NEW s \in Seq(Record), NEW r \in Record, AllFresh(s),
         IsSdiag(r) => FreshIn(r.src, r.cycle)
  PROVE  AllFresh(Append(s, r)) /\ AllFresh(<<r>>)
<1>1. \A i \in DOMAIN Append(s, r) :
        Append(s, r)[i] = r \/ (i \in DOMAIN s /\ Append(s, r)[i] = s[i])
  OBVIOUS
<1>2. \A i \in DOMAIN <<r>> : <<r>>[i] = r
  OBVIOUS
<1> QED
  BY <1>1, <1>2 DEF AllFresh

\* Yielding a record keeps the invariant when the record is fresh and the
\* generator has begun.
LEMMA YieldFresh ==
  ASSUME SMTypeOK, FreshInv, NEW src \in Nat, NEW n \in Sizes, YieldRecord(src, n),
         task = SdiagTask => FreshIn(src, cycle), UNCHANGED <<last_sdiag, scrapedIn>>
  PROVE  FreshInv'
<1> DEFINE r == NewRecord(src, n)
<1>0. TypeOK /\ {chunk, held, delivered} \subseteq Seq(Record)
  BY DEF SMTypeOK, TypeOK, SinkTypeOK
<1>1. r \in Record /\ (IsSdiag(r) => FreshIn(r.src, r.cycle))
  BY <1>0, NewRecordType DEF NewRecord, IsSdiag
<1>2. Reads(r) /\ UNCHANGED <<loop, cycle, task>>
  BY DEF YieldRecord
<1> HIDE DEF r
<1>3. status = "reading" /\ gen = "active" /\ gen' = gen /\ delivered' = delivered
      /\ status' # "idle"
  BY <1>2 DEF Reads, SinkReads, RecordTooLarge, RecordFits, RecordOverflows, Yields
<1>4. chunk' \in {chunk, Append(chunk, r)} /\ held' \in {held, <<r>>}
      /\ (limit = 0 => held' = held /\ status' = status) /\ limit' = limit
  BY <1>2, SinkWriteAssumption DEF Reads, SinkReads, RecordTooLarge, RecordFits, RecordOverflows
<1>5. AllFresh(delivered') /\ AllFresh(chunk') /\ AllFresh(held')
  BY <1>0, <1>1, <1>3, <1>4, AppendFresh DEF FreshInv
<1>6. (AllFresh(delivered) /\ AllFresh(chunk) /\ AllFresh(held))'
  BY <1>5 DEF AllFresh, FreshIn
<1>7. loop \notin {"cycle", "task", "sleep", "done"}
  BY <1>3 DEF FreshInv, IdleInv
<1>8. CacheInv'
  BY <1>2, <1>3, <1>7 DEF FreshInv, CacheInv, FreshIn
<1>9. UnreadInv' /\ IdleInv'
  BY <1>2, <1>3, <1>4, <1>7 DEF FreshInv, UnreadInv, IdleInv
<1> QED
  BY <1>6, <1>8, <1>9 DEF FreshInv

\* The sink's answer keeps the invariant.
LEMMA WritesFresh ==
  ASSUME SMTypeOK, FreshInv, Writes, UNCHANGED <<loopVars, last_sdiag, scrapedIn>>
  PROVE  FreshInv'
<1>0. {chunk, held, delivered} \subseteq Seq(Record)
  BY DEF SMTypeOK, TypeOK, SinkTypeOK
<1>1. PICK o \in Outcomes, k \in 0..Len(chunk) :
        WriteReturns(o, k) \/ WriteRetried(o, k) \/ WriteRaises(o, k)
  BY DEF Writes
<1>2. WriteReturns(o, k)
  BY <1>1, WriteIsDecorated DEF WriteRetried, WriteRaises, log_error
<1>3. /\ status = "writing" /\ delivered' = delivered \o SubSeq(chunk, 1, k)
      /\ chunk' = held /\ held' = <<>> /\ gen' = gen /\ limit' = limit
      /\ status' = IF held = <<>> THEN "returned" ELSE "reading"
  BY <1>2 DEF WriteReturns, SinkAnswers
<1>4. AllFresh(delivered') /\ AllFresh(chunk') /\ AllFresh(held')
  <2>1. AllFresh(delivered')
    BY <1>0, <1>3, StoreFresh DEF FreshInv
  <2>2. AllFresh(<<>>)
    BY DEF AllFresh
  <2> QED
    BY <1>3, <2>1, <2>2 DEF FreshInv
<1>5. (AllFresh(delivered) /\ AllFresh(chunk) /\ AllFresh(held))'
  BY <1>4 DEF AllFresh, FreshIn
<1>6. CacheInv'
  BY <1>3 DEF FreshInv, CacheInv, FreshIn, loopVars
<1>7. UnreadInv' /\ IdleInv'
  BY <1>3 DEF FreshInv, UnreadInv, IdleInv, loopVars
<1> QED
  BY <1>5, <1>6, <1>7 DEF FreshInv

\* A failure inside write keeps the invariant, provided that collect_slurm
\* failing at its scrapes has emptied the cache.
LEMMA ReadFailsFresh ==
  ASSUME SMTypeOK, FreshInv, NEW k, ReadFails(k), UNCHANGED <<loopVars, scrapedIn>>,
         last_sdiag' \in {0, last_sdiag},
         task = SlurmTask /\ gen = "fresh" => last_sdiag' = 0
  PROVE  FreshInv'
<1>0. {chunk, held, delivered} \subseteq Seq(Record)
  BY DEF SMTypeOK, TypeOK, SinkTypeOK
<1>1. /\ status = "reading" /\ status' = "returned" /\ UNCHANGED <<limit, chunk, held>>
      /\ k \in 0..Len(chunk) /\ delivered' = delivered \o SubSeq(chunk, 1, k)
  BY WriteIsDecorated DEF ReadFails, log_error
<1>2. AllFresh(delivered') /\ AllFresh(chunk') /\ AllFresh(held')
  BY <1>0, <1>1, StoreFresh DEF FreshInv
<1>3. (AllFresh(delivered) /\ AllFresh(chunk) /\ AllFresh(held))'
  BY <1>2 DEF AllFresh, FreshIn
<1>4. CacheInv'
  BY <1>1 DEF FreshInv, CacheInv, FreshIn, loopVars, IdleInv
<1>5. UnreadInv' /\ IdleInv'
  BY <1>1 DEF FreshInv, UnreadInv, IdleInv, loopVars
<1> QED
  BY <1>3, <1>4, <1>5 DEF FreshInv

\* The generator's other steps keep the invariant, with the same proviso.
LEMMA GenFresh ==
  ASSUME FreshInv, GenStarts \/ GenEnds \/ GenRaises, UNCHANGED <<loopVars, scrapedIn>>,
         last_sdiag' \in {0, last_sdiag},
         task = SlurmTask /\ gen = "fresh" => last_sdiag' = 0
  PROVE  FreshInv'
<1>1. /\ status = "reading" /\ status' # "idle" /\ UNCHANGED <<limit, chunk, held, delivered>>
      /\ gen' # "fresh" /\ (status' = "reading" => status = "reading")
  BY DEF GenStarts, GenEnds, GenRaises
<1>2. (AllFresh(delivered) /\ AllFresh(chunk) /\ AllFresh(held))'
  BY <1>1 DEF FreshInv, AllFresh, FreshIn
<1>3. CacheInv'
  BY <1>1 DEF FreshInv, CacheInv, FreshIn, loopVars, IdleInv
<1>4. UnreadInv' /\ IdleInv'
  BY <1>1 DEF FreshInv, UnreadInv, IdleInv, loopVars
<1> QED
  BY <1>2, <1>3, <1>4 DEF FreshInv

\* A successful scrape fills the cache with a value of the current cycle and
\* leaves the older ones what they were.
LEMMA ScrapeFresh ==
  ASSUME SMTypeOK, FreshInv, CollectSlurmStarts
  PROVE  FreshInv'
<1>1. /\ status = "reading" /\ status' = "reading" /\ gen' = "active"
      /\ UNCHANGED <<limit, chunk, held, delivered, loopVars>>
      /\ scrapedIn' = Append(scrapedIn, cycle) /\ last_sdiag' = Len(scrapedIn')
      /\ task = SlurmTask
  BY DEF CollectSlurmStarts, GenStarts
<1>2. scrapedIn \in Seq(Nat) /\ cycle \in Nat
  BY DEF SMTypeOK, TypeOK
<1>3. \A n \in DOMAIN scrapedIn : n \in DOMAIN scrapedIn' /\ scrapedIn'[n] = scrapedIn[n]
  BY <1>1, <1>2
<1>4. last_sdiag' \in DOMAIN scrapedIn' /\ scrapedIn'[last_sdiag'] = cycle
  BY <1>1, <1>2
<1>5. (AllFresh(delivered) /\ AllFresh(chunk) /\ AllFresh(held))'
  BY <1>1, <1>3 DEF FreshInv, AllFresh, FreshIn
<1>6. CacheInv'
  BY <1>1, <1>4 DEF CacheInv, FreshIn, loopVars
<1>7. UnreadInv' /\ IdleInv'
  BY <1>1 DEF FreshInv, UnreadInv, IdleInv, loopVars
<1> QED
  BY <1>5, <1>6, <1>7 DEF FreshInv

\* The loop's own steps keep the invariant: collect_sdiag is reached only
\* through the end of collect_slurm.
LEMMA LoopFresh ==
  ASSUME SMTypeOK, FreshInv, UNCHANGED <<last_sdiag, scrapedIn>>,
         StartCycle \/ GetData \/ TaskDone \/ TaskRaised \/ Sleep
  PROVE  FreshInv'
<1>0. TypeOK /\ NTasks = 2 /\ task \in {1, 2}
  BY TwoLazyTasks DEF SMTypeOK, TypeOK
<1>1. CASE StartCycle \/ TaskRaised \/ Sleep
  <2>1. UNCHANGED sinkVars
    BY <1>1 DEF StartCycle, TaskRaised, Sleep
  <2>2. (AllFresh(delivered) /\ AllFresh(chunk) /\ AllFresh(held))'
    BY <2>1 DEF FreshInv, AllFresh, FreshIn, sinkVars, callVars
  <2>3. CacheInv' /\ UnreadInv' /\ IdleInv'
    <3>1. CASE StartCycle
      BY <3>1 DEF StartCycle, FreshInv, CacheInv, UnreadInv, IdleInv, SlurmTask, sinkVars, callVars
    <3>2. CASE TaskRaised
      BY <3>2 DEF TaskRaised, FreshInv, CacheInv, FreshIn, UnreadInv, IdleInv, sinkVars, callVars
    <3>3. CASE Sleep
      BY <3>3 DEF Sleep, FreshInv, CacheInv, UnreadInv, IdleInv, sinkVars, callVars
    <3> QED
      BY <1>1, <3>1, <3>2, <3>3
  <2> QED
    BY <2>2, <2>3 DEF FreshInv
<1>2. CASE GetData
  <2>1. /\ loop = "task" /\ loop' = "writing" /\ UNCHANGED <<limit, cycle, task, delivered>>
        /\ chunk' = <<>> /\ held' = <<>> /\ gen' = "fresh"
        /\ status' = IF limit = 0 /\ task \notin Routed THEN "writing" ELSE "reading"
    BY <1>2 DEF GetData, Call
  <2>2. (AllFresh(delivered) /\ AllFresh(chunk) /\ AllFresh(held))'
    BY <2>1 DEF FreshInv, AllFresh, FreshIn
  <2>3. CacheInv' /\ UnreadInv' /\ IdleInv'
    BY <2>1 DEF FreshInv, CacheInv, FreshIn, UnreadInv, IdleInv
  <2> QED
    BY <2>2, <2>3 DEF FreshInv
<1>3. CASE TaskDone
  <2>1. /\ loop = "writing" /\ status = "returned" /\ status' = "idle"
        /\ UNCHANGED <<limit, cycle, delivered, chunk, held>>
    BY <1>3 DEF TaskDone
  <2>2. loop' \in {"task", "sleep", "done"}
    BY <1>0, <1>3, NextTaskType DEF TaskDone
  <2>3. (AllFresh(delivered) /\ AllFresh(chunk) /\ AllFresh(held))'
    BY <2>1 DEF FreshInv, AllFresh, FreshIn
  <2>4. CacheInv' /\ UnreadInv' /\ IdleInv'
    BY <2>1, <2>2 DEF FreshInv, CacheInv, FreshIn, UnreadInv, IdleInv
  <2> QED
    BY <2>3, <2>4 DEF FreshInv
<1> QED
  BY <1>1, <1>2, <1>3

\* FreshInv holds in every state: the cache is emptied or filled before
\* collect_sdiag reads it.
LEMMA SMFresh == SMSpec => []FreshInv
<1>1. SMInit => FreshInv
  BY DEF SMInit, LoopInit, SinkInit, FreshInv, AllFresh, CacheInv, UnreadInv, IdleInv
<1>2. SMTypeOK /\ FreshInv /\ [SMNext]_smVars => FreshInv'
  <2> SUFFICES ASSUME SMTypeOK, FreshInv, [SMNext]_smVars
               PROVE  FreshInv'
    OBVIOUS
  <2>0. scrapedIn \in Seq(Nat) /\ last_sdiag \in 0..Len(scrapedIn) /\ Len(scrapedIn) \in Nat
    BY DEF SMTypeOK
  <2>1. CASE SMLoopStep
    <3>1. CASE WriteStep
      BY <2>1, <3>1, WritesFresh DEF SMLoopStep, WriteStep
    <3>2. CASE Ended
      BY <2>1, <3>2 DEF SMLoopStep, Ended, FreshInv, AllFresh, CacheInv, FreshIn, UnreadInv,
                        IdleInv, vars, sinkVars, callVars, loopVars
    <3>3. CASE StartCycle \/ GetData \/ TaskDone \/ TaskRaised \/ Sleep
      BY <2>1, <3>3, LoopFresh DEF SMLoopStep
    <3> QED
      BY <2>1, <3>1, <3>2, <3>3 DEF SMLoopStep
  <2>2. CASE CollectSlurmStarts
    BY <2>2, ScrapeFresh
  <2>3. ASSUME NEW n \in Sizes, CollectSlurmYields(n) PROVE FreshInv'
    <3>1. task # SdiagTask
      BY <2>3 DEF CollectSlurmYields, SlurmTask, SdiagTask
    <3> QED
      BY <2>0, <2>3, <3>1, YieldFresh DEF CollectSlurmYields
  <2>4. CASE CollectSlurmEnds
    <3>1. gen = "active"
      BY <2>4 DEF CollectSlurmEnds, GenEnds
    <3> QED
      BY <2>4, <3>1, GenFresh DEF CollectSlurmEnds
  <2>5. CASE CollectSlurmRaises
    <3>1. /\ last_sdiag' \in {0, last_sdiag}
          /\ gen = "fresh" => last_sdiag' = 0
      BY <2>5 DEF CollectSlurmRaises, InvalidateCache
    <3>2. UNCHANGED <<loopVars, scrapedIn>>
      BY <2>5 DEF CollectSlurmRaises
    <3>3. CASE GenRaises
      BY <3>1, <3>2, <3>3, GenFresh
    <3>4. CASE \E k \in 0..Len(chunk) : ReadFails(k)
      BY <3>1, <3>2, <3>4, ReadFailsFresh
    <3> QED
      BY <2>5, <3>3, <3>4 DEF CollectSlurmRaises
  <2>6. CASE CollectSdiagStarts
    <3>1. task # SlurmTask
      BY <2>6 DEF CollectSdiagStarts, SlurmTask, SdiagTask
    <3> QED
      BY <2>6, <3>1, GenFresh DEF CollectSdiagStarts
  <2>7. ASSUME NEW n \in Sizes, CollectSdiagYields(n) PROVE FreshInv'
    <3>1. /\ task = SdiagTask /\ last_sdiag # 0 /\ YieldRecord(last_sdiag, n)
          /\ UNCHANGED <<last_sdiag, scrapedIn>>
      BY <2>7 DEF CollectSdiagYields
    <3>2. status = "reading"
      BY <3>1 DEF YieldRecord, Reads, SinkReads, RecordTooLarge, RecordFits, RecordOverflows, Yields
    <3>3. FreshIn(last_sdiag, cycle)
      BY <3>1, <3>2 DEF FreshInv, CacheInv, IdleInv, SlurmTask, SdiagTask
    <3> QED
      BY <2>0, <3>1, <3>3, YieldFresh
  <2>8. CASE CollectSdiagEnds
    <3>1. gen = "active"
      BY <2>8 DEF CollectSdiagEnds, GenEnds
    <3> QED
      BY <2>8, <3>1, GenFresh DEF CollectSdiagEnds
  <2>9. CASE CollectSdiagReadFails
    <3>1. task # SlurmTask
      BY <2>9 DEF CollectSdiagReadFails, SlurmTask, SdiagTask
    <3> QED
      BY <2>9, <3>1, ReadFailsFresh DEF CollectSdiagReadFails
  <2>10. CASE UNCHANGED smVars
    BY <2>10 DEF FreshInv, AllFresh, CacheInv, FreshIn, UnreadInv, IdleInv, smVars, vars,
                 sinkVars, callVars, loopVars
  <2> QED
    BY <2>1, <2>2, <2>3, <2>4, <2>5, <2>6, <2>7, <2>8, <2>9, <2>10 DEF SMNext, SMCollectorStep
<1> QED
  BY <1>1, <1>2, SMTypeCorrect, PTL DEF SMSpec

\* An Sdiag row is published only in the cycle in which it was scraped, for
\* every chunk size, number of retries, number of cycles and every choice of
\* streams the sink stores (slurm_monitor.py:304-313, 373-380).
THEOREM SdiagIsNeverStale == SMSpec => []NoStaleSdiag
<1>1. FreshInv => NoStaleSdiag
  BY DEF FreshInv, AllFresh, FreshIn, NoStaleSdiag
<1> QED
  BY <1>1, SMFresh, PTL

-----------------------------------------------------------------------------
(***************************************************************************)
(* One snapshot per cycle.  The records of the sink and those on their way  *)
(* all name a scrape of their own cycle, and no two scrapes are of the same *)
(* cycle: a cycle that has not come to collect_slurm has made none.  An     *)
(* Sdiag record of the current cycle exists only once collect_sdiag has     *)
(* yielded it.                                                             *)
(***************************************************************************)
Elems(s) == {s[i] : i \in DOMAIN s}

Known == Elems(delivered) \cup Elems(chunk) \cup Elems(held)

NotYetScraped == task = SlurmTask /\ (loop = "task" \/ (status = "reading" /\ gen = "fresh"))

NoSdiagYet ==
  /\ loop \notin {"cycle", "sleep", "done"}
  /\ \/ task = SlurmTask
     \/ loop = "task"
     \/ status \in {"reading", "writing"} /\ produced = <<>>

ScrapesInv ==
  /\ \A n \in DOMAIN scrapedIn : scrapedIn[n] <= cycle
  /\ \A m, n \in DOMAIN scrapedIn : scrapedIn[m] = scrapedIn[n] => m = n
  /\ NotYetScraped => \A n \in DOMAIN scrapedIn : scrapedIn[n] < cycle
  /\ task = SlurmTask /\ gen = "active" /\ status \in {"reading", "writing"} =>
       FreshIn(Len(scrapedIn), cycle)
  /\ gen = "fresh" => held = <<>>

KnownInv ==
  /\ \A r \in Known : FreshIn(r.src, r.cycle) /\ r.cycle <= cycle
  /\ \A r, q \in Known : IsSdiag(r) /\ IsSdiag(q) /\ r.cycle = q.cycle => r.id = q.id
  /\ NoSdiagYet => \A r \in Known : IsSdiag(r) => r.cycle < cycle

SnapshotInv == ScrapesInv /\ KnownInv

\* What is in a sequence after the operations of a call.
LEMMA StoreElems ==
  ASSUME NEW s \in Seq(Record), NEW t \in Seq(Record), NEW k \in 0..Len(t)
  PROVE  Elems(s \o SubSeq(t, 1, k)) \subseteq Elems(s) \cup Elems(t)
<1> DEFINE u == s \o SubSeq(t, 1, k)
<1>1. SubSeq(t, 1, k) \in Seq(Record) /\ Len(SubSeq(t, 1, k)) = k
  OBVIOUS
<1>2. \A i \in 1..k : SubSeq(t, 1, k)[i] = t[i]
  OBVIOUS
<1>3. u \in Seq(Record) /\ Len(u) = Len(s) + k
  BY <1>1
<1>4. \A i \in DOMAIN u : u[i] = IF i <= Len(s) THEN s[i] ELSE t[i - Len(s)]
  BY <1>1, <1>2, <1>3
<1> HIDE DEF u
<1>5. \A i \in DOMAIN u : (i \in DOMAIN s /\ u[i] = s[i])
                            \/ (i - Len(s) \in DOMAIN t /\ u[i] = t[i - Len(s)])
  BY <1>3, <1>4
<1>6. Elems(u) \subseteq Elems(s) \cup Elems(t)
  BY <1>5 DEF Elems
<1> QED
  BY <1>6 DEF u

\* Appending adds one element.
LEMMA AppendElems ==
  ASSUME NEW s \in Seq(Record), NEW r \in Record
  PROVE  Elems(Append(s, r)) \subseteq Elems(s) \cup {r} /\ Elems(<<r>>) = {r}
<1>1. \A i \in DOMAIN Append(s, r) :
        Append(s, r)[i] = r \/ (i \in DOMAIN s /\ Append(s, r)[i] = s[i])
  OBVIOUS
<1>2. Elems(Append(s, r)) \subseteq Elems(s) \cup {r}
  BY <1>1 DEF Elems
<1>3. Elems(<<r>>) = {r}
  BY DEF Elems
<1> QED
  BY <1>2, <1>3

\* The empty sequence has none.
LEMMA NoElems == Elems(<<>>) = {}
BY DEF Elems

\* What sink and call know after a step.
LEMMA KnownNext == Known' = Elems(delivered') \cup Elems(chunk') \cup Elems(held')
BY DEF Known, Elems

\* A step that adds no record and no scrape, and enters neither of the two
\* phases, keeps the invariant.
LEMMA QuietSnapshot ==
  ASSUME SnapshotInv, Known' \subseteq Known, UNCHANGED <<cycle, scrapedIn>>,
         NotYetScraped' => NotYetScraped, NoSdiagYet' => NoSdiagYet,
         (task = SlurmTask /\ gen = "active" /\ status \in {"reading", "writing"})' =>
           task = SlurmTask /\ gen = "active" /\ status \in {"reading", "writing"},
         gen' = "fresh" => held' = <<>>
  PROVE  SnapshotInv'
<1>1. ScrapesInv'
  BY DEF SnapshotInv, ScrapesInv, FreshIn
<1>2. KnownInv'
  BY DEF SnapshotInv, KnownInv, FreshIn
<1> QED
  BY <1>1, <1>2 DEF SnapshotInv

\* The answers of the sink make no new records known.
LEMMA WritesSnapshot ==
  ASSUME SMTypeOK, SnapshotInv, Writes, UNCHANGED <<loopVars, last_sdiag, scrapedIn>>
  PROVE  SnapshotInv'
<1>0. {chunk, held, delivered} \subseteq Seq(Record)
  BY DEF SMTypeOK, TypeOK, SinkTypeOK
<1>1. PICK o \in Outcomes, k \in 0..Len(chunk) :
        WriteReturns(o, k) \/ WriteRetried(o, k) \/ WriteRaises(o, k)
  BY DEF Writes
<1>2. WriteReturns(o, k)
  BY <1>1, WriteIsDecorated DEF WriteRetried, WriteRaises, log_error
<1>3. /\ status = "writing" /\ delivered' = delivered \o SubSeq(chunk, 1, k)
      /\ chunk' = held /\ held' = <<>> /\ UNCHANGED <<gen, produced>>
      /\ status' = IF held = <<>> THEN "returned" ELSE "reading"
  BY <1>2 DEF WriteReturns, SinkAnswers
<1>4. Known' \subseteq Known
  <2>1. Elems(delivered') \subseteq Elems(delivered) \cup Elems(chunk) /\ Elems(held') = {}
    BY <1>0, <1>3, StoreElems, NoElems
  <2> QED
    BY <1>3, <2>1, KnownNext DEF Known
<1>5. NotYetScraped' => NotYetScraped
  BY <1>3 DEF NotYetScraped, loopVars, SnapshotInv, ScrapesInv
<1>6. NoSdiagYet' => NoSdiagYet
  BY <1>3 DEF NoSdiagYet, loopVars
<1> QED
  BY <1>3, <1>4, <1>5, <1>6, QuietSnapshot DEF loopVars

\* A step of the generator that yields nothing.
LEMMA GenSnapshot ==
  ASSUME SMTypeOK, SnapshotInv, UNCHANGED <<loopVars, scrapedIn>>,
         \/ GenStarts /\ task # SlurmTask
         \/ GenEnds
         \/ GenRaises
         \/ \E k \in 0..Len(chunk) : ReadFails(k)
  PROVE  SnapshotInv'
<1>0. {chunk, held, delivered} \subseteq Seq(Record)
  BY DEF SMTypeOK, TypeOK, SinkTypeOK
<1>1. /\ status = "reading" /\ gen' # "fresh" /\ UNCHANGED <<chunk, held, produced>>
      /\ status' \in {"reading", "writing", "returned", "raised"}
      /\ task = SlurmTask => gen' # "active"
  BY DEF GenStarts, GenEnds, GenRaises, ReadFails
<1>2. Elems(delivered') \subseteq Elems(delivered) \cup Elems(chunk)
  <2>1. CASE UNCHANGED delivered
    BY <2>1
  <2>2. ASSUME NEW k \in 0..Len(chunk), ReadFails(k)
        PROVE  Elems(delivered') \subseteq Elems(delivered) \cup Elems(chunk)
    BY <1>0, <2>2, StoreElems DEF ReadFails
  <2> QED
    BY <2>1, <2>2 DEF GenStarts, GenEnds, GenRaises
<1>3. Known' \subseteq Known
  BY <1>1, <1>2, KnownNext DEF Known
<1>4. (NotYetScraped' => NotYetScraped) /\ (NoSdiagYet' => NoSdiagYet)
  BY <1>1 DEF NotYetScraped, NoSdiagYet, loopVars
<1> QED
  BY <1>1, <1>3, <1>4, QuietSnapshot DEF loopVars

\* The scrape of collect_slurm is the first of its cycle.
LEMMA ScrapeSnapshot ==
  ASSUME SMTypeOK, FreshInv, SnapshotInv, CollectSlurmStarts
  PROVE  SnapshotInv'
<1>1. /\ status = "reading" /\ status' = "reading" /\ gen = "fresh" /\ gen' = "active"
      /\ UNCHANGED <<chunk, held, delivered, produced, loop, cycle, task>>
      /\ scrapedIn' = Append(scrapedIn, cycle) /\ task = SlurmTask
  BY DEF CollectSlurmStarts, GenStarts, loopVars
<1>2. scrapedIn \in Seq(Nat) /\ cycle \in Nat
  BY DEF SMTypeOK, TypeOK
<1>3. /\ \A n \in DOMAIN scrapedIn : n \in DOMAIN scrapedIn' /\ scrapedIn'[n] = scrapedIn[n]
      /\ Len(scrapedIn') \in DOMAIN scrapedIn' /\ scrapedIn'[Len(scrapedIn')] = cycle
      /\ \A n \in DOMAIN scrapedIn' : n \in DOMAIN scrapedIn \/ n = Len(scrapedIn')
      /\ \A n \in DOMAIN scrapedIn : scrapedIn[n] \in Nat
  BY <1>1, <1>2
<1>4. \A n \in DOMAIN scrapedIn : scrapedIn[n] < cycle
  BY <1>1 DEF SnapshotInv, ScrapesInv, NotYetScraped
<1>5. ~ NotYetScraped'
  BY <1>1 DEF NotYetScraped, FreshInv, IdleInv
<1>6. ScrapesInv'
  <2>1. \A n \in DOMAIN scrapedIn' : scrapedIn'[n] <= cycle
    BY <1>2, <1>3, <1>4
  <2>2. \A m, n \in DOMAIN scrapedIn' : scrapedIn'[m] = scrapedIn'[n] => m = n
    BY <1>2, <1>3, <1>4 DEF SnapshotInv, ScrapesInv
  <2> QED
    BY <1>1, <1>3, <1>5, <2>1, <2>2 DEF ScrapesInv, FreshIn
<1>7. KnownInv'
  <2>1. Known' = Known /\ (NoSdiagYet' => NoSdiagYet)
    BY <1>1 DEF Known, Elems, NoSdiagYet
  <2> QED
    BY <1>1, <1>3, <2>1 DEF SnapshotInv, KnownInv, FreshIn
<1> QED
  BY <1>6, <1>7 DEF SnapshotInv

\* Yielding a record of the current scrape: an Sdiag record is the first of
\* its cycle.
LEMMA YieldSnapshot ==
  ASSUME SMTypeOK, SnapshotInv, NEW src \in Nat, NEW n \in Sizes, YieldRecord(src, n),
         FreshIn(src, cycle), UNCHANGED <<last_sdiag, scrapedIn>>,
         task = SdiagTask => NoSdiagYet /\ loop # "task",
         task \in {SlurmTask, SdiagTask}
  PROVE  SnapshotInv'
<1> DEFINE r == NewRecord(src, n)
<1>0. TypeOK /\ {chunk, held, delivered, produced} \subseteq Seq(Record) /\ cycle \in Nat
  BY DEF SMTypeOK, TypeOK, SinkTypeOK
<1>1. r \in Record /\ r.src = src /\ r.cycle = cycle /\ r.task = task
  BY <1>0, NewRecordType DEF NewRecord
<1>2. Reads(r) /\ UNCHANGED <<loop, cycle, task>>
  BY DEF YieldRecord
<1> HIDE DEF r
<1>3. /\ status = "reading" /\ gen = "active" /\ gen' = gen /\ delivered' = delivered
      /\ status' \in {"reading", "writing", "raised"}
      /\ produced' = Append(produced, r)
      /\ chunk' \in {chunk, Append(chunk, r)} /\ held' \in {held, <<r>>}
  BY <1>2 DEF Reads, SinkReads, RecordTooLarge, RecordFits, RecordOverflows, Yields
<1>4. Known' \subseteq Known \cup {r}
  <2>1. Elems(chunk') \subseteq Elems(chunk) \cup {r} /\ Elems(held') \subseteq Elems(held) \cup {r}
    BY <1>0, <1>1, <1>3, AppendElems
  <2> QED
    BY <1>3, <2>1, KnownNext DEF Known
<1>5. ScrapesInv'
  BY <1>2, <1>3 DEF SnapshotInv, ScrapesInv, NotYetScraped, FreshIn
<1>6. produced' # <<>>
  BY <1>0, <1>1, <1>3
<1>7. KnownInv'
  <2>1. \A q \in Known : FreshIn(q.src, q.cycle) /\ q.cycle <= cycle
    BY DEF SnapshotInv, KnownInv
  <2>2. FreshIn(r.src, r.cycle) /\ r.cycle <= cycle
    BY <1>0, <1>1
  <2>3. \A x \in Known' : FreshIn(x.src, x.cycle)' /\ x.cycle <= cycle
    <3>1. \A x \in Known' : FreshIn(x.src, x.cycle) /\ x.cycle <= cycle
      BY <1>4, <2>1, <2>2
    <3> QED
      BY <3>1 DEF FreshIn
  <2>4. CASE task = SlurmTask
    <3>1. ~ IsSdiag(r)
      BY <1>1, <2>4 DEF IsSdiag, SlurmTask, SdiagTask
    <3>2. NoSdiagYet' => NoSdiagYet
      BY <1>2, <2>4 DEF NoSdiagYet
    <3> QED
      BY <1>2, <1>4, <2>3, <3>1, <3>2 DEF SnapshotInv, KnownInv
  <2>5. CASE task = SdiagTask
    <3>1. ~ NoSdiagYet'
      BY <1>2, <1>6, <2>5 DEF NoSdiagYet, SlurmTask, SdiagTask
    <3>2. \A q \in Known : IsSdiag(q) => q.cycle < cycle
      BY <2>5 DEF SnapshotInv, KnownInv
    <3>3. \A q \in Known : IsSdiag(q) => q.cycle # r.cycle
      BY <1>0, <1>1, <3>2
    <3> QED
      BY <1>2, <1>4, <2>3, <3>1, <3>3 DEF SnapshotInv, KnownInv
  <2> QED
    BY <2>4, <2>5
<1> QED
  BY <1>5, <1>7 DEF SnapshotInv

\* The loop's own steps: a new cycle has made no scrape, and collect_sdiag is
\* reached only through the end of collect_slurm.
LEMMA LoopSnapshot ==
  ASSUME SMTypeOK, FreshInv, SnapshotInv, UNCHANGED <<last_sdiag, scrapedIn>>,
         StartCycle \/ GetData \/ TaskDone \/ TaskRaised \/ Sleep
  PROVE  SnapshotInv'
<1>0. TypeOK /\ cycle \in Nat /\ \A n \in DOMAIN scrapedIn : scrapedIn[n] \in Nat
  BY DEF SMTypeOK, TypeOK
<1>1. CASE StartCycle
  <2>1. /\ loop = "cycle" /\ loop' = "task" /\ cycle' = cycle + 1 /\ task' = 1
        /\ UNCHANGED <<chunk, held, delivered, gen, status, produced>>
        /\ status = "idle"
    BY <1>1 DEF StartCycle, sinkVars, callVars, FreshInv, IdleInv
  <2>2. Known' = Known
    BY <2>1 DEF Known, Elems
  <2>3. \A n \in DOMAIN scrapedIn : scrapedIn[n] < cycle'
    BY <1>0, <2>1 DEF SnapshotInv, ScrapesInv
  <2>4. ScrapesInv'
    BY <1>0, <2>1, <2>3 DEF SnapshotInv, ScrapesInv
  <2>5. \A r \in Known : r.cycle < cycle' /\ r.cycle <= cycle'
    <3>1. \A r \in Known : r.cycle <= cycle /\ scrapedIn[r.src] = r.cycle /\ r.src \in DOMAIN scrapedIn
      BY DEF SnapshotInv, KnownInv, FreshIn
    <3> QED
      BY <1>0, <2>1, <3>1
  <2>6. KnownInv'
    BY <2>2, <2>5 DEF SnapshotInv, KnownInv, FreshIn
  <2> QED
    BY <2>4, <2>6 DEF SnapshotInv
<1>2. CASE GetData
  <2>1. /\ loop = "task" /\ loop' = "writing" /\ UNCHANGED <<cycle, task, delivered>>
        /\ chunk' = <<>> /\ held' = <<>> /\ gen' = "fresh"
    BY <1>2 DEF GetData, Call
  <2>2. Known' \subseteq Known
    BY <2>1, KnownNext, NoElems DEF Known
  <2>3. (NotYetScraped' => NotYetScraped) /\ (NoSdiagYet' => NoSdiagYet)
    BY <2>1 DEF NotYetScraped, NoSdiagYet
  <2> QED
    BY <2>1, <2>2, <2>3, QuietSnapshot
<1>3. CASE TaskDone
  <2>1. /\ loop = "writing" /\ status' = "idle" /\ UNCHANGED <<cycle, delivered, chunk, held, gen>>
        /\ NextTask
    BY <1>3 DEF TaskDone
  <2>2. \/ task' = task + 1 /\ task < NTasks /\ loop' = "task"
        \/ loop' \in {"sleep", "done"}
    BY <2>1 DEF NextTask
  <2>3. task \in {1, 2} /\ NTasks = 2
    BY <1>0, TwoLazyTasks DEF TypeOK
  <2>4. Known' \subseteq Known
    BY <2>1 DEF Known, Elems
  <2>5. ~ NotYetScraped' /\ (NoSdiagYet' => NoSdiagYet)
    BY <2>1, <2>2, <2>3 DEF NotYetScraped, NoSdiagYet, SlurmTask
  <2> QED
    BY <2>1, <2>4, <2>5, QuietSnapshot DEF SnapshotInv, ScrapesInv
<1>4. CASE TaskRaised \/ Sleep
  <2>1. /\ UNCHANGED <<sinkVars, cycle, task>> /\ loop' \in {"dead", "cycle"}
        /\ loop' = "dead" => loop = "writing"
    BY <1>4 DEF TaskRaised, Sleep
  <2>2. Known' \subseteq Known
    BY <2>1 DEF Known, Elems, sinkVars, callVars
  <2>3. (NotYetScraped' => NotYetScraped) /\ (NoSdiagYet' => NoSdiagYet)
    BY <2>1 DEF NotYetScraped, NoSdiagYet, sinkVars, callVars
  <2> QED
    BY <2>1, <2>2, <2>3, QuietSnapshot DEF SnapshotInv, ScrapesInv, sinkVars, callVars
<1> QED
  BY <1>1, <1>2, <1>3, <1>4

\* The loop delivers slurm_monitor's records at most once and in order.
LEMMA SMOrder == SMSpec => []OrderInv
<1>1. SMInit => OrderInv
  BY DEF SMInit, LoopInit, SinkInit, OrderInv, Increasing, UpTo
<1>2. SMTypeOK /\ OrderInv /\ [SMNext]_smVars => OrderInv'
  <2> SUFFICES ASSUME SMTypeOK, OrderInv, [SMNext]_smVars
               PROVE  OrderInv'
    OBVIOUS
  <2>0. TypeOK /\ last_sdiag \in Nat /\ Len(scrapedIn) \in Nat
    BY DEF SMTypeOK
  <2>1. CASE SMLoopStep
    <3>1. CASE WriteStep
      BY <2>0, <3>1, WritesOrder DEF WriteStep, loopVars
    <3>2. CASE Ended
      BY <3>2 DEF Ended, OrderInv, vars, sinkVars, callVars, loopVars
    <3>3. CASE GetData
      BY <3>3, CallOrder DEF GetData
    <3>4. CASE StartCycle \/ TaskDone \/ TaskRaised \/ Sleep
      BY <3>4, LoopStepOrder DEF LoopStep
    <3> QED
      BY <2>1, <3>1, <3>2, <3>3, <3>4 DEF SMLoopStep
  <2>2. ASSUME NEW n \in Sizes, CollectSlurmYields(n) \/ CollectSdiagYields(n) PROVE OrderInv'
    BY <2>0, <2>2, YieldOrder DEF CollectSlurmYields, CollectSdiagYields
  <2>3. ASSUME NEW k \in 0..Len(chunk), ReadFails(k), UNCHANGED loopVars PROVE OrderInv'
    BY <2>0, <2>3, ReadFailsOrder DEF loopVars
  <2>4. CASE (GenStarts \/ GenEnds \/ GenRaises) /\ UNCHANGED loopVars
    BY <2>4, GenOrder DEF loopVars
  <2>5. CASE UNCHANGED smVars
    BY <2>5 DEF OrderInv, smVars, vars, sinkVars, callVars, loopVars
  <2> QED
    BY <2>1, <2>2, <2>3, <2>4, <2>5 DEF SMNext, SMCollectorStep, CollectSlurmStarts,
       CollectSlurmEnds, CollectSlurmRaises, CollectSdiagStarts, CollectSdiagEnds,
       CollectSdiagReadFails
<1> QED
  BY <1>1, <1>2, SMTypeCorrect, PTL DEF SMSpec

\* Every step keeps the snapshot invariant.
LEMMA SMSnapshot == SMSpec => []SnapshotInv
<1>1. SMInit => SnapshotInv
  BY NoElems DEF SMInit, LoopInit, SinkInit, SnapshotInv, ScrapesInv, KnownInv, Known
<1>2. SMTypeOK /\ FreshInv /\ SnapshotInv /\ [SMNext]_smVars => SnapshotInv'
  <2> SUFFICES ASSUME SMTypeOK, FreshInv, SnapshotInv, [SMNext]_smVars
               PROVE  SnapshotInv'
    OBVIOUS
  <2>0. last_sdiag \in Nat /\ Len(scrapedIn) \in Nat
    BY DEF SMTypeOK
  <2>1. CASE SMLoopStep
    <3>1. CASE WriteStep
      BY <2>1, <3>1, WritesSnapshot DEF SMLoopStep, WriteStep
    <3>2. CASE Ended
      BY <2>1, <3>2 DEF SMLoopStep, Ended, SnapshotInv, ScrapesInv, KnownInv, Known, Elems,
                        NotYetScraped, NoSdiagYet, FreshIn, vars, sinkVars, callVars, loopVars
    <3>3. CASE StartCycle \/ GetData \/ TaskDone \/ TaskRaised \/ Sleep
      BY <2>1, <3>3, LoopSnapshot DEF SMLoopStep
    <3> QED
      BY <2>1, <3>1, <3>2, <3>3 DEF SMLoopStep
  <2>2. CASE CollectSlurmStarts
    BY <2>2, ScrapeSnapshot
  <2>3. ASSUME NEW n \in Sizes, CollectSlurmYields(n) PROVE SnapshotInv'
    <3>1. /\ task = SlurmTask /\ task # SdiagTask /\ YieldRecord(Len(scrapedIn), n)
          /\ UNCHANGED <<last_sdiag, scrapedIn>>
      BY <2>3 DEF CollectSlurmYields, SlurmTask, SdiagTask
    <3>2. status = "reading" /\ gen = "active"
      BY <3>1 DEF YieldRecord, Reads, SinkReads, RecordTooLarge, RecordFits, RecordOverflows, Yields
    <3>3. FreshIn(Len(scrapedIn), cycle)
      BY <3>1, <3>2 DEF SnapshotInv, ScrapesInv
    <3> QED
      BY <2>0, <3>1, <3>3, YieldSnapshot
  <2>4. ASSUME NEW n \in Sizes, CollectSdiagYields(n) PROVE SnapshotInv'
    <3>1. /\ task = SdiagTask /\ last_sdiag # 0 /\ YieldRecord(last_sdiag, n)
          /\ produced = <<>> /\ UNCHANGED <<last_sdiag, scrapedIn>>
      BY <2>4 DEF CollectSdiagYields
    <3>2. status = "reading"
      BY <3>1 DEF YieldRecord, Reads, SinkReads, RecordTooLarge, RecordFits, RecordOverflows, Yields
    <3>3. FreshIn(last_sdiag, cycle)
      BY <3>1, <3>2 DEF FreshInv, CacheInv, IdleInv, SlurmTask, SdiagTask
    <3>4. NoSdiagYet /\ loop # "task"
      BY <3>1, <3>2 DEF FreshInv, IdleInv, NoSdiagYet
    <3> QED
      BY <2>0, <3>1, <3>3, <3>4, YieldSnapshot
  <2>5. CASE CollectSlurmEnds \/ CollectSlurmRaises
    BY <2>5, GenSnapshot DEF CollectSlurmEnds, CollectSlurmRaises
  <2>6. CASE CollectSdiagStarts \/ CollectSdiagEnds \/ CollectSdiagReadFails
    BY <2>6, GenSnapshot DEF CollectSdiagStarts, CollectSdiagEnds, CollectSdiagReadFails,
                             SlurmTask, SdiagTask
  <2>7. CASE UNCHANGED smVars
    BY <2>7 DEF SnapshotInv, ScrapesInv, KnownInv, Known, Elems, NotYetScraped, NoSdiagYet,
                FreshIn, smVars, vars, sinkVars, callVars, loopVars
  <2> QED
    BY <2>1, <2>2, <2>3, <2>4, <2>5, <2>6, <2>7 DEF SMNext, SMCollectorStep
<1> QED
  BY <1>1, <1>2, SMTypeCorrect, SMFresh, PTL DEF SMSpec

\* What a cycle publishes is one snapshot of Slurm: at most one Sdiag row, and
\* rows and metrics of the same scrape, whichever of the writes failed, for
\* every chunk size, number of retries and cycles (collect_slurm,
\* collect_sdiag, slurm_monitor.py:271-313, 362-380).
THEOREM CycleIsAlwaysOneScrape == SMSpec => []CycleIsOneScrape
<1>1. SMTypeOK /\ OrderInv /\ SnapshotInv => CycleIsOneScrape
  <2> SUFFICES ASSUME SMTypeOK, OrderInv, SnapshotInv
               PROVE  CycleIsOneScrape
    OBVIOUS
  <2>1. delivered \in Seq(Record)
    BY DEF SMTypeOK, TypeOK, SinkTypeOK
  <2>2. \A i \in DOMAIN delivered : delivered[i] \in Known
    BY DEF Known, Elems
  <2>3. \A i \in DOMAIN delivered : delivered[i].id \in Nat
    BY <2>1, IdType
  <2>4. OneSdiagPerCycle
    <3> SUFFICES ASSUME NEW i \in DOMAIN delivered, NEW j \in DOMAIN delivered,
                        IsSdiag(delivered[i]), IsSdiag(delivered[j]),
                        delivered[i].cycle = delivered[j].cycle
                 PROVE  i = j
      BY DEF OneSdiagPerCycle
    <3>1. delivered[i].id = delivered[j].id
      BY <2>2 DEF SnapshotInv, KnownInv
    <3>2. i < j => delivered[i].id < delivered[j].id
      BY DEF OrderInv, Increasing
    <3>3. j < i => delivered[j].id < delivered[i].id
      BY DEF OrderInv, Increasing
    <3>4. i \in Nat /\ j \in Nat
      BY <2>1
    <3> QED
      BY <2>3, <3>1, <3>2, <3>3, <3>4
  <2>5. SharedScrape
    <3>1. \A i \in DOMAIN delivered :
            /\ delivered[i].src \in DOMAIN scrapedIn
            /\ scrapedIn[delivered[i].src] = delivered[i].cycle
      BY <2>2 DEF SnapshotInv, KnownInv, FreshIn
    <3> QED
      BY <3>1 DEF SharedScrape, SnapshotInv, ScrapesInv
  <2> QED
    BY <2>4, <2>5 DEF CycleIsOneScrape
<1> QED
  BY <1>1, SMTypeCorrect, SMOrder, SMSnapshot, PTL
=============================================================================
