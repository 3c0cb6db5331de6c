------------------------ MODULE DataCollectionProofs ------------------------
(***************************************************************************)
(* Theorems about run_data_collection_loop, for every number of tasks,     *)
(* chunk size, number of retries and cycles.                               *)
(***************************************************************************)
EXTENDS DataCollection, SinkWriteProofs

\* Moving to the next task keeps the loop's variables in their types.
LEMMA NextTaskType ==
  ASSUME TypeOK, NextTask
  PROVE  task' \in 1..NTasks /\ loop' \in {"task", "sleep", "done"}
BY DataCollectionAssumption DEF TypeOK, NextTask

\* A record yielded by the current task is a record.
LEMMA NewRecordType ==
  ASSUME TypeOK, NEW src \in Nat, NEW n \in Sizes
  PROVE  NewRecord(src, n) \in Record
BY DataCollectionAssumption DEF TypeOK, NewRecord, Record

\* The loop's own steps preserve the type invariant.
LEMMA LoopStepType ==
  ASSUME TypeOK, LoopStep \/ GetData
  PROVE  TypeOK'
<1> USE DataCollectionAssumption
<1>0. SinkTypeOK
  BY DEF TypeOK
<1>1. CASE StartCycle
  BY <1>1 DEF TypeOK, StartCycle, sinkVars, callVars, SinkTypeOK
<1>2. CASE GetDataNone
  BY <1>2, NextTaskType DEF TypeOK, GetDataNone, sinkVars, callVars, SinkTypeOK
<1>3. CASE GetDataRaises
  BY <1>3 DEF TypeOK, GetDataRaises, sinkVars, callVars, SinkTypeOK
<1>4. CASE TaskDone
  BY <1>4, NextTaskType DEF TypeOK, TaskDone, SinkTypeOK, Statuses
<1>5. CASE TaskRaised
  BY <1>5 DEF TypeOK, TaskRaised, sinkVars, callVars, SinkTypeOK
<1>6. CASE Sleep
  BY <1>6 DEF TypeOK, Sleep, sinkVars, callVars, SinkTypeOK
<1>7. CASE GetData
  <2>1. (task \in Routed) \in BOOLEAN
    OBVIOUS
  <2>2. SinkTypeOK'
    BY <1>0, <1>7, <2>1, CallType DEF GetData
  <2> QED
    BY <1>7, <2>2 DEF TypeOK, GetData
<1> QED
  BY <1>1, <1>2, <1>3, <1>4, <1>5, <1>6, <1>7 DEF LoopStep

\* A step of the call that leaves the loop alone preserves the type invariant.
LEMMA InCallType ==
  ASSUME TypeOK, SinkTypeOK', UNCHANGED loopVars
  PROVE  TypeOK'
BY DEF TypeOK, loopVars

\* Yielding a record preserves the type invariant.
LEMMA YieldType ==
  ASSUME TypeOK, NEW src \in Nat, NEW n \in Sizes, YieldRecord(src, n)
  PROVE  TypeOK'
<1>1. SinkTypeOK'
  BY NewRecordType, ReadsType DEF TypeOK, YieldRecord
<1> QED
  BY <1>1 DEF TypeOK, YieldRecord

\* Every state of the loop has its type: the task index stays within
\* data_collection_tasks and the retry index within the schedule, whatever
\* tasks, sink and collectors do (monitor.py:147-181).
THEOREM TypeCorrect == LoopSpec => []TypeOK
<1>1. LoopInit => TypeOK
  BY SinkInitType, DataCollectionAssumption DEF LoopInit, TypeOK
<1>2. TypeOK /\ [LoopNext]_vars => TypeOK'
  <2> SUFFICES ASSUME TypeOK, [LoopNext]_vars
               PROVE  TypeOK'
    OBVIOUS
  <2>0. SinkTypeOK
    BY DEF TypeOK
  <2>1. CASE WriteStep
    BY <2>0, <2>1, WritesType, InCallType DEF WriteStep
  <2>2. CASE AnyCollectorStep
    <3>1. CASE (GenStarts \/ GenEnds \/ GenRaises) /\ UNCHANGED loopVars
      BY <2>0, <3>1, GenStartsType, GenEndsType, GenRaisesType, InCallType
    <3>2. ASSUME NEW n \in Sizes, YieldRecord(0, n) PROVE TypeOK'
      BY <3>2, YieldType
    <3>3. ASSUME NEW k \in 0..Len(chunk), ReadFails(k), UNCHANGED loopVars PROVE TypeOK'
      BY <2>0, <3>3, ReadFailsType, InCallType
    <3> QED
      BY <2>2, <3>1, <3>2, <3>3 DEF AnyCollectorStep
  <2>3. CASE UNCHANGED vars
    BY <2>3 DEF TypeOK, SinkTypeOK, vars, sinkVars, callVars, loopVars
  <2> QED
    BY <2>1, <2>2, <2>3, LoopStepType DEF LoopNext, Ended
<1> QED
  BY <1>1, <1>2, PTL DEF LoopSpec

-----------------------------------------------------------------------------
(***************************************************************************)
(* At most once, in order.  The inductive invariant adds to the property   *)
(* what is still on its way: the stored records, the chunk being collected *)
(* or written and the record held back have increasing identities, in this *)
(* order, and none is newer than the record produced last.                 *)
(***************************************************************************)
Increasing(s) == \A i, j \in DOMAIN s : i < j => s[i].id < s[j].id

Below(s, t) == \A i \in DOMAIN s, j \in DOMAIN t : s[i].id < t[j].id

UpTo(s, n) == \A i \in DOMAIN s : s[i].id <= n

OrderInv ==
  /\ Increasing(delivered)
  /\ UpTo(delivered, lastId)
  /\ status \in {"reading", "writing"} =>
       /\ Increasing(chunk) /\ UpTo(chunk, lastId) /\ Below(delivered, chunk)
       /\ UpTo(held, lastId) /\ Below(delivered, held) /\ Below(chunk, held)
       /\ held = <<>> \/ Len(held) = 1
  /\ status = "reading" => held = <<>>

\* The identities of records are numbers.
LEMMA IdType ==
  ASSUME NEW s \in Seq(Record)
  PROVE  \A i \in DOMAIN s : s[i].id \in Nat
<1>1. \A i \in DOMAIN s : s[i] \in Record
  OBVIOUS
<1> QED
  BY <1>1 DEF Record

\* A part of a chunk stored behind older records keeps the order.
LEMMA StoreOrder ==
  ASSUME NEW s \in Seq(Record), NEW t \in Seq(Record), NEW n \in Nat, NEW k \in 0..Len(t),
         Increasing(s), Increasing(t), Below(s, t), UpTo(s, n), UpTo(t, n)
  PROVE  /\ Increasing(s \o SubSeq(t, 1, k))
         /\ UpTo(s \o SubSeq(t, 1, k), n)
<1> DEFINE u == s \o SubSeq(t, 1, k)
<1>1. SubSeq(t, 1, k) \in Seq(Record) /\ Len(SubSeq(t, 1, k)) = k
  OBVIOUS
<1>2. \A i \in 1..k : SubSeq(t, 1, k)[i] = t[i]
  OBVIOUS
<1>3. u \in Seq(Record) /\ Len(u) = Len(s) + k
  BY <1>1
<1>4. \A i \in DOMAIN u : u[i] = IF i <= Len(s) THEN s[i] ELSE t[i - Len(s)]
  BY <1>1, <1>2, <1>3
<1> HIDE DEF u
<1>a. ASSUME NEW i \in DOMAIN u
      PROVE  \/ i \in DOMAIN s /\ u[i] = s[i]
             \/ i > Len(s) /\ (i - Len(s)) \in DOMAIN t /\ u[i] = t[i - Len(s)]
  BY <1>3, <1>4
<1>7. Increasing(u)
  <2> SUFFICES ASSUME NEW i \in DOMAIN u, NEW j \in DOMAIN u, i < j
               PROVE  u[i].id < u[j].id
    BY DEF Increasing
  <2>0. i \in Nat /\ j \in Nat /\ Len(s) \in Nat
    BY <1>3
  <2>1. CASE j <= Len(s)
    BY <1>a, <2>0, <2>1 DEF Increasing
  <2>2. CASE i <= Len(s) /\ j > Len(s)
    <3>1. i \in DOMAIN s /\ u[i] = s[i]
      BY <1>a, <2>0, <2>2
    <3>2. (j - Len(s)) \in DOMAIN t /\ u[j] = t[j - Len(s)]
      BY <1>a, <2>0, <2>2
    <3> QED
      BY <3>1, <3>2 DEF Below
  <2>3. CASE i > Len(s)
    <3>1. (i - Len(s)) \in DOMAIN t /\ u[i] = t[i - Len(s)]
      BY <1>a, <2>0, <2>3
    <3>2. (j - Len(s)) \in DOMAIN t /\ u[j] = t[j - Len(s)]
      BY <1>a, <2>0, <2>3
    <3>3. i - Len(s) < j - Len(s)
      BY <2>0
    <3> QED
      BY <3>1, <3>2, <3>3 DEF Increasing
  <2> QED
    BY <2>0, <2>1, <2>2, <2>3
<1>8. UpTo(u, n)
  BY <1>a DEF UpTo
<1> QED
  BY <1>7, <1>8 DEF u

\* With records held back: what is stored of the chunk stays older than they.
LEMMA StoreBelow ==
  ASSUME NEW s \in Seq(Record), NEW t \in Seq(Record), NEW h \in Seq(Record), NEW k \in 0..Len(t),
         Below(s, h), Below(t, h)
  PROVE  Below(s \o SubSeq(t, 1, k), h)
<1> DEFINE u == s \o SubSeq(t, 1, k)
<1>1. SubSeq(t, 1, k) \in Seq(Record) /\ Len(SubSeq(t, 1, k)) = k
  OBVIOUS
<1>2. \A i \in 1..k : SubSeq(t, 1, k)[i] = t[i]
  OBVIOUS
<1>3. u \in Seq(Record) /\ Len(u) = Len(s) + k
  BY <1>1
<1>4. \A i \in DOMAIN u : u[i] = IF i <= Len(s) THEN s[i] ELSE t[i - Len(s)]
  BY <1>1, <1>2, <1>3
<1> HIDE DEF u
<1>5. ASSUME NEW i \in DOMAIN u
      PROVE  \/ i \in DOMAIN s /\ u[i] = s[i]
             \/ (i - Len(s)) \in DOMAIN t /\ u[i] = t[i - Len(s)]
  BY <1>3, <1>4
<1>6. Below(u, h)
  BY <1>5 DEF Below
<1> QED
  BY <1>6 DEF u

\* A record newer than everything in a sequence can be appended to it.
LEMMA AppendOrder ==
  ASSUME NEW s \in Seq(Record), NEW n \in Nat, NEW r \in Record, r.id = n + 1,
         Increasing(s), UpTo(s, n)
  PROVE  Increasing(Append(s, r)) /\ UpTo(Append(s, r), n + 1)
<1>1. \A i \in DOMAIN s : s[i].id \in Nat
  BY IdType
<1>2. /\ Append(s, r) \in Seq(Record)
      /\ Len(Append(s, r)) = Len(s) + 1
      /\ \A i \in DOMAIN Append(s, r) : Append(s, r)[i] = IF i <= Len(s) THEN s[i] ELSE r
  OBVIOUS
<1>3. Increasing(Append(s, r))
  BY <1>1, <1>2 DEF Increasing, UpTo
<1>4. UpTo(Append(s, r), n + 1)
  BY <1>1, <1>2 DEF UpTo
<1> QED
  BY <1>3, <1>4

\* A call starts with nothing on its way.
LEMMA CallOrder ==
  ASSUME OrderInv, NEW b, Call(b), UNCHANGED lastId
  PROVE  OrderInv'
BY DEF OrderInv, Call, Increasing, UpTo, Below

\* Yielding a record keeps the order.
LEMMA YieldOrder ==
  ASSUME TypeOK, OrderInv, NEW src \in Nat, NEW n \in Sizes, YieldRecord(src, n)
  PROVE  OrderInv'
<1> DEFINE r == NewRecord(src, n)
<1>1. r \in Record /\ r.id = lastId + 1
  BY NewRecordType DEF NewRecord
<1>2. lastId \in Nat /\ lastId' = lastId + 1
  BY DEF TypeOK, YieldRecord
<1>3. Reads(r)
  BY DEF YieldRecord
<1> HIDE DEF r
<1>4. {chunk, held, delivered} \subseteq Seq(Record)
  BY DEF TypeOK, SinkTypeOK
<1>5. status = "reading" /\ delivered' = delivered /\ held = <<>>
  BY <1>3 DEF OrderInv, Reads, SinkReads, RecordTooLarge, RecordFits, RecordOverflows, Yields
<1>6. UpTo(delivered, lastId') /\ UpTo(chunk, lastId')
  <2>1. /\ \A i \in DOMAIN delivered : delivered[i].id \in Nat
        /\ \A i \in DOMAIN chunk : chunk[i].id \in Nat
    BY <1>4, IdType
  <2> QED
    BY <1>2, <1>5, <2>1 DEF OrderInv, UpTo
<1>7. CASE SinkReads(r) \/ RecordFits(r)
  <2>1. chunk' = Append(chunk, r) /\ held' = <<>> /\ status' = "reading"
    BY <1>5, <1>7 DEF SinkReads, RecordFits
  <2>2. Increasing(chunk') /\ UpTo(chunk', lastId')
    BY <1>1, <1>2, <1>4, <1>5, <2>1, AppendOrder DEF OrderInv
  <2>3. Below(delivered, chunk')
    <3>1. \A i \in DOMAIN delivered : delivered[i].id < r.id
      <4>1. \A i \in DOMAIN delivered : delivered[i].id \in Nat
        BY <1>4, IdType
      <4> QED
        BY <1>1, <1>2, <4>1 DEF OrderInv, UpTo
    <3>2. \A i \in DOMAIN chunk' : chunk'[i] = r \/ (i \in DOMAIN chunk /\ chunk'[i] = chunk[i])
      BY <1>1, <1>4, <2>1
    <3> QED
      BY <1>5, <3>1, <3>2 DEF OrderInv, Below
  <2> QED
    BY <1>5, <1>6, <2>1, <2>2, <2>3 DEF OrderInv, UpTo, Below
<1>8. CASE RecordTooLarge(r)
  BY <1>5, <1>6, <1>8 DEF OrderInv, RecordTooLarge
<1>9. CASE RecordOverflows(r)
  <2>1. chunk' = chunk /\ held' = <<r>> /\ status' = "writing"
    BY <1>9 DEF RecordOverflows
  <2>2. /\ \A i \in DOMAIN delivered : delivered[i].id \in Nat
        /\ \A i \in DOMAIN chunk : chunk[i].id \in Nat
    BY <1>4, IdType
  <2>3. Below(delivered, held') /\ Below(chunk, held') /\ UpTo(held', lastId')
    BY <1>1, <1>2, <1>5, <2>1, <2>2 DEF OrderInv, Below, UpTo
  <2> QED
    BY <1>1, <1>5, <1>6, <2>1, <2>3 DEF OrderInv
<1> QED
  BY <1>3, <1>7, <1>8, <1>9 DEF Reads

\* The sink's answer keeps the order: log_error allows no second try.
LEMMA WritesOrder ==
  ASSUME TypeOK, OrderInv, Writes, UNCHANGED lastId
  PROVE  OrderInv'
<1>1. PICK o \in Outcomes, k \in 0..Len(chunk) :
        WriteReturns(o, k) \/ WriteRetried(o, k) \/ WriteRaises(o, k)
  BY DEF Writes
<1>2. WriteReturns(o, k)
  BY <1>1, WriteIsDecorated DEF WriteRetried, WriteRaises, log_error
<1>3. {chunk, held, delivered} \subseteq Seq(Record) /\ lastId \in Nat
  BY DEF TypeOK, SinkTypeOK
<1>4. status = "writing" /\ delivered' = delivered \o SubSeq(chunk, 1, k)
      /\ chunk' = held /\ held' = <<>> /\ status' \in {"returned", "reading"}
  BY <1>2 DEF WriteReturns, SinkAnswers
<1>5. Increasing(delivered') /\ UpTo(delivered', lastId)
  BY <1>3, <1>4, StoreOrder DEF OrderInv
<1>6. Below(delivered', chunk')
  BY <1>3, <1>4, StoreBelow DEF OrderInv
<1>7. Increasing(chunk')
  BY <1>3, <1>4 DEF OrderInv, Increasing
<1>8. UpTo(chunk', lastId) /\ UpTo(held', lastId)
  BY <1>4 DEF OrderInv, UpTo
<1>9. Below(delivered', held') /\ Below(chunk', held')
  BY <1>4 DEF Below
<1>10. OrderInv' = ( /\ Increasing(delivered')
                     /\ UpTo(delivered', lastId')
                     /\ status' \in {"reading", "writing"} =>
                          /\ Increasing(chunk') /\ UpTo(chunk', lastId') /\ Below(delivered', chunk')
                          /\ UpTo(held', lastId') /\ Below(delivered', held') /\ Below(chunk', held')
                          /\ held' = <<>> \/ Len(held') = 1
                     /\ status' = "reading" => held' = <<>> )
  BY DEF OrderInv, Increasing, UpTo, Below
<1> QED
  BY <1>4, <1>5, <1>6, <1>7, <1>8, <1>9, <1>10

\* A failure inside write keeps the order.
LEMMA ReadFailsOrder ==
  ASSUME TypeOK, OrderInv, NEW k, ReadFails(k), UNCHANGED lastId
  PROVE  OrderInv'
<1>1. {chunk, held, delivered} \subseteq Seq(Record) /\ lastId \in Nat
  BY DEF TypeOK, SinkTypeOK
<1>2. /\ status = "reading" /\ status' = "returned"
      /\ k \in 0..Len(chunk) /\ delivered' = delivered \o SubSeq(chunk, 1, k)
  BY WriteIsDecorated DEF ReadFails, log_error
<1>3. Increasing(delivered') /\ UpTo(delivered', lastId)
  BY <1>1, <1>2, StoreOrder DEF OrderInv
<1> QED
  BY <1>2, <1>3 DEF OrderInv

\* The end or failure of the generator under the chunker keeps the order.
LEMMA GenOrder ==
  ASSUME OrderInv, GenStarts \/ GenEnds \/ GenRaises, UNCHANGED lastId
  PROVE  OrderInv'
<1>1. CASE GenStarts
  BY <1>1 DEF OrderInv, GenStarts
<1>2. CASE GenEnds
  BY <1>2 DEF OrderInv, GenEnds
<1>3. CASE GenRaises
  BY <1>3 DEF OrderInv, GenRaises
<1> QED
  BY <1>1, <1>2, <1>3

\* Between calls nothing is on its way.
LEMMA LoopStepOrder ==
  ASSUME OrderInv, LoopStep
  PROVE  OrderInv'
<1>1. CASE TaskDone
  BY <1>1 DEF OrderInv, TaskDone
<1>2. CASE ~TaskDone
  <2>1. UNCHANGED <<sinkVars, lastId>>
    BY <1>2 DEF LoopStep, StartCycle, GetDataNone, GetDataRaises, TaskRaised, Sleep
  <2> QED
    BY <2>1 DEF OrderInv, sinkVars, callVars
<1> QED
  BY <1>1, <1>2

\* Records reach the sink in the order they were produced and none twice, for
\* every collector, sink, chunk size and number of retries (monitor.py:139).
THEOREM DeliversAtMostOnce == LoopSpec => []AtMostOnceInOrder
<1>1. LoopInit => OrderInv
  BY DEF LoopInit, SinkInit, OrderInv, Increasing, UpTo
<1>2. TypeOK /\ OrderInv /\ [LoopNext]_vars => OrderInv'
  <2> SUFFICES ASSUME TypeOK, OrderInv, [LoopNext]_vars
               PROVE  OrderInv'
    OBVIOUS
  <2>1. CASE WriteStep
    BY <2>1, WritesOrder DEF WriteStep, loopVars
  <2>2. CASE AnyCollectorStep
    <3>1. CASE (GenStarts \/ GenEnds \/ GenRaises) /\ UNCHANGED loopVars
      BY <3>1, GenOrder DEF loopVars
    <3>2. ASSUME NEW n \in Sizes, YieldRecord(0, n) PROVE OrderInv'
      BY <3>2, YieldOrder
    <3>3. ASSUME NEW k \in 0..Len(chunk), ReadFails(k), UNCHANGED loopVars PROVE OrderInv'
      BY <3>3, ReadFailsOrder DEF loopVars
    <3> QED
      BY <2>2, <3>1, <3>2, <3>3 DEF AnyCollectorStep
  <2>3. CASE UNCHANGED vars
    BY <2>3 DEF OrderInv, vars, sinkVars, callVars, loopVars
  <2>4. CASE GetData
    BY <2>4, CallOrder DEF GetData
  <2> QED
    BY <2>1, <2>2, <2>3, <2>4, LoopStepOrder DEF LoopNext, Ended
<1>3. OrderInv => AtMostOnceInOrder
  BY DEF OrderInv, Increasing, AtMostOnceInOrder
<1> QED
  BY <1>1, <1>2, <1>3, TypeCorrect, PTL DEF LoopSpec

-----------------------------------------------------------------------------
(***************************************************************************)
(* Only the collector can end the loop: an exception that leaves a call is *)
(* always the generator's, or the chunker's about a record.                *)
(***************************************************************************)
CollectorAtFault ==
  gen = "failed" \/ \E i \in DOMAIN produced : TooLarge(produced[i])

FaultInv ==
  /\ status = "raised" => CollectorAtFault
  /\ loop = "dead" => status = "raised" \/ (status = "idle" /\ task \in Eager)
  /\ loop = "task" => status = "idle"

\* Yielding a record keeps FaultInv.
LEMMA YieldFault ==
  ASSUME TypeOK, FaultInv, NEW src \in Nat, NEW n \in Sizes, YieldRecord(src, n)
  PROVE  FaultInv'
<1> DEFINE r == NewRecord(src, n)
<1>1. r \in Record
  BY NewRecordType
<1>2. Reads(r) /\ UNCHANGED <<loop, task>>
  BY DEF YieldRecord
<1> HIDE DEF r
<1>3. status = "reading"
  BY <1>2 DEF Reads, SinkReads, RecordTooLarge, RecordFits, RecordOverflows, Yields
<1>4. loop \notin {"dead", "task"}
  BY <1>3 DEF FaultInv
<1>5. CASE RecordTooLarge(r)
  <2>1. produced' = Append(produced, r) /\ TooLarge(r) /\ produced \in Seq(Record) /\ limit' = limit
    BY <1>5 DEF RecordTooLarge, Yields, TypeOK, SinkTypeOK
  <2>2. Len(produced) + 1 \in DOMAIN produced' /\ produced'[Len(produced) + 1] = r
    BY <1>1, <2>1
  <2>3. CollectorAtFault'
    BY <2>1, <2>2 DEF CollectorAtFault, TooLarge
  <2> QED
    BY <1>2, <1>4, <2>3 DEF FaultInv
<1>6. CASE ~RecordTooLarge(r)
  <2>1. status' # "raised"
    BY <1>2, <1>3, <1>6 DEF Reads, SinkReads, RecordFits, RecordOverflows
  <2> QED
    BY <1>2, <1>4, <2>1 DEF FaultInv
<1> QED
  BY <1>5, <1>6

\* A failing sink does not make a call raise.
LEMMA WritesFault ==
  ASSUME FaultInv, Writes \/ (\E k \in 0..Len(chunk) : ReadFails(k)), UNCHANGED loopVars
  PROVE  FaultInv'
<1>1. status \in {"writing", "reading"} /\ status' # "raised"
  <2>1. CASE Writes
    <3>1. PICK o \in Outcomes, k \in 0..Len(chunk) :
            WriteReturns(o, k) \/ WriteRetried(o, k) \/ WriteRaises(o, k)
      BY <2>1 DEF Writes
    <3>2. WriteReturns(o, k)
      BY <3>1, WriteIsDecorated DEF WriteRetried, WriteRaises, log_error
    <3> QED
      BY <3>2 DEF WriteReturns
  <2>2. CASE \E k \in 0..Len(chunk) : ReadFails(k)
    BY <2>2, WriteIsDecorated DEF ReadFails, log_error
  <2> QED
    BY <2>1, <2>2
<1> QED
  BY <1>1 DEF FaultInv, loopVars

\* The generator's own steps keep FaultInv: when it raises it is at fault.
LEMMA GenFault ==
  ASSUME FaultInv, GenStarts \/ GenEnds \/ GenRaises, UNCHANGED loopVars
  PROVE  FaultInv'
<1>1. CASE GenStarts
  BY <1>1 DEF FaultInv, GenStarts, loopVars
<1>2. CASE GenEnds
  BY <1>2 DEF FaultInv, GenEnds, loopVars
<1>3. CASE GenRaises
  BY <1>3 DEF FaultInv, GenRaises, loopVars, CollectorAtFault
<1> QED
  BY <1>1, <1>2, <1>3

\* A sink that fails, however often, never ends the loop (monitor.py:139).
THEOREM SinkNeverEndsLoop == LoopSpec => []SinkCannotEndLoop
<1> DEFINE Idle == loop \in {"cycle", "task", "sleep", "done"} => status = "idle"
<1>1. LoopInit => FaultInv /\ Idle
  BY DEF LoopInit, SinkInit, FaultInv
<1>2. TypeOK /\ FaultInv /\ Idle /\ [LoopNext]_vars => FaultInv' /\ Idle'
  <2> SUFFICES ASSUME TypeOK, FaultInv, Idle, [LoopNext]_vars
               PROVE  FaultInv' /\ Idle'
    OBVIOUS
  <2>1. CASE LoopStep
    <3>1. CASE StartCycle
      BY <3>1 DEF StartCycle, FaultInv, CollectorAtFault, TooLarge, sinkVars, callVars
    <3>2. CASE GetDataNone
      BY <3>2, NextTaskType DEF GetDataNone, FaultInv, CollectorAtFault, TooLarge, sinkVars, callVars
    <3>3. CASE GetDataRaises
      BY <3>3 DEF GetDataRaises, FaultInv, CollectorAtFault, TooLarge, sinkVars, callVars
    <3>4. CASE TaskDone
      BY <3>4, NextTaskType DEF TaskDone, FaultInv
    <3>5. CASE TaskRaised
      BY <3>5 DEF TaskRaised, FaultInv, CollectorAtFault, TooLarge, sinkVars, callVars
    <3>6. CASE Sleep
      BY <3>6 DEF Sleep, FaultInv, CollectorAtFault, TooLarge, sinkVars, callVars
    <3> QED
      BY <2>1, <3>1, <3>2, <3>3, <3>4, <3>5, <3>6 DEF LoopStep
  <2>2. CASE GetData
    BY <2>2 DEF GetData, Call, FaultInv
  <2>3. CASE WriteStep
    <3>1. loop \notin {"cycle", "task", "sleep", "done"}
      BY <2>3 DEF WriteStep, Writes, WriteReturns, WriteRetried, WriteRaises
    <3> QED
      BY <2>3, <3>1, WritesFault DEF WriteStep, loopVars
  <2>4. CASE AnyCollectorStep
    <3>1. CASE (GenStarts \/ GenEnds \/ GenRaises) /\ UNCHANGED loopVars
      <4>1. loop \notin {"cycle", "task", "sleep", "done"}
        BY <3>1 DEF GenStarts, GenEnds, GenRaises
      <4> QED
        BY <3>1, <4>1, GenFault DEF loopVars
    <3>2. ASSUME NEW n \in Sizes, YieldRecord(0, n) PROVE FaultInv' /\ Idle'
      <4>1. status = "reading" /\ UNCHANGED loop
        BY <3>2 DEF YieldRecord, Reads, SinkReads, RecordTooLarge, RecordFits,
                    RecordOverflows, Yields
      <4> QED
        BY <3>2, <4>1, YieldFault
    <3>3. ASSUME NEW k \in 0..Len(chunk), ReadFails(k), UNCHANGED loopVars
          PROVE  FaultInv' /\ Idle'
      <4>1. loop \notin {"cycle", "task", "sleep", "done"}
        BY <3>3 DEF ReadFails
      <4> QED
        BY <3>3, <4>1, WritesFault DEF loopVars
    <3> QED
      BY <2>4, <3>1, <3>2, <3>3 DEF AnyCollectorStep
  <2>5. CASE UNCHANGED vars
    BY <2>5 DEF FaultInv, CollectorAtFault, TooLarge, vars, sinkVars, callVars, loopVars
  <2> QED
    BY <2>1, <2>2, <2>3, <2>4, <2>5 DEF LoopNext, Ended
<1>3. FaultInv => SinkCannotEndLoop
  BY DEF FaultInv, CollectorAtFault, SinkCannotEndLoop
<1> QED
  BY <1>1, <1>2, <1>3, TypeCorrect, PTL DEF LoopSpec
=============================================================================
