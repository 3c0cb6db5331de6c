-------------------------- MODULE SinkWriteProofs --------------------------
(***************************************************************************)
(* Theorems about one call of write_to_sink_with_retries, for every chunk  *)
(* size, number of retries, set of record sizes and bound.  The lemmas say *)
(* what each step preserves and are reused for the loop around the call.   *)
(***************************************************************************)
EXTENDS SinkWrite, FiniteSetTheorems, WellFoundedInduction, TLAPS

\* The state before a call has its type.
LEMMA SinkInitType ==
  ASSUME SinkInit
  PROVE  SinkTypeOK
<1>1. routed \in BOOLEAN /\ limit \in Limits
  BY Zenon DEF SinkInit
<1>2. /\ status \in Statuses
      /\ gen \in {"fresh", "active", "exhausted", "failed"}
      /\ tries \in 0..Retries
      /\ bytes \in Nat /\ nchunks \in Nat
      /\ outcome \in Outcomes \cup {"none"}
  BY SinkWriteAssumption DEF SinkInit, Statuses, Outcomes, BracketSize
<1>3. {chunk, held, produced, offered, delivered} \subseteq Seq(Record)
  BY DEF SinkInit
<1> QED
  BY <1>1, <1>2, <1>3 DEF SinkTypeOK

\* A call preserves the type invariant.
LEMMA CallType ==
  ASSUME SinkTypeOK, NEW b \in BOOLEAN, Call(b)
  PROVE  SinkTypeOK'
BY SinkWriteAssumption DEF SinkTypeOK, Call, Statuses, Outcomes, BracketSize

\* The generator's first step preserves the type invariant.
LEMMA GenStartsType ==
  ASSUME SinkTypeOK, GenStarts
  PROVE  SinkTypeOK'
BY DEF SinkTypeOK, GenStarts

\* Reading a record preserves the type invariant.
LEMMA ReadsType ==
  ASSUME SinkTypeOK, NEW r \in Record, Reads(r)
  PROVE  SinkTypeOK'
<1> USE SinkWriteAssumption DEF SinkTypeOK, Yields
<1>1. r.size \in Nat
  BY DEF Record
<1>2. CASE SinkReads(r)
  BY <1>2 DEF SinkReads
<1>3. CASE RecordTooLarge(r)
  BY <1>3 DEF RecordTooLarge, Statuses
<1>4. CASE RecordFits(r)
  BY <1>1, <1>4 DEF RecordFits, WithSeparator
<1>5. CASE RecordOverflows(r)
  BY <1>5 DEF RecordOverflows, Statuses
<1> QED
  BY <1>2, <1>3, <1>4, <1>5 DEF Reads

\* The end of the generator preserves the type invariant.
LEMMA GenEndsType ==
  ASSUME SinkTypeOK, GenEnds
  PROVE  SinkTypeOK'
BY DEF SinkTypeOK, GenEnds, Statuses

\* A failure of the generator preserves the type invariant.
LEMMA GenRaisesType ==
  ASSUME SinkTypeOK, GenRaises
  PROVE  SinkTypeOK'
BY DEF SinkTypeOK, GenRaises, Statuses

\* What a sink stores of a chunk is a sequence of records.
LEMMA PrefixType ==
  ASSUME NEW s \in Seq(Record), NEW k \in 0..Len(s)
  PROVE  SubSeq(s, 1, k) \in Seq(Record)
OBVIOUS

\* A failure inside write preserves the type invariant.
LEMMA ReadFailsType ==
  ASSUME SinkTypeOK, NEW k, ReadFails(k)
  PROVE  SinkTypeOK'
<1>1. SubSeq(chunk, 1, k) \in Seq(Record)
  BY PrefixType DEF SinkTypeOK, ReadFails
<1> QED
  BY <1>1 DEF SinkTypeOK, ReadFails, Statuses, Outcomes

\* The sink's answer and what the decorators make of it preserve the type
\* invariant.
LEMMA WritesType ==
  ASSUME SinkTypeOK, Writes
  PROVE  SinkTypeOK'
<1> USE SinkWriteAssumption
<1>1. PICK o \in Outcomes, k \in 0..Len(chunk) :
        WriteReturns(o, k) \/ WriteRetried(o, k) \/ WriteRaises(o, k)
  BY DEF Writes
<1>2. SubSeq(chunk, 1, k) \in Seq(Record)
  BY PrefixType DEF SinkTypeOK
<1>a. SinkAnswers(o, k)
  BY <1>1, Zenon DEF WriteReturns, WriteRetried, WriteRaises
<1>3. outcome' \in Outcomes /\ delivered' \in Seq(Record)
  BY <1>2, <1>a DEF SinkTypeOK, SinkAnswers
<1>4. CASE WriteReturns(o, k)
  <2>1. held # <<>> => held[1] \in Record
    BY DEF SinkTypeOK
  <2>2. held # <<>> => held[1].size \in Nat
    BY <2>1 DEF Record
  <2> QED
    BY <1>3, <1>4, <2>2 DEF SinkTypeOK, WriteReturns, Statuses, BracketSize
<1>5. CASE WriteRetried(o, k)
  BY <1>3, <1>5 DEF SinkTypeOK, WriteRetried
<1>6. CASE WriteRaises(o, k)
  BY <1>3, <1>6 DEF SinkTypeOK, WriteRaises, Statuses
<1> QED
  BY <1>1, <1>4, <1>5, <1>6

-----------------------------------------------------------------------------
\* Every state of the call has its type.  The code's invariant: a chunk is a
\* list of records, a retry index never passes the schedule
\* (decorators.py:82-94).
THEOREM SinkTypeCorrect == SinkWriteSpec => []SinkTypeOK
<1>1. SinkInit => SinkTypeOK
  BY SinkInitType
<1>2. SinkTypeOK /\ [CallNext]_sinkVars => SinkTypeOK'
  <2> SUFFICES ASSUME SinkTypeOK, [CallNext]_sinkVars
               PROVE  SinkTypeOK'
    OBVIOUS
  <2>1. ASSUME NEW b \in BOOLEAN, Call(b) PROVE SinkTypeOK'
    BY <2>1, CallType
  <2>2. ASSUME NEW n \in Sizes,
               Reads([id |-> Len(produced) + 1, cycle |-> 1, task |-> 1, src |-> 0, size |-> n])
        PROVE  SinkTypeOK'
    <3>1. [id |-> Len(produced) + 1, cycle |-> 1, task |-> 1, src |-> 0, size |-> n] \in Record
      BY DEF SinkTypeOK, Record
    <3> QED
      BY <2>2, <3>1, ReadsType
  <2>3. ASSUME NEW k \in 0..Len(chunk), ReadFails(k) PROVE SinkTypeOK'
    BY <2>3, ReadFailsType
  <2>4. CASE UNCHANGED sinkVars
    BY <2>4 DEF SinkTypeOK, sinkVars, callVars
  <2> QED
    BY <2>1, <2>2, <2>3, <2>4, GenStartsType, GenEndsType, GenRaisesType, WritesType
       DEF CallNext
<1> QED
  BY <1>1, <1>2, PTL DEF SinkWriteSpec

-----------------------------------------------------------------------------
(***************************************************************************)
(* No record is skipped.  While the chunker reads, the chunks already      *)
(* passed on and the current chunk are together what was produced; while a *)
(* chunk is written, the record held back takes the current chunk's place. *)
(***************************************************************************)
SkipInv ==
  limit > 0 =>
    /\ status = "reading" => held = <<>> /\ offered \o chunk = produced
    /\ status = "writing" => offered \o held = produced
    /\ status = "returned" => offered = produced

\* Concatenation, the facts about it that the chunker relies on.
LEMMA ConcatFacts ==
  ASSUME NEW s \in Seq(Record), NEW t \in Seq(Record), NEW r \in Record
  PROVE  /\ s \o <<>> = s
         /\ <<>> \o s = s
         /\ s \o Append(t, r) = Append(s \o t, r)
         /\ s \o <<r>> = Append(s, r)
OBVIOUS

\* Reading a record keeps SkipInv.
LEMMA ReadsSkipInv ==
  ASSUME SinkTypeOK, SkipInv, NEW r \in Record, Reads(r)
  PROVE  SkipInv'
<1> USE SinkWriteAssumption
<1>1. CASE SinkReads(r)
  BY <1>1 DEF SkipInv, SinkReads
<1>2. CASE RecordTooLarge(r)
  BY <1>2 DEF SkipInv, RecordTooLarge
<1>3. CASE RecordFits(r)
  <2>1. offered \o Append(chunk, r) = Append(offered \o chunk, r)
    BY ConcatFacts DEF SinkTypeOK
  <2> QED
    BY <1>3, <2>1 DEF SkipInv, RecordFits, Yields
<1>4. CASE RecordOverflows(r)
  <2>1. offered \o chunk \in Seq(Record)
    BY DEF SinkTypeOK
  <2>2. (offered \o chunk) \o <<r>> = Append(offered \o chunk, r)
    BY <2>1, ConcatFacts DEF SinkTypeOK
  <2> QED
    BY <1>4, <2>2 DEF SkipInv, RecordOverflows, Yields
<1> QED
  BY <1>1, <1>2, <1>3, <1>4 DEF Reads

\* Writing a chunk, retried or not, keeps SkipInv.
LEMMA WritesSkipInv ==
  ASSUME SinkTypeOK, SkipInv, Writes
  PROVE  SkipInv'
<1> USE SinkWriteAssumption
<1>1. PICK o \in Outcomes, k \in 0..Len(chunk) :
        WriteReturns(o, k) \/ WriteRetried(o, k) \/ WriteRaises(o, k)
  BY DEF Writes
<1>2. CASE WriteReturns(o, k)
  <2>1. offered \o <<>> = offered
    BY ConcatFacts DEF SinkTypeOK
  <2> QED
    BY <1>2, <2>1 DEF SkipInv, WriteReturns
<1>3. CASE WriteRetried(o, k)
  BY <1>3 DEF SkipInv, WriteRetried
<1>4. CASE WriteRaises(o, k)
  BY <1>4 DEF SkipInv, WriteRaises
<1> QED
  BY <1>1, <1>2, <1>3, <1>4

\* The end of the generator keeps SkipInv.
LEMMA GenEndsSkipInv ==
  ASSUME SinkTypeOK, SkipInv, GenEnds
  PROVE  SkipInv'
<1>1. /\ offered \o chunk \in Seq(Record)
      /\ (offered \o chunk) \o <<>> = offered \o chunk
  BY ConcatFacts DEF SinkTypeOK
<1> QED
  BY <1>1 DEF SkipInv, GenEnds

\* Every state of the call has SkipInv.
LEMMA SkipAlways == SinkWriteSpec => []SkipInv
<1>1. SinkInit => SkipInv
  BY DEF SinkInit, SkipInv
<1>2. SinkTypeOK /\ SkipInv /\ [CallNext]_sinkVars => SkipInv'
  <2> SUFFICES ASSUME SinkTypeOK, SkipInv, [CallNext]_sinkVars
               PROVE  SkipInv'
    OBVIOUS
  <2>1. ASSUME NEW b \in BOOLEAN, Call(b) PROVE SkipInv'
    <3>1. <<>> \o <<>> = <<>>
      OBVIOUS
    <3> QED
      BY <2>1, <3>1 DEF SkipInv, Call
  <2>2. CASE GenStarts
    BY <2>2 DEF SkipInv, GenStarts
  <2>3. ASSUME NEW n \in Sizes,
               Reads([id |-> Len(produced) + 1, cycle |-> 1, task |-> 1, src |-> 0, size |-> n])
        PROVE  SkipInv'
    <3>1. [id |-> Len(produced) + 1, cycle |-> 1, task |-> 1, src |-> 0, size |-> n] \in Record
      BY DEF SinkTypeOK, Record
    <3> QED
      BY <2>3, <3>1, ReadsSkipInv
  <2>4. CASE GenRaises
    BY <2>4 DEF SkipInv, GenRaises
  <2>5. ASSUME NEW k \in 0..Len(chunk), ReadFails(k) PROVE SkipInv'
    BY <2>5 DEF SkipInv, ReadFails
  <2>6. CASE UNCHANGED sinkVars
    BY <2>6 DEF SkipInv, sinkVars, callVars
  <2> QED
    BY <2>1, <2>2, <2>3, <2>4, <2>5, <2>6, GenEndsSkipInv, WritesSkipInv DEF CallNext
<1> QED
  BY <1>1, <1>2, SinkTypeCorrect, PTL DEF SinkWriteSpec

\* With chunking a call that returns has passed every record to the sink,
\* whatever the sizes, the chunk size and the retries (itertools.py:38-60).
THEOREM NothingIsSkipped == SinkWriteSpec => []NothingSkipped
<1>1. SkipInv => NothingSkipped
  BY DEF SkipInv, NothingSkipped
<1> QED
  BY <1>1, SkipAlways, PTL

-----------------------------------------------------------------------------
(***************************************************************************)
(* Nothing is lost.  While the chunker reads, everything passed on is in    *)
(* the sink; while a chunk is written, everything but what is in the chunk. *)
(***************************************************************************)
StoredInv ==
  ~Wrapped /\ limit > 0 /\ routed =>
    /\ status = "reading" => \A i \in DOMAIN offered : Copies(offered[i], delivered) # {}
    /\ status = "writing" =>
         \A i \in DOMAIN offered : \/ Copies(offered[i], delivered) # {}
                                   \/ Copies(offered[i], chunk) # {}
    /\ status = "returned" => \A i \in DOMAIN offered : Copies(offered[i], delivered) # {}

\* Membership in a concatenation.
LEMMA CopiesInConcat ==
  ASSUME NEW s \in Seq(Record), NEW t \in Seq(Record), NEW r
  PROVE  /\ Copies(r, s) # {} => Copies(r, s \o t) # {}
         /\ Copies(r, t) # {} => Copies(r, s \o t) # {}
         /\ \A i \in DOMAIN (s \o t) :
              Copies((s \o t)[i], s) # {} \/ Copies((s \o t)[i], t) # {}
<1>1. DOMAIN s \subseteq DOMAIN (s \o t) /\ \A i \in DOMAIN s : (s \o t)[i] = s[i]
  OBVIOUS
<1>2. \A i \in DOMAIN t : /\ Len(s) + i \in DOMAIN (s \o t)
                          /\ (s \o t)[Len(s) + i] = t[i]
  OBVIOUS
<1>3. \A i \in DOMAIN (s \o t) :
        \/ i \in DOMAIN s /\ (s \o t)[i] = s[i]
        \/ i - Len(s) \in DOMAIN t /\ (s \o t)[i] = t[i - Len(s)]
  OBVIOUS
<1>4. Copies(r, s) # {} => Copies(r, s \o t) # {}
  BY <1>1 DEF Copies
<1>5. Copies(r, t) # {} => Copies(r, s \o t) # {}
  BY <1>2 DEF Copies
<1>6. ASSUME NEW i \in DOMAIN (s \o t)
      PROVE  Copies((s \o t)[i], s) # {} \/ Copies((s \o t)[i], t) # {}
  <2>1. CASE i \in DOMAIN s /\ (s \o t)[i] = s[i]
    BY <2>1 DEF Copies
  <2>2. CASE i - Len(s) \in DOMAIN t /\ (s \o t)[i] = t[i - Len(s)]
    BY <2>2 DEF Copies
  <2> QED
    BY <2>1, <2>2, <1>3
<1> QED
  BY <1>4, <1>5, <1>6

\* Reading a record keeps what is known of the stored ones.
LEMMA ReadsStoredInv ==
  ASSUME SinkTypeOK, StoredInv, NEW r \in Record, Reads(r)
  PROVE  StoredInv'
<1>1. CASE SinkReads(r)
  BY <1>1 DEF StoredInv, SinkReads
<1>2. CASE RecordTooLarge(r)
  BY <1>2 DEF StoredInv, RecordTooLarge
<1>3. CASE RecordFits(r)
  BY <1>3 DEF StoredInv, RecordFits, Yields
<1>4. CASE RecordOverflows(r)
  <2>1. ASSUME ~Wrapped, limit > 0, routed, NEW i \in DOMAIN (offered \o chunk)
        PROVE  \/ Copies((offered \o chunk)[i], delivered) # {}
               \/ Copies((offered \o chunk)[i], chunk) # {}
    <3> DEFINE x == (offered \o chunk)[i]
    <3>1. Copies(x, offered) # {} \/ Copies(x, chunk) # {}
      BY CopiesInConcat DEF SinkTypeOK
    <3>2. CASE Copies(x, offered) # {}
      <4>1. PICK j \in DOMAIN offered : offered[j] = x
        BY <3>2 DEF Copies
      <4> QED
        BY <4>1, <1>4, <2>1 DEF StoredInv, RecordOverflows, Yields
    <3> QED
      BY <3>1, <3>2
  <2> QED
    BY <1>4, <2>1 DEF StoredInv, RecordOverflows
<1> QED
  BY <1>1, <1>2, <1>3, <1>4 DEF Reads

\* So does the end of the generator.
LEMMA GenEndsStoredInv ==
  ASSUME SinkTypeOK, StoredInv, GenEnds
  PROVE  StoredInv'
<1>1. ASSUME ~Wrapped, limit > 0, routed, NEW i \in DOMAIN (offered \o chunk)
      PROVE  \/ Copies((offered \o chunk)[i], delivered) # {}
             \/ Copies((offered \o chunk)[i], chunk) # {}
  <2> DEFINE x == (offered \o chunk)[i]
  <2>1. Copies(x, offered) # {} \/ Copies(x, chunk) # {}
    BY CopiesInConcat DEF SinkTypeOK
  <2>2. CASE Copies(x, offered) # {}
    <3>1. PICK j \in DOMAIN offered : offered[j] = x
      BY <2>2 DEF Copies
    <3> QED
      BY <3>1, <1>1 DEF StoredInv, GenEnds
  <2> QED
    BY <2>1, <2>2
<1>2. chunk = <<>> => \A x : Copies(x, chunk) = {}
  BY DEF Copies
<1> QED
  BY <1>1, <1>2 DEF StoredInv, GenEnds

\* So does an answer of the sink: a chunk is stored whole or written again.
LEMMA WritesStoredInv ==
  ASSUME SinkTypeOK, StoredInv, Writes
  PROVE  StoredInv'
<1> SUFFICES ASSUME ~Wrapped, limit > 0, routed
             PROVE  StoredInv'
  <2>1. UNCHANGED <<limit, routed>>
    BY DEF Writes, WriteReturns, WriteRetried, WriteRaises
  <2> QED
    BY <2>1 DEF StoredInv
<1>1. PICK o \in Outcomes, k \in 0..Len(chunk) :
        WriteReturns(o, k) \/ WriteRetried(o, k) \/ WriteRaises(o, k)
  BY DEF Writes
<1>2. /\ status = "writing"
      /\ delivered' = delivered \o SubSeq(chunk, 1, k)
      /\ o = "ok" => k = Len(chunk)
      /\ UNCHANGED offered
  BY <1>1 DEF WriteReturns, WriteRetried, WriteRaises, SinkAnswers
<1>3. \A x : Copies(x, delivered) # {} => Copies(x, delivered') # {}
  <2>1. SubSeq(chunk, 1, k) \in Seq(Record)
    BY PrefixType DEF SinkTypeOK
  <2> QED
    BY <1>2, <2>1, CopiesInConcat DEF SinkTypeOK
<1>4. CASE WriteReturns(o, k)
  <2>1. o = "ok"
    BY <1>4 DEF WriteReturns, log_error
  <2>2. SubSeq(chunk, 1, k) = chunk
    BY <1>2, <2>1 DEF SinkTypeOK
  <2>3. \A x : Copies(x, chunk) # {} => Copies(x, delivered') # {}
    BY <1>2, <2>2, CopiesInConcat DEF SinkTypeOK
  <2>4. \A i \in DOMAIN offered : Copies(offered[i], delivered') # {}
    BY <1>2, <1>3, <2>3 DEF StoredInv
  <2> QED
    BY <1>2, <1>4, <2>4 DEF StoredInv, WriteReturns
<1>5. CASE WriteRetried(o, k)
  BY <1>2, <1>3, <1>5 DEF StoredInv, WriteRetried
<1>6. CASE WriteRaises(o, k)
  BY <1>6 DEF StoredInv, WriteRaises
<1> QED
  BY <1>1, <1>4, <1>5, <1>6

\* ReturnMeansDelivered for every chunk size, record sizes and number of
\* retries: no failure of the sink, and no order of them, makes an undecorated
\* write return without its records (utils.py:368, decorators.py:51-53).
THEOREM ReturnAlwaysMeansDelivered == SinkWriteSpec => []ReturnMeansDelivered
<1>1. SinkInit => StoredInv
  BY DEF SinkInit, StoredInv
<1>2. SinkTypeOK /\ StoredInv /\ [CallNext]_sinkVars => StoredInv'
  <2> SUFFICES ASSUME SinkTypeOK, StoredInv, [CallNext]_sinkVars
               PROVE  StoredInv'
    OBVIOUS
  <2>1. ASSUME NEW b \in BOOLEAN, Call(b) PROVE StoredInv'
    BY <2>1 DEF StoredInv, Call
  <2>2. CASE GenStarts
    BY <2>2 DEF StoredInv, GenStarts
  <2>3. ASSUME NEW n \in Sizes,
               Reads([id |-> Len(produced) + 1, cycle |-> 1, task |-> 1, src |-> 0, size |-> n])
        PROVE  StoredInv'
    <3>1. [id |-> Len(produced) + 1, cycle |-> 1, task |-> 1, src |-> 0, size |-> n] \in Record
      BY DEF SinkTypeOK, Record
    <3> QED
      BY <2>3, <3>1, ReadsStoredInv
  <2>4. CASE GenRaises
    BY <2>4 DEF StoredInv, GenRaises
  <2>5. ASSUME NEW k \in 0..Len(chunk), ReadFails(k) PROVE StoredInv'
    BY <2>5 DEF StoredInv, ReadFails
  <2>6. CASE UNCHANGED sinkVars
    BY <2>6 DEF StoredInv, sinkVars, callVars
  <2> QED
    BY <2>1, <2>2, <2>3, <2>4, <2>5, <2>6, GenEndsStoredInv, WritesStoredInv DEF CallNext
<1>3. StoredInv /\ NothingSkipped => ReturnMeansDelivered
  BY DEF StoredInv, NothingSkipped, ReturnMeansDelivered
<1> QED
  BY <1>1, <1>2, <1>3, SinkTypeCorrect, NothingIsSkipped, PTL DEF SinkWriteSpec

-----------------------------------------------------------------------------
(* Duplicates. *)

\* No record is in the chunk twice.
Distinct(s) == \A i, j \in DOMAIN s : s[i] = s[j] => i = j

\* What one answer of the sink adds to the copies of a record.
LEMMA CopiesGrow ==
  ASSUME NEW d \in Seq(Record), NEW c \in Seq(Record), NEW k \in 0..Len(c), Distinct(c), NEW r
  PROVE  /\ Cardinality(Copies(r, d)) \in Nat
         /\ Cardinality(Copies(r, d \o SubSeq(c, 1, k))) \in Nat
         /\ Cardinality(Copies(r, d \o SubSeq(c, 1, k))) <= Cardinality(Copies(r, d)) + 1
         /\ Copies(r, c) = {} => Copies(r, d \o SubSeq(c, 1, k)) = Copies(r, d)
<1> DEFINE e == d \o SubSeq(c, 1, k)
<1> SUFFICES /\ Cardinality(Copies(r, d)) \in Nat
             /\ Cardinality(Copies(r, e)) \in Nat
             /\ Cardinality(Copies(r, e)) <= Cardinality(Copies(r, d)) + 1
             /\ Copies(r, c) = {} => Copies(r, e) = Copies(r, d)
  OBVIOUS
<1> HIDE DEF e
<1>1. /\ e \in Seq(Record)
      /\ Len(d) \in Nat /\ k \in Nat
      /\ DOMAIN d = 1..Len(d) /\ DOMAIN e = 1..Len(e)
      /\ Len(e) = Len(d) + k
      /\ \A i \in 1..Len(d) : e[i] = d[i]
      /\ \A i \in 1..k : e[Len(d) + i] = c[i]
  BY PrefixType DEF e
<1>2. \A s \in Seq(Record) : IsFiniteSet(Copies(r, s)) /\ Cardinality(Copies(r, s)) \in Nat
  <2> SUFFICES ASSUME NEW s \in Seq(Record)
               PROVE  IsFiniteSet(Copies(r, s)) /\ Cardinality(Copies(r, s)) \in Nat
    OBVIOUS
  <2>1. Copies(r, s) \subseteq 1..Len(s)
    BY DEF Copies
  <2>2. IsFiniteSet(1..Len(s))
    BY FS_Interval
  <2> QED
    BY <2>1, <2>2, FS_Subset, FS_CardinalityType
<1>3. \A i \in 1..Len(e) : i \in 1..Len(d) \/ \E j \in 1..k : i = Len(d) + j
  <2> TAKE i \in 1..Len(e)
  <2>1. CASE i > Len(d)
    <3>1. i - Len(d) \in 1..k /\ i = Len(d) + (i - Len(d))
      BY <1>1, <2>1
    <3> QED
      BY <3>1
  <2> QED
    BY <2>1
<1>4. CASE Copies(r, c) = {}
  <2>1. \A i \in 1..k : c[i] # r
    BY <1>4 DEF Copies
  <2>2. Copies(r, e) \subseteq Copies(r, d)
    <3> SUFFICES ASSUME NEW i \in 1..Len(e), e[i] = r
                 PROVE  i \in 1..Len(d) /\ d[i] = r
      BY <1>1 DEF Copies
    <3>1. ~ \E j \in 1..k : i = Len(d) + j
      BY <1>1, <2>1
    <3> QED
      BY <1>1, <1>3, <3>1
  <2>3. Copies(r, d) \subseteq Copies(r, e)
    BY <1>1 DEF Copies
  <2>4. Copies(r, e) = Copies(r, d)
    BY <2>2, <2>3
  <2> QED
    BY <1>2, <2>4
<1>5. CASE Copies(r, c) # {}
  <2>1. PICK j \in DOMAIN c : c[j] = r
    BY <1>5 DEF Copies
  <2>2. \A i \in 1..k : c[i] = r => i = j
    BY <2>1 DEF Distinct
  <2>3. Copies(r, e) \subseteq Copies(r, d) \cup {Len(d) + j}
    <3> SUFFICES ASSUME NEW i \in Copies(r, e), i \notin Copies(r, d)
                 PROVE  i = Len(d) + j
      OBVIOUS
    <3>1. i \in 1..Len(e) /\ e[i] = r
      BY <1>1 DEF Copies
    <3>2. i \notin 1..Len(d)
      BY <1>1, <3>1 DEF Copies
    <3>3. PICK h \in 1..k : i = Len(d) + h
      BY <1>3, <3>1, <3>2
    <3> QED
      BY <1>1, <2>2, <3>1, <3>3
  <2>6. IsFiniteSet(Copies(r, d)) /\ Cardinality(Copies(r, d)) \in Nat
    BY <1>2
  <2>4. /\ IsFiniteSet(Copies(r, d) \cup {Len(d) + j})
        /\ Cardinality(Copies(r, d) \cup {Len(d) + j}) <= Cardinality(Copies(r, d)) + 1
        /\ Cardinality(Copies(r, d) \cup {Len(d) + j}) \in Nat
    <3> DEFINE C == Copies(r, d)
    <3>1. /\ IsFiniteSet(C \cup {Len(d) + j})
          /\ Cardinality(C \cup {Len(d) + j}) =
               IF Len(d) + j \in C THEN Cardinality(C) ELSE Cardinality(C) + 1
      BY <2>6, FS_AddElement
    <3> QED
      BY <2>6, <3>1
  <2>5. Cardinality(Copies(r, e)) <= Cardinality(Copies(r, d) \cup {Len(d) + j})
    BY <2>3, <2>4, FS_Subset
  <2>7. Cardinality(Copies(r, e)) \in Nat
    BY <1>1, <1>2
  <2> QED
    BY <1>5, <2>4, <2>5, <2>6, <2>7
<1> QED
  BY <1>4, <1>5

(***************************************************************************)
(* A record that is being written was stored at most once by every try      *)
(* before this one; one that is still to be written was never stored.  The   *)
(* records are told apart by their numbers.                                 *)
(***************************************************************************)
NumbersInv ==
  /\ \A i \in DOMAIN delivered : delivered[i].id <= Len(produced)
  /\ status \in {"reading", "writing"} =>
       /\ \A i \in DOMAIN chunk : chunk[i].id <= Len(produced)
       /\ \A i \in DOMAIN held : held[i].id <= Len(produced)

ChunkInv ==
  status \in {"reading", "writing"} =>
    /\ Distinct(chunk)
    /\ \A i \in DOMAIN chunk :
         Cardinality(Copies(chunk[i], delivered)) <= (IF limit = 0 THEN 0 ELSE tries)

HeldInv ==
  /\ status = "reading" => held = <<>> /\ tries = 0
  /\ status = "writing" =>
       /\ Distinct(held)
       /\ \A i \in DOMAIN held : Copies(held[i], delivered) = {} /\ Copies(held[i], chunk) = {}

DupInv ==
  /\ status = "idle" => delivered = <<>>
  /\ NumbersInv
  /\ ChunkInv
  /\ HeldInv
  /\ DuplicatesBounded

\* A record that is new has no copy anywhere.
LEMMA NewHasNoCopies ==
  ASSUME NEW s \in Seq(Record), NEW n \in Nat, \A i \in DOMAIN s : s[i].id <= n,
         NEW r \in Record, r.id = n + 1
  PROVE  Copies(r, s) = {}
BY DEF Copies, Record

\* The records of a sequence have natural identities.
LEMMA NumbersAreNaturals ==
  ASSUME NEW s \in Seq(Record), NEW i \in DOMAIN s
  PROVE  s[i].id \in Nat
<1>1. s[i] \in Record
  OBVIOUS
<1> QED
  BY <1>1 DEF Record

\* There are no copies in an empty set.
LEMMA NoCopies == Cardinality({}) = 0
BY FS_EmptySet

\* Reading a record keeps the bound on copies: a new record has none.
LEMMA ReadsDupInv ==
  ASSUME SinkTypeOK, DupInv, NEW r \in Record, r.id = Len(produced) + 1, Reads(r)
  PROVE  DupInv'
<1>1. /\ status = "reading"
      /\ produced' = Append(produced, r)
      /\ UNCHANGED <<limit, tries, delivered>>
  BY DEF Reads, SinkReads, RecordTooLarge, RecordFits, RecordOverflows, Yields
<1>2. Len(produced') = Len(produced) + 1 /\ Len(produced) \in Nat
  BY <1>1 DEF SinkTypeOK
<1>3. Copies(r, delivered) = {} /\ Copies(r, chunk) = {}
  BY <1>1, <1>2, NewHasNoCopies DEF SinkTypeOK, DupInv, NumbersInv
<1>4. \A i \in DOMAIN delivered : delivered'[i].id <= Len(produced')
  <2>1. \A i \in DOMAIN delivered : delivered[i].id \in Nat
    BY NumbersAreNaturals DEF SinkTypeOK
  <2> QED
    BY <1>1, <1>2, <2>1 DEF DupInv, NumbersInv
<1>5. DuplicatesBounded'
  BY <1>1 DEF DupInv, DuplicatesBounded
<1>6. \A i \in DOMAIN chunk : chunk[i].id <= Len(produced')
  <2>1. \A i \in DOMAIN chunk : chunk[i].id \in Nat
    BY NumbersAreNaturals DEF SinkTypeOK
  <2> QED
    BY <1>1, <1>2, <2>1 DEF DupInv, NumbersInv
<1>7. CASE chunk' = Append(chunk, r) /\ status' = "reading" /\ UNCHANGED held
  <2> DEFINE c == Append(chunk, r)
  <2>1. /\ DOMAIN c = 1..(Len(chunk) + 1) /\ DOMAIN chunk = 1..Len(chunk)
        /\ \A i \in DOMAIN chunk : c[i] = chunk[i]
        /\ c[Len(chunk) + 1] = r
        /\ Len(chunk) \in Nat
    BY DEF SinkTypeOK
  <2>2. \A i \in DOMAIN chunk : chunk[i] # r
    BY <1>3 DEF Copies
  <2>3. Distinct(chunk)
    BY <1>1 DEF DupInv, ChunkInv
  <2>4. Distinct(c)
    BY <2>1, <2>2, <2>3 DEF Distinct
  <2>5. \A i \in DOMAIN c : Cardinality(Copies(c[i], delivered)) <= (IF limit = 0 THEN 0 ELSE tries)
    <3>1. \A i \in DOMAIN chunk :
            Cardinality(Copies(chunk[i], delivered)) <= (IF limit = 0 THEN 0 ELSE tries)
      BY <1>1 DEF DupInv, ChunkInv
    <3>2. Cardinality(Copies(r, delivered)) <= (IF limit = 0 THEN 0 ELSE tries)
      BY <1>3, NoCopies DEF SinkTypeOK
    <3> QED
      BY <2>1, <3>1, <3>2
  <2>6. \A i \in DOMAIN c : c[i].id <= Len(produced')
    BY <1>6, <1>2, <2>1
  <2>7. held = <<>> /\ tries = 0
    BY <1>1 DEF DupInv, HeldInv
  <2>8. NumbersInv'
    BY <1>1, <1>4, <1>7, <2>6, <2>7 DEF NumbersInv
  <2>9. ChunkInv'
    BY <1>1, <1>7, <2>4, <2>5 DEF ChunkInv
  <2> QED
    BY <1>1, <1>5, <1>7, <2>7, <2>8, <2>9 DEF DupInv, HeldInv
<1>8. CASE RecordOverflows(r)
  <2>1. /\ status' = "writing" /\ held' = <<r>> /\ UNCHANGED chunk
    BY <1>8 DEF RecordOverflows
  <2>2. NumbersInv'
    BY <1>1, <1>2, <1>4, <1>6, <2>1 DEF NumbersInv
  <2>3. ChunkInv'
    BY <1>1, <2>1 DEF DupInv, ChunkInv
  <2>4. HeldInv'
    BY <1>1, <1>3, <2>1 DEF HeldInv, Distinct
  <2> QED
    BY <1>5, <2>1, <2>2, <2>3, <2>4 DEF DupInv
<1>9. CASE RecordTooLarge(r)
  BY <1>1, <1>4, <1>5, <1>9 DEF RecordTooLarge, DupInv, NumbersInv, ChunkInv, HeldInv
<1> QED
  BY <1>1, <1>7, <1>8, <1>9 DEF Reads, SinkReads, RecordFits

\* What the sink stores of the chunk keeps the numbers, and no record passes
\* the bound.
LEMMA StoresDupInv ==
  ASSUME SinkTypeOK, DupInv, status \in {"reading", "writing"}, NEW k \in 0..Len(chunk),
         delivered' = delivered \o SubSeq(chunk, 1, k), UNCHANGED <<limit, produced>>
  PROVE  /\ DuplicatesBounded'
         /\ \A i \in DOMAIN delivered' : delivered'[i].id <= Len(produced')
         /\ \A i \in DOMAIN chunk : Cardinality(Copies(chunk[i], delivered'))
                                      <= (IF limit = 0 THEN 1 ELSE tries + 1)
         /\ \A r : Copies(r, chunk) = {} => Copies(r, delivered') = Copies(r, delivered)
<1> USE SinkWriteAssumption
<1>1. /\ delivered \in Seq(Record) /\ chunk \in Seq(Record) /\ Distinct(chunk)
      /\ tries \in 0..Retries /\ limit \in Nat /\ Retries \in Nat
  BY DEF SinkTypeOK, DupInv, ChunkInv
<1>2. \A r : /\ Cardinality(Copies(r, delivered)) \in Nat
             /\ Cardinality(Copies(r, delivered')) \in Nat
             /\ Cardinality(Copies(r, delivered')) <= Cardinality(Copies(r, delivered)) + 1
             /\ Copies(r, chunk) = {} => Copies(r, delivered') = Copies(r, delivered)
  <2> TAKE r
  <2> DEFINE e == delivered \o SubSeq(chunk, 1, k)
  <2>1. /\ Cardinality(Copies(r, delivered)) \in Nat
        /\ Cardinality(Copies(r, e)) \in Nat
        /\ Cardinality(Copies(r, e)) <= Cardinality(Copies(r, delivered)) + 1
        /\ Copies(r, chunk) = {} => Copies(r, e) = Copies(r, delivered)
    BY <1>1, CopiesGrow
  <2> QED
    BY <2>1
<1>3. \A i \in DOMAIN chunk : Cardinality(Copies(chunk[i], delivered'))
                                <= (IF limit = 0 THEN 1 ELSE tries + 1)
  <2> TAKE i \in DOMAIN chunk
  <2>1. Cardinality(Copies(chunk[i], delivered)) <= (IF limit = 0 THEN 0 ELSE tries)
    BY DEF DupInv, ChunkInv
  <2>2. /\ Cardinality(Copies(chunk[i], delivered)) \in Nat
        /\ Cardinality(Copies(chunk[i], delivered')) \in Nat
        /\ Cardinality(Copies(chunk[i], delivered')) <= Cardinality(Copies(chunk[i], delivered)) + 1
    BY <1>2
  <2> QED
    BY <1>1, <2>1, <2>2
<1>4. \A i \in DOMAIN delivered' :
        \/ \E j \in DOMAIN delivered : delivered'[i] = delivered[j]
        \/ \E j \in DOMAIN chunk : delivered'[i] = chunk[j]
  <2> TAKE i \in DOMAIN delivered'
  <2>1. /\ SubSeq(chunk, 1, k) \in Seq(Record)
        /\ DOMAIN SubSeq(chunk, 1, k) \subseteq DOMAIN chunk
        /\ \A j \in DOMAIN SubSeq(chunk, 1, k) : SubSeq(chunk, 1, k)[j] = chunk[j]
    BY <1>1, PrefixType
  <2>2. \/ Copies(delivered'[i], delivered) # {}
        \/ Copies(delivered'[i], SubSeq(chunk, 1, k)) # {}
    BY <1>1, <2>1, CopiesInConcat
  <2> QED
    BY <2>1, <2>2 DEF Copies
<1>5. ASSUME NEW i \in DOMAIN delivered'
      PROVE  Cardinality(Copies(delivered'[i], delivered')) <= (IF limit = 0 THEN 1 ELSE Retries + 1)
  <2>1. CASE \E j \in DOMAIN chunk : delivered'[i] = chunk[j]
    <3>1. Cardinality(Copies(delivered'[i], delivered')) <= (IF limit = 0 THEN 1 ELSE tries + 1)
      BY <1>3, <2>1
    <3>2. Cardinality(Copies(delivered'[i], delivered')) \in Nat
      BY <1>2
    <3> QED
      BY <1>1, <3>1, <3>2
  <2>2. CASE ~ \E j \in DOMAIN chunk : delivered'[i] = chunk[j]
    <3>1. Copies(delivered'[i], chunk) = {}
      BY <2>2 DEF Copies
    <3>2. Copies(delivered'[i], delivered') = Copies(delivered'[i], delivered)
      BY <1>2, <3>1
    <3>3. PICK j \in DOMAIN delivered : delivered'[i] = delivered[j]
      BY <1>4, <2>2
    <3> QED
      BY <3>2, <3>3 DEF DupInv, DuplicatesBounded
  <2> QED
    BY <2>1, <2>2
<1>6. \A i \in DOMAIN delivered' : delivered'[i].id <= Len(produced')
  BY <1>4 DEF DupInv, NumbersInv
<1> QED
  BY <1>2, <1>3, <1>5, <1>6 DEF DuplicatesBounded

\* An answer of the sink adds at most one copy of a record, in a try of its
\* own.
LEMMA WritesDupInv ==
  ASSUME SinkTypeOK, DupInv, Writes
  PROVE  DupInv'
<1>1. PICK o \in Outcomes, k \in 0..Len(chunk) :
        WriteReturns(o, k) \/ WriteRetried(o, k) \/ WriteRaises(o, k)
  BY DEF Writes
<1>2. /\ status = "writing"
      /\ delivered' = delivered \o SubSeq(chunk, 1, k)
      /\ UNCHANGED <<limit, produced>>
  BY <1>1 DEF WriteReturns, WriteRetried, WriteRaises, SinkAnswers
<1>3. /\ DuplicatesBounded'
      /\ \A i \in DOMAIN delivered' : delivered'[i].id <= Len(produced')
      /\ \A i \in DOMAIN chunk : Cardinality(Copies(chunk[i], delivered'))
                                   <= (IF limit = 0 THEN 1 ELSE tries + 1)
      /\ \A r : Copies(r, chunk) = {} => Copies(r, delivered') = Copies(r, delivered)
  BY <1>2, StoresDupInv
<1>4. \A i \in DOMAIN held : Copies(held[i], delivered') = {}
  BY <1>2, <1>3 DEF DupInv, HeldInv
<1>5. CASE WriteReturns(o, k)
  <2>1. /\ status' = IF held = <<>> THEN "returned" ELSE "reading"
        /\ chunk' = held /\ held' = <<>> /\ tries' = 0
    BY <1>5 DEF WriteReturns
  <2>2. \A i \in DOMAIN held : Cardinality(Copies(held[i], delivered')) <= 0
    BY <1>4, NoCopies
  <2>3. ChunkInv'
    BY <1>2, <2>1, <2>2 DEF ChunkInv, DupInv, HeldInv
  <2>4. NumbersInv'
    BY <1>2, <1>3, <2>1 DEF NumbersInv, DupInv
  <2> QED
    BY <1>3, <2>1, <2>3, <2>4 DEF DupInv, HeldInv
<1>6. CASE WriteRetried(o, k)
  <2>1. /\ status' = "writing" /\ tries' = tries + 1 /\ UNCHANGED held
        /\ chunk' = IF limit = 0 THEN <<>> ELSE chunk
    BY <1>2, <1>6 DEF WriteRetried
  <2>2. ChunkInv'
    BY <1>2, <1>3, <2>1 DEF ChunkInv, DupInv, Distinct
  <2>3. NumbersInv'
    BY <1>2, <1>3, <2>1 DEF NumbersInv, DupInv
  <2>4. HeldInv'
    <3>1. \A i \in DOMAIN held : Copies(held[i], chunk') = {}
      BY <1>2, <2>1 DEF DupInv, HeldInv, Copies
    <3> QED
      BY <1>2, <1>4, <2>1, <3>1 DEF HeldInv, DupInv
  <2> QED
    BY <1>3, <2>1, <2>2, <2>3, <2>4 DEF DupInv
<1>7. CASE WriteRaises(o, k)
  BY <1>3, <1>7 DEF WriteRaises, DupInv, NumbersInv, ChunkInv, HeldInv
<1> QED
  BY <1>1, <1>5, <1>6, <1>7

\* A generator that raises stores nothing more.
LEMMA ReadFailsDupInv ==
  ASSUME SinkTypeOK, DupInv, NEW k, ReadFails(k)
  PROVE  DupInv'
<1>1. /\ status = "reading" /\ k \in 0..Len(chunk)
      /\ delivered' = delivered \o SubSeq(chunk, 1, k)
      /\ UNCHANGED <<limit, produced>>
      /\ status' \in {"returned", "raised"}
  BY DEF ReadFails
<1>2. DuplicatesBounded' /\ \A i \in DOMAIN delivered' : delivered'[i].id <= Len(produced')
  BY <1>1, StoresDupInv
<1> QED
  BY <1>1, <1>2 DEF DupInv, NumbersInv, ChunkInv, HeldInv

\* DuplicatesBounded for every chunk size and number of retries: a sink that
\* fails after having stored any part of the chunk, at any of the tries, stores
\* no record more often than it was asked (decorators.py:51-53, utils.py:363-367).
THEOREM DuplicatesAlwaysBounded == SinkWriteSpec => []DuplicatesBounded
<1>1. SinkInit => DupInv
  BY DEF SinkInit, DupInv, NumbersInv, ChunkInv, HeldInv, DuplicatesBounded
<1>2. SinkTypeOK /\ DupInv /\ [CallNext]_sinkVars => DupInv'
  <2> SUFFICES ASSUME SinkTypeOK, DupInv, [CallNext]_sinkVars
               PROVE  DupInv'
    OBVIOUS
  <2>1. ASSUME NEW b \in BOOLEAN, Call(b) PROVE DupInv'
    <3>1. delivered' = <<>> /\ chunk' = <<>> /\ held' = <<>> /\ tries' = 0
          /\ status' \in {"reading", "writing"}
      BY <2>1 DEF Call, DupInv
    <3> QED
      BY <3>1 DEF DupInv, NumbersInv, ChunkInv, HeldInv, DuplicatesBounded, Distinct
  <2>2. CASE GenStarts
    BY <2>2 DEF GenStarts, DupInv, NumbersInv, ChunkInv, HeldInv, DuplicatesBounded
  <2>3. ASSUME NEW n \in Sizes,
               Reads([id |-> Len(produced) + 1, cycle |-> 1, task |-> 1, src |-> 0, size |-> n])
        PROVE  DupInv'
    <3> DEFINE r == [id |-> Len(produced) + 1, cycle |-> 1, task |-> 1, src |-> 0, size |-> n]
    <3>1. r \in Record /\ r.id = Len(produced) + 1
      BY DEF SinkTypeOK, Record
    <3> HIDE DEF r
    <3>2. Reads(r)
      BY <2>3 DEF r
    <3> QED
      BY <3>1, <3>2, ReadsDupInv
  <2>4. CASE GenRaises
    BY <2>4 DEF GenRaises, DupInv, NumbersInv, ChunkInv, HeldInv, DuplicatesBounded
  <2>5. ASSUME NEW k \in 0..Len(chunk), ReadFails(k) PROVE DupInv'
    BY <2>5, ReadFailsDupInv
  <2>6. CASE GenEnds
    BY <2>6 DEF GenEnds, DupInv, NumbersInv, ChunkInv, HeldInv, DuplicatesBounded, Distinct
  <2>7. CASE UNCHANGED sinkVars
    BY <2>7 DEF sinkVars, callVars, DupInv, NumbersInv, ChunkInv, HeldInv, DuplicatesBounded
  <2> QED
    BY <2>1, <2>2, <2>3, <2>4, <2>5, <2>6, <2>7, WritesDupInv DEF CallNext
<1> QED
  BY <1>1, <1>2, SinkTypeCorrect, PTL DEF SinkWriteSpec, DupInv

-----------------------------------------------------------------------------
(* Chunks: the sizes of lists of records. *)

\* Every set of numbers has a least one.
LEMMA LeastNumber ==
  ASSUME NEW T, T \subseteq Nat, T # {}
  PROVE  \E x \in T : \A y \in T : x <= y
<1> DEFINE R == OpToRel(<, Nat)
<1>1. \A x, y \in Nat : y < x => <<y, x>> \in R
  BY DEF OpToRel
<1>2. IsWellFoundedOn(R, Nat)
  BY NatLessThanWellFounded
<1> HIDE DEF R
<1>3. PICK x \in T : \A y \in T : ~ (<<y, x>> \in R)
  BY <1>2, WFMin
<1>4. \A y \in T : ~(y < x)
  BY <1>1, <1>3
<1>5. x \in Nat /\ \A y \in T : y \in Nat
  OBVIOUS
<1>6. \A y \in T : x <= y
  BY <1>4, <1>5
<1> QED
  BY <1>6

\* A set of numbers that has a bound has a greatest one.
LEMMA GreatestBelow ==
  ASSUME NEW n \in Nat, NEW S, S \subseteq 0..n, S # {}
  PROVE  \E x \in S : \A y \in S : y <= x
<1> DEFINE T == {n - i : i \in S}
<1>0. \A i \in S : i \in Nat /\ i <= n /\ n - i \in Nat
  OBVIOUS
<1>1. T \subseteq Nat /\ T # {}
  BY <1>0
<1>2. PICK x \in T : \A y \in T : x <= y
  BY <1>1, LeastNumber
<1>3. PICK i \in S : x = n - i
  BY <1>2
<1>4. \A y \in S : y <= i
  <2>1. \A y \in S : n - i <= n - y
    BY <1>2, <1>3
  <2> QED
    BY <1>0, <2>1
<1> QED
  BY <1>4

\* f is what SizesUpTo(s) is to be, for the first n records of s.
IsSizes(f, s, n) ==
  /\ f \in [0..n -> Nat] /\ f[0] = 0
  /\ \A d \in 1..n : f[d] = f[d - 1] + s[d].size

\* The recursive definition of SizesUpTo has a solution.
LEMMA SizesExist ==
  ASSUME NEW s \in Seq(Record), NEW n \in 0..Len(s)
  PROVE  \E f : IsSizes(f, s, n)
<1> DEFINE T == {k \in Nat : k <= Len(s) /\ ~ \E f : IsSizes(f, s, k)}
<1>0. \A d \in 1..Len(s) : s[d].size \in Nat
  <2> TAKE d \in 1..Len(s)
  <2>1. s[d] \in Record
    OBVIOUS
  <2> QED
    BY <2>1, SinkWriteAssumption DEF Record
<1>1. ASSUME T # {} PROVE FALSE
  <2>1. PICK k \in T : \A y \in T : k <= y
    BY <1>1, LeastNumber
  <2>2. CASE k = 0
    <3>1. IsSizes([d \in 0..0 |-> 0], s, 0)
      BY DEF IsSizes
    <3> QED
      BY <2>1, <2>2, <3>1
  <2>3. CASE k # 0
    <3>1. k - 1 \in Nat /\ k - 1 <= Len(s) /\ k - 1 \notin T /\ k \in 1..Len(s)
      BY <2>1, <2>3
    <3>2. PICK f : IsSizes(f, s, k - 1)
      BY <3>1
    <3> DEFINE g == [d \in 0..k |-> IF d = k THEN f[k - 1] + s[k].size ELSE f[d]]
    <3>3. s[k].size \in Nat /\ \A d \in 0..(k - 1) : f[d] \in Nat
      BY <1>0, <3>1, <3>2 DEF IsSizes
    <3>4. g \in [0..k -> Nat] /\ g[0] = 0
      BY <3>1, <3>2, <3>3 DEF IsSizes
    <3>5. ASSUME NEW d \in 1..k PROVE g[d] = g[d - 1] + s[d].size
      <4>1. CASE d = k
        BY <3>1, <4>1
      <4>2. CASE d # k
        <5>1. d \in 1..(k - 1) /\ d \in 0..k /\ d - 1 \in 0..k /\ d - 1 # k
          BY <3>1, <4>2
        <5>2. f[d] = f[d - 1] + s[d].size
          BY <3>2, <5>1 DEF IsSizes
        <5> QED
          BY <4>2, <5>1, <5>2
      <4> QED
        BY <4>1, <4>2
    <3>6. IsSizes(g, s, k)
      BY <3>4, <3>5 DEF IsSizes
    <3> QED
      BY <2>1, <3>6
  <2> QED
    BY <2>2, <2>3
<1> QED
  BY <1>1

\* The recursive function has a value: its equation holds.
LEMMA SizesEquation ==
  ASSUME NEW s \in Seq(Record)
  PROVE  IsSizes(SizesUpTo(s), s, Len(s))
<1> DEFINE F(g) == [d \in 0..Len(s) |-> IF d = 0 THEN 0 ELSE g[d - 1] + s[d].size]
           t == CHOOSE g : g = F(g)
<1>0. Len(s) \in Nat
  OBVIOUS
<1>1. PICK f : IsSizes(f, s, Len(s))
  BY <1>0, SizesExist
<1>2. f = F(f)
  BY <1>0, <1>1 DEF IsSizes
<1>3. t = F(t)
  BY <1>2
<1>4. SizesUpTo(s) = t
  BY DEF SizesUpTo
<1> HIDE DEF t
<1> DEFINE T == {k \in Nat : k <= Len(s) /\ t[k] # f[k]}
<1>5. ASSUME T # {} PROVE FALSE
  <2>1. PICK k \in T : \A y \in T : k <= y
    BY <1>5, LeastNumber
  <2>2. k \in 0..Len(s) /\ t[k] # f[k]
    BY <2>1
  <2>3. k # 0
    BY <1>1, <1>3, <2>2 DEF IsSizes
  <2>4. k - 1 \in Nat /\ k - 1 <= Len(s) /\ k - 1 \notin T
    BY <2>1, <2>2, <2>3
  <2>5. t[k - 1] = f[k - 1]
    BY <2>4
  <2>6. t[k] = t[k - 1] + s[k].size
    BY <1>3, <2>2, <2>3
  <2>7. f[k] = f[k - 1] + s[k].size
    BY <1>1, <2>2, <2>3 DEF IsSizes
  <2> QED
    BY <2>2, <2>5, <2>6, <2>7
<1>6. \A k \in 0..Len(s) : t[k] = f[k]
  BY <1>0, <1>5
<1>7. t = [k \in 0..Len(s) |-> t[k]]
  BY <1>3
<1>8. t = f
  BY <1>1, <1>6, <1>7 DEF IsSizes
<1> QED
  BY <1>1, <1>4, <1>8

\* Sums grow with the number of records.
LEMMA SizesGrow ==
  ASSUME NEW s \in Seq(Record), NEW i \in 0..Len(s), NEW j \in i..Len(s)
  PROVE  /\ SizesUpTo(s)[i] \in Nat /\ SizesUpTo(s)[j] \in Nat
         /\ SizesUpTo(s)[i] <= SizesUpTo(s)[j]
<1> DEFINE f == SizesUpTo(s)
<1>1. IsSizes(f, s, Len(s))
  BY SizesEquation
<1> HIDE DEF f
<1>2. \A d \in 0..Len(s) : f[d] \in Nat
  BY <1>1 DEF IsSizes
<1>3. \A d \in 1..Len(s) : s[d].size \in Nat
  <2> TAKE d \in 1..Len(s)
  <2>1. s[d] \in Record
    OBVIOUS
  <2> QED
    BY <2>1, SinkWriteAssumption DEF Record
<1> DEFINE T == {k \in Nat : i <= k /\ k <= Len(s) /\ ~(f[i] <= f[k])}
<1>4. ASSUME T # {} PROVE FALSE
  <2>1. PICK k \in T : \A y \in T : k <= y
    BY <1>4, LeastNumber
  <2>2. k # i
    BY <1>2, <2>1
  <2>3. k \in 1..Len(s) /\ k - 1 \in 0..Len(s) /\ k - 1 \notin T /\ i <= k - 1
    BY <2>1, <2>2
  <2>4. f[i] <= f[k - 1]
    BY <2>3
  <2>5. f[k] = f[k - 1] + s[k].size
    BY <1>1, <2>3 DEF IsSizes
  <2>6. f[i] \in Nat /\ f[k] \in Nat /\ f[k - 1] \in Nat /\ s[k].size \in Nat /\ ~(f[i] <= f[k])
    BY <1>2, <1>3, <2>1, <2>3
  <2> QED
    BY <2>4, <2>5, <2>6
<1>5. f[i] <= f[j]
  <2>1. j \in Nat /\ i <= j /\ j <= Len(s) /\ j \notin T
    BY <1>4
  <2> QED
    BY <2>1
<1>6. f[i] \in Nat /\ f[j] \in Nat
  BY <1>2
<1> QED
  BY <1>5, <1>6 DEF f

\* One more record changes no earlier sum.
LEMMA SizesOfAppend ==
  ASSUME NEW s \in Seq(Record), NEW r \in Record
  PROVE  /\ \A i \in 0..Len(s) : SizesUpTo(Append(s, r))[i] = SizesUpTo(s)[i]
         /\ SizesUpTo(Append(s, r))[Len(s) + 1] = SizesUpTo(s)[Len(s)] + r.size
<1> DEFINE u == Append(s, r)
           f == SizesUpTo(s)
           g == SizesUpTo(u)
<1>1. u \in Seq(Record) /\ Len(u) = Len(s) + 1 /\ u[Len(s) + 1] = r /\ Len(s) \in Nat
      /\ \A i \in 1..Len(s) : u[i] = s[i]
  OBVIOUS
<1> HIDE DEF u
<1>2. IsSizes(f, s, Len(s)) /\ IsSizes(g, u, Len(s) + 1)
  <2>1. IsSizes(g, u, Len(u))
    BY <1>1, SizesEquation
  <2>2. IsSizes(f, s, Len(s))
    BY SizesEquation
  <2> QED
    BY <1>1, <2>1, <2>2
<1> HIDE DEF f, g
<1> DEFINE T == {k \in Nat : k <= Len(s) /\ g[k] # f[k]}
<1>3. ASSUME T # {} PROVE FALSE
  <2>1. PICK k \in T : \A y \in T : k <= y
    BY <1>3, LeastNumber
  <2>2. k # 0
    BY <1>2, <2>1 DEF IsSizes
  <2>3. k \in 1..Len(s) /\ k \in 1..(Len(s) + 1) /\ k - 1 \in Nat /\ k - 1 <= Len(s) /\ k - 1 \notin T
    BY <1>1, <2>1, <2>2
  <2>4. g[k - 1] = f[k - 1]
    BY <2>3
  <2>5. g[k] = g[k - 1] + u[k].size
    BY <1>2, <2>3 DEF IsSizes
  <2>6. f[k] = f[k - 1] + s[k].size
    BY <1>2, <2>3 DEF IsSizes
  <2> QED
    BY <1>1, <2>1, <2>3, <2>4, <2>5, <2>6
<1>4. \A i \in 0..Len(s) : g[i] = f[i]
  BY <1>1, <1>3
<1>5. g[Len(s) + 1] = g[Len(s)] + r.size
  BY <1>1, <1>2 DEF IsSizes
<1>6. g[Len(s) + 1] = f[Len(s)] + r.size
  BY <1>1, <1>4, <1>5
<1> QED
  BY <1>4, <1>6 DEF f, g, u

\* The size of a list of one or more records, from the sums a and b of sizes
\* before its first and up to its last record, at the positions i and j.
Slice(a, b, i, j) == 2 + (b - a) + (j - i - 1)

\* A part of a list of records is not longer than the list.
LEMMA SliceFacts ==
  /\ \A i, j, a, b \in Nat : a <= b /\ i < j => Slice(a, b, i, j) \in Nat
  /\ \A i, j, a, b, h, c \in Nat : a <= c /\ i <= h => Slice(c, b, h, j) <= Slice(a, b, i, j)
  /\ \A i, j, a, b, h, c \in Nat : c <= b /\ h <= j => Slice(a, c, i, h) <= Slice(a, b, i, j)
BY DEF Slice

\* One more record costs its size and a comma.
LEMMA SliceNext ==
  ASSUME NEW i \in Nat, NEW j \in Nat, NEW a \in Nat, NEW b \in Nat, NEW z \in Nat
  PROVE  Slice(a, b + z, i, j + 1) = Slice(a, b, i, j) + z + 1
BY DEF Slice

\* A list of one record has no comma.
LEMMA SliceOfOne ==
  ASSUME NEW i \in Nat, NEW a \in Nat, NEW z \in Nat
  PROVE  Slice(a, a + z, i, i + 1) = 2 + z
BY DEF Slice

\* The length of an encoding in terms of the two partial sums.
LEMMA SizeOfSlice ==
  ASSUME NEW s \in Seq(Record), NEW i \in 0..Len(s), NEW j \in (i + 1)..Len(s)
  PROVE  JsonSize(s, i, j) = Slice(SizesUpTo(s)[i], SizesUpTo(s)[j], i, j)
<1>1. i # j
  OBVIOUS
<1> QED
  BY <1>1 DEF JsonSize, BracketSize, Slice

\* The size of a list of records is a number, smaller for a part of the list.
LEMMA JsonSizeGrows ==
  ASSUME NEW s \in Seq(Record), NEW i \in 0..Len(s), NEW j \in (i + 1)..Len(s),
         NEW h \in i..(j - 1), NEW k \in (i + 1)..j
  PROVE  /\ JsonSize(s, i, j) \in Nat /\ JsonSize(s, h, j) \in Nat /\ JsonSize(s, i, k) \in Nat
         /\ JsonSize(s, h, j) <= JsonSize(s, i, j)
         /\ JsonSize(s, i, k) <= JsonSize(s, i, j)
<1> DEFINE f == SizesUpTo(s)
<1>0. Len(s) \in Nat
  OBVIOUS
<1>1. f[i] \in Nat /\ f[h] \in Nat /\ f[j] \in Nat /\ f[k] \in Nat
  BY <1>0, SizesGrow
<1>2. f[i] <= f[h] /\ f[h] <= f[j]
  <2>1. h \in i..Len(s) /\ h \in 0..Len(s) /\ j \in h..Len(s)
    BY <1>0
  <2> QED
    BY <2>1, SizesGrow
<1>3. f[i] <= f[k] /\ f[k] <= f[j]
  <2>1. k \in i..Len(s) /\ k \in 0..Len(s) /\ j \in k..Len(s)
    BY <1>0
  <2> QED
    BY <2>1, SizesGrow
<1> HIDE DEF f
<1>4. /\ JsonSize(s, i, j) = Slice(f[i], f[j], i, j)
      /\ JsonSize(s, h, j) = Slice(f[h], f[j], h, j)
      /\ JsonSize(s, i, k) = Slice(f[i], f[k], i, k)
  <2>1. h \in 0..Len(s) /\ j \in (h + 1)..Len(s) /\ k \in (i + 1)..Len(s)
    BY <1>0
  <2> QED
    BY <2>1, SizeOfSlice DEF f
<1>5. i \in Nat /\ j \in Nat /\ h \in Nat /\ k \in Nat /\ i <= h /\ h < j /\ i < k /\ k <= j
  BY <1>0
<1>6. i < j /\ f[i] <= f[j]
  BY <1>1, <1>2, <1>5
<1>7. Slice(f[i], f[j], i, j) \in Nat /\ Slice(f[h], f[j], h, j) \in Nat /\ Slice(f[i], f[k], i, k) \in Nat
  BY <1>1, <1>2, <1>3, <1>5, <1>6, SliceFacts
<1>8. Slice(f[h], f[j], h, j) <= Slice(f[i], f[j], i, j)
  BY <1>1, <1>2, <1>5, SliceFacts
<1>9. Slice(f[i], f[k], i, k) <= Slice(f[i], f[j], i, j)
  BY <1>1, <1>3, <1>5, SliceFacts
<1> QED
  BY <1>4, <1>7, <1>8, <1>9

\* The size of an empty list of records.
LEMMA JsonSizeEmpty ==
  ASSUME NEW s \in Seq(Record), NEW i \in 0..Len(s)
  PROVE  JsonSize(s, i, i) = BracketSize
<1>1. SizesUpTo(s)[i] \in Nat
  BY SizesGrow
<1> QED
  BY <1>1 DEF JsonSize, BracketSize

\* One more record adds its size, and a comma unless it is the first.
LEMMA JsonSizeOfAppend ==
  ASSUME NEW s \in Seq(Record), NEW r \in Record, NEW i \in 0..Len(s)
  PROVE  /\ \A j \in i..Len(s) : JsonSize(Append(s, r), i, j) = JsonSize(s, i, j)
         /\ JsonSize(Append(s, r), i, Len(s) + 1)
              = JsonSize(s, i, Len(s)) + r.size + (IF i = Len(s) THEN 0 ELSE 1)
         /\ JsonSize(s, i, Len(s)) \in Nat /\ r.size \in Nat
<1> DEFINE f == SizesUpTo(s)
           g == SizesUpTo(Append(s, r))
<1>a. Len(s) \in Nat
  OBVIOUS
<1>b. r.size \in Nat
  BY SinkWriteAssumption DEF Record
<1>0. Len(s) \in Nat /\ r.size \in Nat /\ i \in Nat /\ i <= Len(s)
  BY <1>a, <1>b
<1>1. \A j \in 0..Len(s) : g[j] = f[j]
  BY SizesOfAppend
<1>2. g[Len(s) + 1] = f[Len(s)] + r.size
  BY SizesOfAppend
<1>3. f[i] \in Nat /\ f[Len(s)] \in Nat /\ f[i] <= f[Len(s)]
  <2>1. Len(s) \in i..Len(s)
    BY <1>0
  <2> QED
    BY <2>1, SizesGrow
<1>4. \A j \in i..Len(s) : JsonSize(Append(s, r), i, j) = JsonSize(s, i, j)
  <2> TAKE j \in i..Len(s)
  <2>1. g[i] = f[i] /\ g[j] = f[j]
    BY <1>0, <1>1
  <2> QED
    BY <2>1 DEF JsonSize
<1> HIDE DEF f, g
<1>5. i # Len(s) => JsonSize(s, i, Len(s)) = Slice(f[i], f[Len(s)], i, Len(s))
  <2>1. i # Len(s) => Len(s) \in (i + 1)..Len(s)
    BY <1>0
  <2> QED
    BY <2>1, SizeOfSlice DEF f
<1>c. i = Len(s) => JsonSize(s, i, Len(s)) = 2
  BY JsonSizeEmpty DEF BracketSize
<1>6. JsonSize(Append(s, r), i, Len(s) + 1) = Slice(f[i], f[Len(s)] + r.size, i, Len(s) + 1)
  <2>1. Append(s, r) \in Seq(Record) /\ Len(Append(s, r)) = Len(s) + 1
    OBVIOUS
  <2>2. i \in 0..Len(Append(s, r)) /\ Len(s) + 1 \in (i + 1)..Len(Append(s, r)) /\ i \in 0..Len(s)
    BY <1>0, <2>1
  <2>3. JsonSize(Append(s, r), i, Len(s) + 1) = Slice(g[i], g[Len(s) + 1], i, Len(s) + 1)
    BY <2>1, <2>2, SizeOfSlice DEF g
  <2> QED
    BY <1>1, <1>2, <2>2, <2>3
<1>7. CASE i = Len(s)
  <2>1. Slice(f[i], f[i] + r.size, i, i + 1) = 2 + r.size
    BY <1>0, <1>3, SliceOfOne, Zenon
  <2> QED
    BY <1>0, <1>4, <1>6, <1>7, <1>c, <2>1, SMT
<1>8. CASE i # Len(s)
  <2>0. i < Len(s)
    BY <1>0, <1>8
  <2>1. Slice(f[i], f[Len(s)] + r.size, i, Len(s) + 1) = Slice(f[i], f[Len(s)], i, Len(s)) + r.size + 1
    <3> DEFINE n == Len(s)  x == f[i]  y == f[Len(s)]  z == r.size
    <3>1. i \in Nat /\ n \in Nat /\ x \in Nat /\ y \in Nat /\ z \in Nat
      BY <1>0, <1>3
    <3> HIDE DEF n, x, y, z
    <3>2. Slice(x, y + z, i, n + 1) = Slice(x, y, i, n) + z + 1
      BY <3>1, SliceNext
    <3> QED
      BY <3>2 DEF n, x, y, z
  <2>2. Slice(f[i], f[Len(s)], i, Len(s)) \in Nat
    BY <1>0, <1>3, <2>0, SliceFacts
  <2> QED
    BY <1>0, <1>4, <1>5, <1>6, <1>8, <2>1, <2>2
<1> QED
  BY <1>7, <1>8

-----------------------------------------------------------------------------
(***************************************************************************)
(* The greedy chunker is never behind.  Own: the chunks passed on so far    *)
(* cut the first o records.  Ahead: no n chunks, however cut, reach past    *)
(* the first o records.  Least: no way of cutting all records has fewer     *)
(* than n chunks.                                                          *)
(***************************************************************************)
Own(s, most, n, o) ==
  \E ends \in SUBSET (1..o) :
    /\ o > 0 => o \in ends
    /\ AllFit(s, most, ends)
    /\ Cardinality(ends) = n

Ahead(s, most, n, o) ==
  \A ends \in SUBSET (1..(o + 1)) :
    AllFit(s, most, ends) /\ Cardinality(ends) <= n => o + 1 \notin ends

Least(s, most, n) ==
  \A ends \in SUBSET (1..Len(s)) : Cutting(s, most, ends) => n <= Cardinality(ends)

\* Positions are finitely many.
LEMMA EndsFinite ==
  ASSUME NEW n \in Nat, NEW ends \in SUBSET (1..n)
  PROVE  IsFiniteSet(ends) /\ Cardinality(ends) \in Nat
<1>1. IsFiniteSet(1..n)
  BY FS_Interval
<1> QED
  BY <1>1, FS_Subset, FS_CardinalityType

\* A way of cutting that passes o can be shortened to end at o + 1, with no
\* more chunks: the chunk that passes o ends earlier and is no longer.
LEMMA Truncated ==
  ASSUME NEW s \in Seq(Record), NEW most \in Nat, NEW o \in Nat, o + 1 <= Len(s),
         NEW ends \in SUBSET (1..Len(s)), AllFit(s, most, ends), NEW a \in ends, a > o
  PROVE  \E cut \in SUBSET (1..(o + 1)) :
           AllFit(s, most, cut) /\ o + 1 \in cut /\ Cardinality(cut) <= Cardinality(ends)
<1>0. Len(s) \in Nat /\ \A e \in ends : e \in Nat /\ 1 <= e /\ e <= Len(s)
  OBVIOUS
<1> DEFINE past == {e \in ends : e > o}
           before == {e \in ends : e <= o}
           cut == before \cup {o + 1}
<1>1. PICK c \in past : \A e \in past : c <= e
  <2>1. past \subseteq Nat /\ past # {}
    BY <1>0
  <2> HIDE DEF past
  <2> QED
    BY <2>1, LeastNumber
<1>2. c \in ends /\ c \in Nat /\ o + 1 <= c /\ c <= Len(s)
      /\ \A e \in ends : e <= o \/ c <= e
  <2>1. c \in ends /\ c > o
    BY <1>1
  <2>2. \A e \in ends : e <= o \/ c <= e
    BY <1>0, <1>1
  <2> QED
    BY <1>0, <2>1, <2>2
<1>3. cut \in SUBSET (1..(o + 1)) /\ o + 1 \in cut
  <2>1. \A e \in ends : e <= o => e \in 1..(o + 1)
    BY <1>0
  <2>2. o + 1 \in 1..(o + 1)
    OBVIOUS
  <2> QED
    BY <2>1, <2>2
<1>4. Cardinality(cut) <= Cardinality(ends)
  <2>1. IsFiniteSet(ends) /\ Cardinality(ends) \in Nat
    BY <1>0, EndsFinite
  <2>2. before \subseteq ends \ {c}
    BY <1>0, <1>2
  <2>3. IsFiniteSet(ends \ {c}) /\ Cardinality(ends \ {c}) = Cardinality(ends) - 1
    BY <1>2, <2>1, FS_RemoveElement
  <2>4. IsFiniteSet(before) /\ Cardinality(before) <= Cardinality(ends) - 1
    BY <2>2, <2>3, FS_Subset
  <2>5. Cardinality(before) \in Nat
    BY <2>4, FS_CardinalityType
  <2> HIDE DEF before
  <2>6. Cardinality(cut) <= Cardinality(before) + 1 /\ Cardinality(cut) \in Nat
    <3>1. Cardinality(before \cup {o + 1}) =
            IF o + 1 \in before THEN Cardinality(before) ELSE Cardinality(before) + 1
      BY <2>4, FS_AddElement
    <3> QED
      BY <2>5, <3>1
  <2> QED
    BY <2>1, <2>4, <2>5, <2>6
<1>5. ASSUME NEW b \in cut \cup {0}, NEW e \in cut, b < e, \A m \in cut : m <= b \/ e <= m
      PROVE  JsonSize(s, b, e) <= most
  <2>1. b \in Nat /\ e \in Nat
    BY <1>0
  <2>2. b <= o /\ b \in ends \cup {0}
    BY <1>0, <1>3, <1>5, <2>1
  <2>3. CASE e \in before
    <3>1. \A m \in ends : m <= b \/ e <= m
      <4> TAKE m \in ends
      <4>1. CASE m <= o
        BY <1>5, <4>1
      <4>2. CASE ~(m <= o)
        BY <1>0, <2>1, <2>3, <4>2
      <4> QED
        BY <4>1, <4>2
    <3> QED
      BY <1>5, <2>2, <2>3, <3>1 DEF AllFit
  <2>4. CASE e = o + 1
    <3>1. \A m \in ends : m <= b \/ c <= m
      <4> TAKE m \in ends
      <4>1. CASE m <= o
        BY <1>0, <1>5, <2>4, <4>1
      <4>2. CASE c <= m
        BY <4>2
      <4> QED
        BY <1>2, <4>1, <4>2
    <3>2. b < c
      BY <1>2, <2>1, <2>2
    <3>3. JsonSize(s, b, c) <= most
      BY <1>2, <2>2, <3>1, <3>2 DEF AllFit
    <3>4. JsonSize(s, b, e) <= JsonSize(s, b, c) /\ JsonSize(s, b, c) \in Nat /\ JsonSize(s, b, e) \in Nat
      <4>1. b \in 0..Len(s) /\ c \in (b + 1)..Len(s) /\ b \in b..(c - 1) /\ e \in (b + 1)..c
        BY <1>0, <1>2, <2>1, <2>2, <2>4
      <4> QED
        BY <4>1, JsonSizeGrows
    <3> QED
      BY <3>3, <3>4
  <2> QED
    BY <2>3, <2>4
<1>6. AllFit(s, most, cut)
  BY <1>5 DEF AllFit
<1> QED
  BY <1>3, <1>4, <1>6

\* One more record changes nothing about ways of cutting the records before it.
LEMMA AllFitAppend ==
  ASSUME NEW s \in Seq(Record), NEW r \in Record, NEW most \in Nat, NEW ends \in SUBSET (1..Len(s))
  PROVE  AllFit(Append(s, r), most, ends) <=> AllFit(s, most, ends)
<1>1. ASSUME NEW b \in ends \cup {0}, NEW e \in ends, b < e
      PROVE  JsonSize(Append(s, r), b, e) = JsonSize(s, b, e)
  <2>1. Len(s) \in Nat /\ e \in Nat /\ 1 <= e /\ e <= Len(s)
    OBVIOUS
  <2>2. b \in Nat
    <3>1. CASE b \in ends
      BY <3>1
    <3> QED
      BY <3>1
  <2>3. b \in 0..Len(s) /\ e \in b..Len(s)
    BY <1>1, <2>1, <2>2
  <2> QED
    BY <2>3, JsonSizeOfAppend
<1> QED
  BY <1>1 DEF AllFit

\* A way of cutting the first records stays one when a record is read.
LEMMA OwnAppend ==
  ASSUME NEW s \in Seq(Record), NEW r \in Record, NEW most \in Nat, NEW n \in Nat,
         NEW o \in 0..Len(s), Own(s, most, n, o)
  PROVE  Own(Append(s, r), most, n, o)
<1>1. PICK ends \in SUBSET (1..o) :
        (o > 0 => o \in ends) /\ AllFit(s, most, ends) /\ Cardinality(ends) = n
  BY DEF Own
<1>2. ends \in SUBSET (1..Len(s))
  <2>1. 1..o \subseteq 1..Len(s)
    OBVIOUS
  <2> QED
    BY <2>1
<1>3. AllFit(Append(s, r), most, ends)
  BY <1>1, <1>2, AllFitAppend
<1> QED
  BY <1>1, <1>3 DEF Own

\* What no chunks can reach they cannot reach when a record is read.
LEMMA AheadAppend ==
  ASSUME NEW s \in Seq(Record), NEW r \in Record, NEW most \in Nat, NEW n \in Nat,
         NEW o \in Nat, o + 1 <= Len(s), Ahead(s, most, n, o)
  PROVE  Ahead(Append(s, r), most, n, o)
<1> SUFFICES ASSUME NEW ends \in SUBSET (1..(o + 1)), AllFit(Append(s, r), most, ends),
                    Cardinality(ends) <= n
             PROVE  o + 1 \notin ends
  BY DEF Ahead
<1>1. ends \in SUBSET (1..Len(s))
  <2>1. 1..(o + 1) \subseteq 1..Len(s)
    OBVIOUS
  <2> QED
    BY <2>1
<1>2. AllFit(s, most, ends)
  BY <1>1, AllFitAppend
<1> QED
  BY <1>2 DEF Ahead

\* Before the first chunk there is nothing to be ahead of.
LEMMA AheadAtFirst ==
  ASSUME NEW s, NEW most, NEW o \in Nat
  PROVE  Ahead(s, most, 0, o)
<1> SUFFICES ASSUME NEW ends \in SUBSET (1..(o + 1)), Cardinality(ends) <= 0
             PROVE  o + 1 \notin ends
  BY DEF Ahead
<1>1. IsFiniteSet(ends) /\ Cardinality(ends) \in Nat
  BY o + 1 \in Nat, EndsFinite
<1>2. Cardinality(ends) = 0
  BY <1>1
<1>3. ends = {}
  BY <1>1, <1>2, FS_EmptySet
<1> QED
  BY <1>3

\* The chunk from o to j joins the chunks passed on.
LEMMA OwnNext ==
  ASSUME NEW s \in Seq(Record), NEW most \in Nat, NEW n \in Nat, NEW o \in Nat,
         NEW j \in (o + 1)..Len(s), Own(s, most, n, o), JsonSize(s, o, j) <= most
  PROVE  Own(s, most, n + 1, j)
<1>0. Len(s) \in Nat /\ j \in Nat /\ o < j /\ j > 0
  OBVIOUS
<1>1. PICK ends \in SUBSET (1..o) :
        (o > 0 => o \in ends) /\ AllFit(s, most, ends) /\ Cardinality(ends) = n
  BY DEF Own
<1>2. \A e \in ends : e \in Nat /\ 1 <= e /\ e <= o
  OBVIOUS
<1> DEFINE more == ends \cup {j}
<1>3. more \in SUBSET (1..j) /\ j \in more
  <2>1. \A e \in ends : e \in 1..j
    BY <1>0, <1>2
  <2>2. j \in 1..j
    BY <1>0
  <2> QED
    BY <2>1, <2>2
<1>4. Cardinality(more) = n + 1
  <2>1. IsFiniteSet(ends)
    BY EndsFinite
  <2>2. j \notin ends
    BY <1>0, <1>2
  <2> QED
    BY <1>1, <2>1, <2>2, FS_AddElement
<1>5. ASSUME NEW b \in more \cup {0}, NEW e \in more, b < e, \A m \in more : m <= b \/ e <= m
      PROVE  JsonSize(s, b, e) <= most
  <2>0. b \in Nat
    BY <1>0, <1>2
  <2>1. CASE e \in ends
    <3>1. b \in ends \cup {0}
      BY <1>0, <1>2, <1>5, <2>1
    <3> QED
      BY <1>1, <1>5, <2>1, <3>1 DEF AllFit
  <2>2. CASE e = j
    <3>1. b <= o
      BY <1>0, <1>2, <1>5, <2>2
    <3>2. CASE o > 0
      <4>1. o <= b
        BY <1>0, <1>1, <1>5, <2>2, <3>2
      <4> QED
        BY <2>0, <2>2, <3>1, <4>1
    <3>3. CASE o = 0
      BY <2>0, <2>2, <3>1, <3>3
    <3> QED
      BY <3>2, <3>3
  <2> QED
    BY <2>1, <2>2
<1>6. AllFit(s, most, more)
  BY <1>5 DEF AllFit
<1> QED
  BY <1>3, <1>4, <1>6 DEF Own

\* If n chunks never reach record o + 1, and records o + 1 to k + 1 do not fit
\* into one chunk, then n + 1 chunks never reach record k + 1.
LEMMA AheadNext ==
  ASSUME NEW s \in Seq(Record), NEW most \in Nat, NEW n \in Nat, NEW o \in Nat, NEW k \in Nat,
         o < k, k + 1 <= Len(s), Ahead(s, most, n, o), ~(JsonSize(s, o, k + 1) <= most)
  PROVE  Ahead(s, most, n + 1, k)
<1> SUFFICES ASSUME NEW ends \in SUBSET (1..(k + 1)), AllFit(s, most, ends),
                    Cardinality(ends) <= n + 1, k + 1 \in ends
             PROVE  FALSE
  BY DEF Ahead
<1>0. Len(s) \in Nat /\ \A e \in ends : e \in Nat /\ 1 <= e /\ e <= k + 1
  OBVIOUS
<1> DEFINE rest == ends \ {k + 1}
<1>1. IsFiniteSet(rest) /\ Cardinality(rest) \in Nat /\ Cardinality(rest) <= n
  <2>1. IsFiniteSet(ends) /\ Cardinality(ends) \in Nat
    BY k + 1 \in Nat, EndsFinite
  <2>2. IsFiniteSet(rest) /\ Cardinality(rest) = Cardinality(ends) - 1
    BY <2>1, FS_RemoveElement
  <2>3. Cardinality(rest) \in Nat
    BY <2>2, FS_CardinalityType
  <2> QED
    BY <2>1, <2>2, <2>3
<1>2. \A e \in rest : e \in ends /\ e <= k
  BY <1>0
<1>3. CASE \E a \in rest : a > o
  <2>1. PICK a \in rest : a > o
    BY <1>3
  <2>2. rest \in SUBSET (1..Len(s))
    <3>1. \A e \in rest : e \in 1..Len(s)
      BY <1>0
    <3> QED
      BY <3>1
  <2>3. AllFit(s, most, rest)
    <3>1. ASSUME NEW b \in rest \cup {0}, NEW e \in rest, b < e, \A m \in rest : m <= b \/ e <= m
          PROVE  JsonSize(s, b, e) <= most
      <4>1. \A m \in ends : m <= b \/ e <= m
        <5> TAKE m \in ends
        <5>1. CASE m = k + 1
          BY <1>0, <5>1
        <5> QED
          BY <3>1, <5>1
      <4> QED
        BY <3>1, <4>1 DEF AllFit
    <3> QED
      BY <3>1 DEF AllFit
  <2>4. PICK cut \in SUBSET (1..(o + 1)) :
          AllFit(s, most, cut) /\ o + 1 \in cut /\ Cardinality(cut) <= Cardinality(rest)
    <3> HIDE DEF rest
    <3>1. o + 1 <= Len(s)
      BY <1>0
    <3> QED
      BY <2>1, <2>2, <2>3, <3>1, Truncated
  <2>5. Cardinality(cut) <= n
    <3>1. Cardinality(cut) \in Nat
      BY o + 1 \in Nat, EndsFinite
    <3> QED
      BY <1>1, <2>4, <3>1
  <2> QED
    BY <2>4, <2>5 DEF Ahead
<1>4. CASE ~ \E a \in rest : a > o
  <2> DEFINE S == rest \cup {0}
  <2>1. S \subseteq 0..o /\ S # {}
    <3>1. \A e \in rest : e \in 0..o
      BY <1>0, <1>4
    <3> QED
      BY <3>1
  <2>2. PICK b \in S : \A y \in S : y <= b
    <3> HIDE DEF S
    <3> QED
      BY <2>1, GreatestBelow
  <2>3. b \in Nat /\ b <= o /\ b < k + 1 /\ b \in ends \cup {0}
    BY <2>1, <2>2
  <2>4. \A m \in ends : m <= b \/ k + 1 <= m
    BY <1>0, <2>2
  <2>5. JsonSize(s, b, k + 1) <= most
    BY <2>3, <2>4 DEF AllFit
  <2>6. /\ JsonSize(s, o, k + 1) <= JsonSize(s, b, k + 1)
        /\ JsonSize(s, o, k + 1) \in Nat /\ JsonSize(s, b, k + 1) \in Nat
    <3>1. /\ b \in 0..Len(s) /\ k + 1 \in (b + 1)..Len(s) /\ o \in b..((k + 1) - 1)
          /\ k + 1 \in (b + 1)..(k + 1)
      BY <1>0, <2>3
    <3> QED
      BY <3>1, JsonSizeGrows
  <2> QED
    BY <2>5, <2>6
<1> QED
  BY <1>3, <1>4

\* If n chunks never reach record o + 1, then all records need one more.
LEMMA LeastNext ==
  ASSUME NEW s \in Seq(Record), NEW most \in Nat, NEW n \in Nat, NEW o \in Nat,
         o + 1 <= Len(s), Ahead(s, most, n, o)
  PROVE  Least(s, most, n + 1)
<1> SUFFICES ASSUME NEW ends \in SUBSET (1..Len(s)), Cutting(s, most, ends),
                    ~(n + 1 <= Cardinality(ends))
             PROVE  FALSE
  BY DEF Least
<1>0. Len(s) \in Nat
  OBVIOUS
<1>1. Cardinality(ends) \in Nat
  BY <1>0, EndsFinite
<1>2. Len(s) \in ends /\ Len(s) > o /\ AllFit(s, most, ends)
  <2>1. s # <<>>
    OBVIOUS
  <2> QED
    BY <1>0, <2>1 DEF Cutting
<1>3. PICK cut \in SUBSET (1..(o + 1)) :
        AllFit(s, most, cut) /\ o + 1 \in cut /\ Cardinality(cut) <= Cardinality(ends)
  BY <1>2, Truncated
<1>4. Cardinality(cut) <= n
  <2>1. Cardinality(cut) \in Nat
    BY o + 1 \in Nat, EndsFinite
  <2> QED
    BY <1>1, <1>3, <2>1
<1> QED
  BY <1>3, <1>4 DEF Ahead

(***************************************************************************)
(* The induction.  While the chunker reads, `bytes' is the encoded size of  *)
(* the chunk, which holds the records after the ones passed on; while a     *)
(* chunk that a record did not fit into is written, that record is the      *)
(* first that the chunks passed on could not reach.                        *)
(***************************************************************************)
ReadInv ==
  /\ bytes = JsonSize(chunk, 0, Len(chunk))
  /\ bytes = JsonSize(produced, Len(offered), Len(produced))
  /\ chunk = <<>> => nchunks = 0
  /\ chunk # <<>> => bytes <= limit
  /\ Own(produced, limit, nchunks, Len(offered))
  /\ Ahead(produced, limit, nchunks, Len(offered))

WriteInv ==
  /\ JsonSize(chunk, 0, Len(chunk)) <= limit
  /\ Own(produced, limit, nchunks, Len(offered))
  /\ held = <<>> => Least(produced, limit, nchunks)
  /\ held # <<>> =>
       /\ Len(held) = 1 /\ held[1].size + BracketSize <= limit
       /\ Ahead(produced, limit, nchunks, Len(offered))

OptInv ==
  limit > 0 =>
    /\ status = "reading" => ReadInv
    /\ status = "writing" => WriteInv
    /\ status = "returned" =>
         Own(produced, limit, nchunks, Len(offered)) /\ Least(produced, limit, nchunks)

\* The invariant of the chunker holds when a call begins.
LEMMA CallOptInv ==
  ASSUME NEW b \in BOOLEAN, Call(b)
  PROVE  OptInv'
<1> SUFFICES ASSUME limit > 0 PROVE ReadInv'
  BY DEF OptInv, Call
<1>1. chunk' = <<>> /\ produced' = <<>> /\ offered' = <<>> /\ nchunks' = 0 /\ bytes' = BracketSize
      /\ UNCHANGED limit
  BY DEF Call
<1> DEFINE none == <<>>
<1>2. none \in Seq(Record) /\ Len(none) = 0
  OBVIOUS
<1> HIDE DEF none
<1>3. JsonSize(none, 0, 0) = BracketSize
  <2>1. 0 \in 0..Len(none)
    BY <1>2
  <2> QED
    BY <1>2, <2>1, JsonSizeEmpty
<1>4. Ahead(none, limit, 0, 0)
  BY AheadAtFirst
<1>5. Own(none, limit, 0, 0)
  <2>1. {} \in SUBSET (1..0) /\ AllFit(none, limit, {}) /\ Cardinality({}) = 0
    BY FS_EmptySet DEF AllFit
  <2> QED
    BY <2>1 DEF Own
<1>6. /\ chunk' = none /\ produced' = none /\ offered' = none
  BY <1>1 DEF none
<1> QED
  BY <1>1, <1>2, <1>3, <1>4, <1>5, <1>6 DEF ReadInv

\* What a record adds to the chunk it would join.
LEMMA SizeWithRecord ==
  ASSUME SinkTypeOK, SkipInv, limit > 0, status = "reading", ReadInv, NEW r \in Record
  PROVE  /\ JsonSize(Append(chunk, r), 0, Len(chunk) + 1) = bytes + WithSeparator(r)
         /\ JsonSize(Append(produced, r), Len(offered), Len(produced) + 1) = bytes + WithSeparator(r)
         /\ bytes \in Nat /\ r.size \in Nat /\ WithSeparator(r) \in Nat
         /\ Len(produced) \in Nat /\ Len(offered) \in Nat /\ Len(offered) <= Len(produced)
         /\ chunk = <<>> <=> Len(offered) = Len(produced)
<1>0. /\ chunk \in Seq(Record) /\ produced \in Seq(Record) /\ offered \in Seq(Record)
      /\ bytes \in Nat
  BY DEF SinkTypeOK
<1>1. offered \o chunk = produced
  BY DEF SkipInv
<1>2. /\ Len(chunk) \in Nat /\ Len(offered) \in Nat
      /\ Len(produced) = Len(offered) + Len(chunk)
      /\ chunk = <<>> <=> Len(chunk) = 0
  <2>1. Len(offered \o chunk) = Len(offered) + Len(chunk)
    BY <1>0
  <2>2. Len(chunk) \in Nat /\ Len(offered) \in Nat
    BY <1>0
  <2>3. chunk = <<>> <=> Len(chunk) = 0
    BY <1>0
  <2> QED
    BY <1>1, <2>1, <2>2, <2>3
<1>3. Len(produced) \in Nat /\ Len(offered) <= Len(produced)
      /\ (chunk = <<>> <=> Len(offered) = Len(produced))
  BY <1>2
<1>4. r.size \in Nat
  BY SinkWriteAssumption DEF Record
<1>5. WithSeparator(r) = r.size + (IF chunk = <<>> THEN 0 ELSE 1)
  BY DEF WithSeparator
<1>6. JsonSize(Append(chunk, r), 0, Len(chunk) + 1) = bytes + r.size + (IF 0 = Len(chunk) THEN 0 ELSE 1)
  <2>1. 0 \in 0..Len(chunk)
    BY <1>2
  <2>2. JsonSize(Append(chunk, r), 0, Len(chunk) + 1)
          = JsonSize(chunk, 0, Len(chunk)) + r.size + (IF 0 = Len(chunk) THEN 0 ELSE 1)
    BY <1>0, <2>1, JsonSizeOfAppend
  <2> QED
    BY <2>2 DEF ReadInv
<1>7. JsonSize(Append(produced, r), Len(offered), Len(produced) + 1)
        = bytes + r.size + (IF Len(offered) = Len(produced) THEN 0 ELSE 1)
  <2>1. Len(offered) \in 0..Len(produced)
    BY <1>2, <1>3
  <2>2. JsonSize(Append(produced, r), Len(offered), Len(produced) + 1)
          = JsonSize(produced, Len(offered), Len(produced)) + r.size
              + (IF Len(offered) = Len(produced) THEN 0 ELSE 1)
    BY <1>0, <2>1, JsonSizeOfAppend
  <2> QED
    BY <2>2 DEF ReadInv
<1>8. CASE chunk = <<>>
  BY <1>0, <1>2, <1>3, <1>4, <1>5, <1>6, <1>7, <1>8
<1>9. CASE chunk # <<>>
  <2>1. WithSeparator(r) = r.size + 1 /\ 0 # Len(chunk) /\ Len(offered) # Len(produced)
    BY <1>2, <1>3, <1>5, <1>9
  <2>2. bytes + WithSeparator(r) = bytes + r.size + 1 /\ WithSeparator(r) \in Nat
    <3> DEFINE z == r.size
    <3>1. z \in Nat /\ bytes \in Nat /\ WithSeparator(r) = z + 1
      BY <1>0, <1>4, <2>1
    <3> HIDE DEF z
    <3>2. bytes + WithSeparator(r) = bytes + z + 1 /\ WithSeparator(r) \in Nat
      BY <3>1
    <3> QED
      BY <3>2 DEF z
  <2> QED
    BY <1>0, <1>2, <1>3, <1>4, <1>6, <1>7, <2>1, <2>2
<1> QED
  BY <1>8, <1>9

\* Reading a record keeps it, whether it fits, overflows or is refused.
LEMMA ReadsOptInv ==
  ASSUME SinkTypeOK, SkipInv, OptInv, NEW r \in Record, Reads(r)
  PROVE  OptInv'
<1> SUFFICES ASSUME limit > 0 PROVE OptInv'
  <2>1. UNCHANGED limit
    BY DEF Reads, SinkReads, RecordTooLarge, RecordFits, RecordOverflows
  <2> QED
    BY <2>1 DEF OptInv
<1>1. status = "reading" /\ ReadInv /\ produced' = Append(produced, r)
      /\ (RecordTooLarge(r) \/ RecordFits(r) \/ RecordOverflows(r))
  BY DEF OptInv, Reads, SinkReads, RecordTooLarge, RecordFits, RecordOverflows, Yields
<1> DEFINE o == Len(offered)
           longer == Append(produced, r)
<1>2. /\ JsonSize(Append(chunk, r), 0, Len(chunk) + 1) = bytes + WithSeparator(r)
      /\ JsonSize(longer, o, Len(produced) + 1) = bytes + WithSeparator(r)
      /\ bytes \in Nat /\ r.size \in Nat /\ WithSeparator(r) \in Nat
      /\ Len(produced) \in Nat /\ o \in Nat /\ o <= Len(produced)
      /\ chunk = <<>> <=> o = Len(produced)
  BY <1>1, SizeWithRecord
<1>3. /\ chunk \in Seq(Record) /\ produced \in Seq(Record) /\ offered \in Seq(Record)
      /\ nchunks \in Nat /\ limit \in Nat
  BY SinkWriteAssumption DEF SinkTypeOK
<1>4. longer \in Seq(Record) /\ Len(longer) = Len(produced) + 1
  BY <1>3
<1>5. Own(longer, limit, nchunks, o)
  <2>1. o \in 0..Len(produced)
    BY <1>2
  <2> QED
    BY <1>1, <1>3, <2>1, OwnAppend DEF ReadInv
<1>6. Ahead(longer, limit, nchunks, o)
  <2>1. CASE chunk = <<>>
    BY <1>1, <1>2, <2>1, AheadAtFirst DEF ReadInv
  <2>2. CASE chunk # <<>>
    <3>1. o + 1 <= Len(produced)
      BY <1>2, <2>2
    <3> QED
      BY <1>1, <1>2, <1>3, <3>1, AheadAppend DEF ReadInv
  <2> QED
    BY <2>1, <2>2
<1> HIDE DEF longer
<1>7. CASE RecordTooLarge(r)
  BY <1>7 DEF RecordTooLarge, OptInv
<1>8. CASE RecordFits(r)
  <2>1. /\ chunk' = Append(chunk, r) /\ bytes' = bytes + WithSeparator(r) /\ FitsIn(r)
        /\ produced' = longer /\ UNCHANGED <<limit, status, offered, nchunks>>
    BY <1>1, <1>8 DEF RecordFits, longer
  <2>2. Append(chunk, r) # <<>> /\ Len(Append(chunk, r)) = Len(chunk) + 1
    <3>1. Len(Append(chunk, r)) = Len(chunk) + 1 /\ Len(chunk) \in Nat
      BY <1>3
    <3>2. Len(<<>>) = 0
      OBVIOUS
    <3> QED
      BY <3>1, <3>2
  <2>3. bytes + WithSeparator(r) <= limit
    BY <2>1 DEF FitsIn
  <2>4. ReadInv'
    BY <1>2, <1>4, <1>5, <1>6, <2>1, <2>2, <2>3 DEF ReadInv
  <2> QED
    BY <1>1, <2>1, <2>4 DEF OptInv
<1>9. CASE RecordOverflows(r)
  <2>1. /\ status' = "writing" /\ offered' = offered \o chunk /\ nchunks' = nchunks + 1
        /\ held' = <<r>> /\ produced' = longer /\ UNCHANGED <<limit, chunk>>
        /\ ~TooLarge(r) /\ ~FitsIn(r)
    BY <1>1, <1>9 DEF RecordOverflows, longer
  <2>a. ~(bytes + WithSeparator(r) <= limit)
    BY <2>1 DEF FitsIn
  <2>b. r.size + BracketSize <= limit
    <3> DEFINE z == r.size + BracketSize
    <3>1. ~(z > limit)
      BY <2>1 DEF TooLarge
    <3>2. z \in Nat
      BY <1>2 DEF BracketSize
    <3> HIDE DEF z
    <3>3. z <= limit
      BY <1>3, <3>1, <3>2
    <3> QED
      BY <3>3 DEF z
  <2>2. ~(bytes + WithSeparator(r) <= limit) /\ r.size + BracketSize <= limit
    BY <2>a, <2>b
  <2>3. chunk # <<>>
    <3> SUFFICES ASSUME chunk = <<>> PROVE FALSE
      OBVIOUS
    <3>1. 0 = Len(chunk) /\ bytes = JsonSize(chunk, 0, 0)
      BY <1>1 DEF ReadInv
    <3>a. 0 \in 0..Len(chunk)
      BY <3>1
    <3>2. bytes = BracketSize
      BY <1>3, <3>1, <3>a, JsonSizeEmpty
    <3> QED
      BY <1>2, <2>2, <3>2 DEF WithSeparator, BracketSize
  <2>4. Len(offered') = Len(produced)
    BY <1>1, <2>1 DEF SkipInv
  <2>5. o < Len(produced) /\ Len(produced) \in (o + 1)..Len(longer)
    BY <1>2, <1>4, <2>3
  <2>6. JsonSize(longer, o, Len(produced)) = bytes /\ bytes <= limit
    <3>1. o \in 0..Len(produced) /\ Len(produced) \in o..Len(produced)
      BY <1>2
    <3>2. JsonSize(longer, o, Len(produced)) = JsonSize(produced, o, Len(produced))
      BY <1>3, <3>1, JsonSizeOfAppend DEF longer
    <3> QED
      BY <1>1, <2>3, <3>2 DEF ReadInv
  <2>7. Own(longer, limit, nchunks + 1, Len(produced))
    BY <1>2, <1>3, <1>4, <1>5, <2>5, <2>6, OwnNext
  <2>8. Ahead(longer, limit, nchunks + 1, Len(produced))
    <3>1. ~(JsonSize(longer, o, Len(produced) + 1) <= limit) /\ Len(produced) + 1 <= Len(longer)
      BY <1>2, <1>4, <2>2
    <3> QED
      BY <1>2, <1>3, <1>4, <1>6, <2>5, <3>1, AheadNext
  <2>9. JsonSize(chunk, 0, Len(chunk)) <= limit
    BY <1>1, <2>3 DEF ReadInv
  <2>10. WriteInv'
    BY <2>1, <2>2, <2>4, <2>7, <2>8, <2>9 DEF WriteInv
  <2> QED
    BY <2>1, <2>10 DEF OptInv
<1> QED
  BY <1>1, <1>7, <1>8, <1>9

\* The end of the generator keeps it: the last chunk is passed on.
LEMMA GenEndsOptInv ==
  ASSUME SinkTypeOK, SkipInv, OptInv, GenEnds
  PROVE  OptInv'
<1> SUFFICES ASSUME limit > 0 PROVE OptInv'
  BY DEF OptInv, GenEnds
<1>1. /\ status = "reading" /\ ReadInv /\ offered' = offered \o chunk
      /\ UNCHANGED <<limit, chunk, produced, held>>
  BY DEF OptInv, GenEnds
<1>2. held = <<>> /\ Len(offered') = Len(produced)
  BY <1>1 DEF SkipInv
<1>3. /\ chunk \in Seq(Record) /\ produced \in Seq(Record) /\ offered \in Seq(Record)
      /\ nchunks \in Nat /\ limit \in Nat
  BY SinkWriteAssumption DEF SinkTypeOK
<1>4. Len(produced) = Len(offered) + Len(chunk) /\ Len(chunk) \in Nat /\ Len(offered) \in Nat
      /\ (chunk = <<>> <=> Len(chunk) = 0)
  <2>1. Len(offered \o chunk) = Len(offered) + Len(chunk) /\ Len(chunk) \in Nat /\ Len(offered) \in Nat
    BY <1>3
  <2>2. chunk = <<>> <=> Len(chunk) = 0
    BY <1>3
  <2> QED
    BY <1>1, <1>2, <2>1, <2>2
<1>5. CASE chunk = <<>>
  <2>1. status' = "returned" /\ nchunks' = nchunks /\ nchunks = 0
    BY <1>1, <1>5 DEF GenEnds, ReadInv
  <2>2. Least(produced, limit, 0)
    <3> SUFFICES ASSUME NEW ends \in SUBSET (1..Len(produced)) PROVE 0 <= Cardinality(ends)
      BY DEF Least
    <3>1. Len(produced) \in Nat
      BY <1>4
    <3>2. Cardinality(ends) \in Nat
      BY <3>1, EndsFinite
    <3> QED
      BY <3>2
  <2>3. Own(produced, limit, nchunks, Len(produced))
    BY <1>1, <1>4, <1>5 DEF ReadInv
  <2> QED
    BY <1>1, <1>2, <2>1, <2>2, <2>3 DEF OptInv
<1>6. CASE chunk # <<>>
  <2>1. status' = "writing" /\ nchunks' = nchunks + 1
    BY <1>6 DEF GenEnds
  <2>2. Len(produced) \in (Len(offered) + 1)..Len(produced) /\ Len(offered) + 1 <= Len(produced)
    BY <1>4, <1>6
  <2>3. Least(produced, limit, nchunks + 1)
    BY <1>1, <1>3, <1>4, <2>2, LeastNext DEF ReadInv
  <2>4. JsonSize(produced, Len(offered), Len(produced)) <= limit /\ JsonSize(chunk, 0, Len(chunk)) <= limit
    BY <1>1, <1>6 DEF ReadInv
  <2>5. Own(produced, limit, nchunks + 1, Len(produced))
    BY <1>1, <1>3, <1>4, <2>2, <2>4, OwnNext DEF ReadInv
  <2>6. WriteInv'
    BY <1>1, <1>2, <2>1, <2>3, <2>4, <2>5 DEF WriteInv
  <2> QED
    BY <2>1, <2>6 DEF OptInv
<1> QED
  BY <1>5, <1>6

\* The answers of the sink keep it: they do not change the chunks.
LEMMA WritesOptInv ==
  ASSUME SinkTypeOK, SkipInv, OptInv, Writes
  PROVE  OptInv'
<1> SUFFICES ASSUME limit > 0 PROVE OptInv'
  <2>1. UNCHANGED limit
    BY DEF Writes, WriteReturns, WriteRetried, WriteRaises
  <2> QED
    BY <2>1 DEF OptInv
<1>1. PICK o \in Outcomes, k \in 0..Len(chunk) :
        WriteReturns(o, k) \/ WriteRetried(o, k) \/ WriteRaises(o, k)
  BY DEF Writes
<1>2. status = "writing" /\ WriteInv /\ UNCHANGED <<limit, produced, offered, nchunks>>
  BY <1>1 DEF WriteReturns, WriteRetried, WriteRaises, OptInv
<1>3. CASE WriteReturns(o, k) /\ held = <<>>
  <2>1. status' = "returned"
    BY <1>3 DEF WriteReturns
  <2> QED
    BY <1>2, <1>3, <2>1 DEF WriteInv, OptInv
<1>4. CASE WriteReturns(o, k) /\ held # <<>>
  <2>1. status' = "reading" /\ chunk' = held /\ bytes' = held[1].size + BracketSize
    BY <1>4 DEF WriteReturns
  <2>2. /\ held \in Seq(Record) /\ offered \in Seq(Record) /\ produced \in Seq(Record)
        /\ Len(held) = 1 /\ held[1].size + BracketSize <= limit
        /\ offered \o held = produced
    BY <1>2, <1>4 DEF SinkTypeOK, SkipInv, WriteInv
  <2> DEFINE r == held[1]
             none == <<>>
  <2>e. 1 \in 1..Len(held)
    BY <2>2
  <2>f. r \in Record
    BY <2>2, <2>e
  <2>a. r \in Record /\ none \in Seq(Record) /\ Len(none) = 0 /\ Len(offered) \in Nat
    BY <2>2, <2>f
  <2>b. held = <<r>>
    BY <2>2
  <2>c. held = Append(none, r)
    BY <2>b
  <2>d. produced = Append(offered, r)
    <3> HIDE DEF r
    <3>1. offered \o <<r>> = Append(offered, r)
      BY <2>2, <2>a, ConcatFacts
    <3> QED
      BY <2>2, <2>b, <3>1
  <2>3. r \in Record /\ held = Append(none, r) /\ produced = Append(offered, r)
        /\ none \in Seq(Record) /\ Len(none) = 0 /\ Len(offered) \in Nat
    BY <2>a, <2>c, <2>d
  <2>4. r.size \in Nat
    BY <2>3, SinkWriteAssumption DEF Record
  <2> HIDE DEF r, none
  <2>5. JsonSize(held, 0, Len(held)) = r.size + BracketSize
    <3>2. 0 \in 0..Len(none)
      BY <2>3
    <3>1. JsonSize(none, 0, Len(none)) = BracketSize
      BY <2>3, <3>2, JsonSizeEmpty
    <3>3. JsonSize(Append(none, r), 0, Len(none) + 1) = JsonSize(none, 0, Len(none)) + r.size + 0
      BY <2>3, <3>2, JsonSizeOfAppend
    <3> QED
      BY <2>2, <2>3, <2>4, <3>1, <3>3 DEF BracketSize
  <2>6. JsonSize(produced, Len(offered), Len(produced)) = r.size + BracketSize
    <3>1. Len(produced) = Len(offered) + 1
      BY <2>2, <2>3
    <3>2. Len(offered) \in 0..Len(offered)
      BY <2>3
    <3>3. JsonSize(offered, Len(offered), Len(offered)) = BracketSize
      BY <2>2, <3>2, JsonSizeEmpty
    <3>4. JsonSize(Append(offered, r), Len(offered), Len(offered) + 1)
            = JsonSize(offered, Len(offered), Len(offered)) + r.size + 0
      BY <2>2, <2>3, <3>2, JsonSizeOfAppend
    <3> QED
      BY <2>3, <2>4, <3>1, <3>3, <3>4 DEF BracketSize
  <2>7. ReadInv'
    BY <1>2, <1>4, <2>1, <2>2, <2>5, <2>6 DEF ReadInv, WriteInv, r
  <2> QED
    BY <2>1, <2>7 DEF OptInv
<1>5. CASE WriteRetried(o, k)
  BY <1>2, <1>5 DEF WriteRetried, OptInv, WriteInv
<1>6. CASE WriteRaises(o, k)
  BY <1>6 DEF WriteRaises, OptInv
<1> QED
  BY <1>1, <1>3, <1>4, <1>5, <1>6

\* ChunkingOptimal for every chunk size, every set of record sizes and any
\* number of records: the greedy chunker never passes a chunk that is too long
\* to the sink, and no way of cutting the records has fewer chunks
\* (itertools.py:26-60).
THEOREM ChunkingIsOptimal == SinkWriteSpec => []ChunkingOptimal
<1>1. SinkInit => SkipInv /\ OptInv
  BY DEF SinkInit, SkipInv, OptInv
<1>2. SinkTypeOK /\ SkipInv /\ OptInv /\ [CallNext]_sinkVars => OptInv'
  <2> SUFFICES ASSUME SinkTypeOK, SkipInv, OptInv, [CallNext]_sinkVars
               PROVE  OptInv'
    OBVIOUS
  <2>1. ASSUME NEW b \in BOOLEAN, Call(b) PROVE OptInv'
    BY <2>1, CallOptInv
  <2>2. CASE GenStarts
    BY <2>2 DEF GenStarts, OptInv, ReadInv, WriteInv
  <2>3. ASSUME NEW n \in Sizes,
               Reads([id |-> Len(produced) + 1, cycle |-> 1, task |-> 1, src |-> 0, size |-> n])
        PROVE  OptInv'
    <3>1. [id |-> Len(produced) + 1, cycle |-> 1, task |-> 1, src |-> 0, size |-> n] \in Record
      BY DEF SinkTypeOK, Record
    <3> QED
      BY <2>3, <3>1, ReadsOptInv
  <2>4. CASE GenRaises
    BY <2>4 DEF GenRaises, OptInv
  <2>5. ASSUME NEW k \in 0..Len(chunk), ReadFails(k) PROVE OptInv'
    BY <2>5 DEF ReadFails, OptInv
  <2>6. CASE UNCHANGED sinkVars
    BY <2>6 DEF sinkVars, callVars, OptInv, ReadInv, WriteInv
  <2> QED
    BY <2>1, <2>2, <2>3, <2>4, <2>5, <2>6, GenEndsOptInv, WritesOptInv DEF CallNext
<1>3. SinkTypeOK /\ OptInv /\ NothingSkipped => ChunkingOptimal
  <2> SUFFICES ASSUME SinkTypeOK, OptInv, NothingSkipped
               PROVE  ChunkFits /\ ChunksMinimal
    BY DEF ChunkingOptimal
  <2>1. ChunkFits
    BY DEF ChunkFits, OptInv, WriteInv
  <2>2. ASSUME limit > 0, status = "returned"
        PROVE  LET cuttings == {ends \in SUBSET (1..Len(produced)) : Cutting(produced, limit, ends)}
               IN  /\ \E ends \in cuttings : Cardinality(ends) = nchunks
                   /\ \A ends \in cuttings : nchunks <= Cardinality(ends)
    <3>1. Own(produced, limit, nchunks, Len(produced)) /\ Least(produced, limit, nchunks)
      BY <2>2 DEF OptInv, NothingSkipped
    <3>2. PICK ends \in SUBSET (1..Len(produced)) :
            /\ Len(produced) > 0 => Len(produced) \in ends
            /\ AllFit(produced, limit, ends)
            /\ Cardinality(ends) = nchunks
      BY <3>1 DEF Own
    <3>3. produced # <<>> => Len(produced) > 0
      BY DEF SinkTypeOK
    <3>4. Cutting(produced, limit, ends)
      BY <3>2, <3>3 DEF Cutting
    <3> QED
      BY <3>1, <3>2, <3>4 DEF Least
  <2> QED
    BY <2>1, <2>2 DEF ChunksMinimal
<1> QED
  BY <1>1, <1>2, <1>3, SinkTypeCorrect, SkipAlways, NothingIsSkipped, PTL DEF SinkWriteSpec
=============================================================================
