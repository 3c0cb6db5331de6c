----------------------------- MODULE SinkWrite -----------------------------
(***************************************************************************)
(* One call of write_to_sink_with_retries (gcm/monitoring/sink/utils.py):  *)
(* the records of a lazy generator are cut into chunks of bounded JSON     *)
(* size by chunk_by_json_size (gcm/monitoring/itertools.py), and each      *)
(* chunk is handed to the sink's write through the retry decorator         *)
(* (gcm/monitoring/decorators.py).                                         *)
(*                                                                         *)
(* Generator, chunker and sink alternate: a record is produced only when   *)
(* somebody asks for the next one.  With chunking the chunker asks; with   *)
(* chunk_size 0 the sink itself does, inside write, so an exception of the *)
(* generator is then an exception of write.                                *)
(***************************************************************************)
EXTENDS Integers, Sequences, FiniteSets

CONSTANTS
  Limits,      \* values of --chunk-size
  Retries,     \* --retries, the length of the back-off schedule
  Wrapped,     \* TRUE when write is decorated by log_error (monitor.py:139)
  Sizes,       \* JSON sizes a record may have
  MaxRecords   \* bound on the records one generator yields

ASSUME SinkWriteAssumption ==
  /\ Limits \subseteq Nat
  /\ Retries \in Nat
  /\ Wrapped \in BOOLEAN
  /\ Sizes \subseteq Nat
  /\ MaxRecords \in Nat

VARIABLES
  limit,     \* chunk_size in bytes, 0 when chunking is disabled
  status,    \* where the call is
  routed,    \* the sink reads and stores this stream
  gen,       \* the generator: not started, running, exhausted or failed
  chunk,     \* chunk_by_json_size: chunk (chunk_size 0: what the sink has read)
  bytes,     \* chunk_by_json_size: chunk_size
  held,      \* the record that did not fit, kept while its predecessor is written
  tries,     \* retry: try_idx
  outcome,   \* what the sink's own write last did
  produced,  \* history: the records the generator yielded in this call
  offered,   \* history: the records of the chunks passed to write so far
  nchunks,   \* history: how many chunks that is
  delivered  \* the content of the sink

callVars == <<limit, status, routed, gen, chunk, bytes, held, tries, outcome, produced, offered, nchunks>>
sinkVars == <<callVars, delivered>>

BracketSize == 2    \* _OPEN_CLOSE_BRACKET_SIZE

\* A record: its identity, the cycle and task that produced it, the number of
\* the scrape it was built from (0 when it has none) and its JSON size.
Record == [id : Nat, cycle : Nat, task : Nat, src : Nat, size : Sizes]

Statuses == {"idle", "reading", "writing", "returned", "raised"}
Outcomes == {"ok", "retry", "error"}

SinkTypeOK ==
  /\ limit \in Limits
  /\ status \in Statuses
  /\ routed \in BOOLEAN
  /\ gen \in {"fresh", "active", "exhausted", "failed"}
  /\ chunk \in Seq(Record)
  /\ bytes \in Nat
  /\ held \in Seq(Record)
  /\ tries \in 0..Retries
  /\ outcome \in Outcomes \cup {"none"}
  /\ produced \in Seq(Record)
  /\ offered \in Seq(Record)
  /\ nchunks \in Nat
  /\ delivered \in Seq(Record)

SinkInit ==
  /\ limit \in Limits
  /\ status = "idle"
  /\ routed = FALSE
  /\ gen = "fresh"
  /\ chunk = <<>>
  /\ bytes = BracketSize
  /\ held = <<>>
  /\ tries = 0
  /\ outcome = "none"
  /\ produced = <<>>
  /\ offered = <<>>
  /\ nchunks = 0
  /\ delivered = <<>>

-----------------------------------------------------------------------------
(***************************************************************************)
(* The call.  A sink that does not route the stream returns or raises      *)
(* before it looks at the message, so with chunk_size 0 the generator is   *)
(* never started.                                                          *)
(***************************************************************************)
Call(isRouted) ==
  /\ status = "idle"
  /\ status' = IF limit = 0 /\ ~isRouted THEN "writing" ELSE "reading"
  /\ routed' = isRouted
  /\ gen' = "fresh"
  /\ chunk' = <<>>
  /\ bytes' = BracketSize
  /\ held' = <<>>
  /\ tries' = 0
  /\ outcome' = "none"
  /\ produced' = <<>>
  /\ offered' = <<>>
  /\ nchunks' = 0
  /\ UNCHANGED <<limit, delivered>>

(***************************************************************************)
(* The generator is asked for a record.                                    *)
(***************************************************************************)
GenStarts ==
  /\ status = "reading"
  /\ gen = "fresh"
  /\ gen' = "active"
  /\ UNCHANGED <<limit, status, routed, chunk, bytes, held, tries, outcome, produced, offered, nchunks, delivered>>

Yields(r) ==
  /\ status = "reading"
  /\ gen = "active"
  /\ Len(produced) < MaxRecords
  /\ produced' = Append(produced, r)

\* The bytes the record adds to the chunk: a separator unless it is the first.
WithSeparator(r) == r.size + (IF chunk = <<>> THEN 0 ELSE 1)

TooLarge(r) == r.size + BracketSize > limit

\* Mutant of FitsIn: a chunk is closed one byte early.
FitsStrictly(r) == bytes + WithSeparator(r) < limit

FitsIn(r) == bytes + WithSeparator(r) <= limit

\* chunk_size 0: the sink takes the record while it builds its payload.
SinkReads(r) ==
  /\ limit = 0
  /\ Yields(r)
  /\ chunk' = Append(chunk, r)
  /\ UNCHANGED <<limit, status, routed, gen, bytes, held, tries, outcome, offered, nchunks, delivered>>

\* ValueError of the chunker, turned into a UsageError: the records collected
\* so far for the current chunk are never written.
RecordTooLarge(r) ==
  /\ limit > 0
  /\ Yields(r)
  /\ TooLarge(r)
  /\ status' = "raised"
  /\ UNCHANGED <<limit, routed, gen, chunk, bytes, held, tries, outcome, offered, nchunks, delivered>>

RecordFits(r) ==
  /\ limit > 0
  /\ Yields(r)
  /\ ~TooLarge(r)
  /\ FitsIn(r)
  /\ chunk' = Append(chunk, r)
  /\ bytes' = bytes + WithSeparator(r)
  /\ UNCHANGED <<limit, status, routed, gen, held, tries, outcome, offered, nchunks, delivered>>

\* The chunk is yielded to the write loop; the record starts the next one.
RecordOverflows(r) ==
  /\ limit > 0
  /\ Yields(r)
  /\ ~TooLarge(r)
  /\ ~FitsIn(r)
  /\ status' = "writing"
  /\ offered' = offered \o chunk
  /\ nchunks' = nchunks + 1
  /\ held' = <<r>>
  /\ UNCHANGED <<limit, routed, gen, chunk, bytes, tries, outcome, delivered>>

\* Mutant of GenEnds: the chunk left over at the end is not written.
GenEndsUnflushed ==
  /\ status = "reading"
  /\ gen = "active"
  /\ gen' = "exhausted"
  /\ status' = "returned"
  /\ UNCHANGED <<limit, routed, chunk, bytes, held, tries, outcome, produced, offered, nchunks, delivered>>

\* The last, partial chunk is written too; an empty one is not.
GenEnds ==
  /\ status = "reading"
  /\ gen = "active"
  /\ gen' = "exhausted"
  /\ LET nothingLeft == limit > 0 /\ chunk = <<>> IN
       /\ status' = IF nothingLeft THEN "returned" ELSE "writing"
       /\ nchunks' = IF nothingLeft THEN nchunks ELSE nchunks + 1
  /\ offered' = offered \o chunk
  /\ UNCHANGED <<limit, routed, chunk, bytes, held, tries, outcome, produced, delivered>>

-----------------------------------------------------------------------------
(***************************************************************************)
(* The sink's write and the decorators around it.  A sink may fail after   *)
(* it has stored some of the records: file and otel store them one by one, *)
(* and an HTTP request may time out after the server has taken it.         *)
(***************************************************************************)
SinkAnswers(o, k) ==
  /\ o \in IF routed THEN Outcomes ELSE {"ok", "error"}
  /\ k \in IF ~routed THEN {0} ELSE IF o = "ok" THEN {Len(chunk)} ELSE 0..Len(chunk)
  /\ outcome' = o
  /\ delivered' = delivered \o SubSeq(chunk, 1, k)

\* Mutant of log_error: write is not decorated.
NotDecorated(o) == o

\* What the caller of write sees: log_error logs every exception, `Retry`
\* included, and returns None.
log_error(o) == IF Wrapped THEN "ok" ELSE o

\* The chunk is done: the chunker resumes with the record it held back, or
\* the loop over the chunks is over.
WriteReturns(o, k) ==
  /\ status = "writing"
  /\ SinkAnswers(o, k)
  /\ log_error(o) = "ok"
  /\ status' = IF held = <<>> THEN "returned" ELSE "reading"
  /\ chunk' = held
  /\ bytes' = IF held = <<>> THEN bytes ELSE held[1].size + BracketSize
  /\ held' = <<>>
  /\ tries' = 0
  /\ UNCHANGED <<limit, routed, gen, produced, offered, nchunks>>

\* Mutant of WriteRetried: one try too many.
WriteRetriedOnceMore(o, k) ==
  /\ status = "writing"
  /\ SinkAnswers(o, k)
  /\ log_error(o) = "retry"
  /\ tries <= Retries
  /\ tries' = tries + 1
  /\ chunk' = IF limit = 0 THEN <<>> ELSE chunk
  /\ UNCHANGED <<limit, status, routed, gen, bytes, held, produced, offered, nchunks>>

\* Retry: write is called again with the same Log.  With chunk_size 0 its
\* message is the generator the first try has already read to the end.
WriteRetried(o, k) ==
  /\ status = "writing"
  /\ SinkAnswers(o, k)
  /\ log_error(o) = "retry"
  /\ tries < Retries
  /\ tries' = tries + 1
  /\ chunk' = IF limit = 0 THEN <<>> ELSE chunk
  /\ UNCHANGED <<limit, status, routed, gen, bytes, held, produced, offered, nchunks>>

\* Mutant of WriteRaises: the last try that asks for a retry passes for a success.
WriteForgiven(o, k) ==
  /\ status = "writing"
  /\ SinkAnswers(o, k)
  /\ \/ log_error(o) = "retry" /\ tries = Retries
     \/ log_error(o) = "error"
  /\ status' = IF log_error(o) = "retry" THEN "returned" ELSE "raised"
  /\ UNCHANGED <<limit, routed, gen, chunk, bytes, held, tries, produced, offered, nchunks>>

\* OutOfRetries, or an exception that is not Retry: a ClickException.
WriteRaises(o, k) ==
  /\ status = "writing"
  /\ SinkAnswers(o, k)
  /\ \/ log_error(o) = "retry" /\ tries = Retries
     \/ log_error(o) = "error"
  /\ status' = "raised"
  /\ UNCHANGED <<limit, routed, gen, chunk, bytes, held, tries, produced, offered, nchunks>>

\* The generator raises while the chunker reads it: nothing catches it before
\* write_to_sink_with_retries makes it a UsageError or a ClickException.
GenRaises ==
  /\ limit > 0
  /\ status = "reading"
  /\ gen \in {"fresh", "active"}
  /\ gen' = "failed"
  /\ status' = "raised"
  /\ UNCHANGED <<limit, routed, chunk, bytes, held, tries, outcome, produced, offered, nchunks, delivered>>

\* chunk_size 0: the generator raises, or the sink fails on a record it has
\* read; both happen inside write, after any of the records read were stored.
ReadFails(k) ==
  /\ limit = 0
  /\ status = "reading"
  /\ gen \in {"fresh", "active"}
  /\ gen' = "failed"
  /\ k \in 0..Len(chunk)
  /\ delivered' = delivered \o SubSeq(chunk, 1, k)
  /\ outcome' = "error"
  /\ status' = IF log_error("error") = "ok" THEN "returned" ELSE "raised"
  /\ UNCHANGED <<limit, routed, chunk, bytes, held, tries, produced, offered, nchunks>>

-----------------------------------------------------------------------------
Reads(r) == SinkReads(r) \/ RecordTooLarge(r) \/ RecordFits(r) \/ RecordOverflows(r)

Writes ==
  \E o \in Outcomes, k \in 0..Len(chunk) :
    WriteReturns(o, k) \/ WriteRetried(o, k) \/ WriteRaises(o, k)

\* The call on its own: one call, with a generator that yields any records.
CallNext ==
  \/ \E b \in BOOLEAN : Call(b)
  \/ GenStarts
  \/ \E n \in Sizes :
       Reads([id |-> Len(produced) + 1, cycle |-> 1, task |-> 1, src |-> 0, size |-> n])
  \/ GenEnds
  \/ GenRaises
  \/ \E k \in 0..Len(chunk) : ReadFails(k)
  \/ Writes

SinkWriteSpec == SinkInit /\ [][CallNext]_sinkVars /\ WF_sinkVars(CallNext)

\* With chunking, a call that returns has passed every record of the generator
\* to the sink's write, once and in order, whatever the chunk boundaries and
\* the retries; the record held back by a full chunk and the last, partial
\* chunk included (itertools.py:55-60).
NothingSkipped == status = "returned" /\ limit > 0 => offered = produced

\* Where record r is in a sequence of records.
Copies(r, s) == {i \in DOMAIN s : s[i] = r}

\* With chunking and an undecorated write a call that returns has stored every
\* record: a sink failure is either repaired by a later try or reported
\* (utils.py:368).
ReturnMeansDelivered ==
  ~Wrapped /\ limit > 0 /\ status = "returned" /\ routed =>
    \A i \in DOMAIN produced : Copies(produced[i], delivered) # {}

\* The price of retrying: a record may be stored several times, but never more
\* often than there are tries (decorators.py:51-53).  Without chunking it is
\* never stored twice: the generator in the Log is spent by the first try, so a
\* retry has nothing left to write, and what the first try lost stays lost
\* (utils.py:363-367).
DuplicatesBounded ==
  \A i \in DOMAIN delivered :
    Cardinality(Copies(delivered[i], delivered)) <= (IF limit = 0 THEN 1 ELSE Retries + 1)

-----------------------------------------------------------------------------
(***************************************************************************)
(* What chunk_by_json_size promises, said without its greedy algorithm.     *)
(***************************************************************************)
\* The JSON sizes of the first n records of s, added up, for every n.
SizesUpTo(s) ==
  LET total[n \in 0..Len(s)] == IF n = 0 THEN 0 ELSE total[n - 1] + s[n].size
  IN  total

\* The length of the compact JSON encoding of the list of the records i + 1
\* to j of s: brackets, records, and commas between them.
JsonSize(s, i, j) ==
  BracketSize + (SizesUpTo(s)[j] - SizesUpTo(s)[i]) + (IF i = j THEN 0 ELSE j - i - 1)

\* A way of cutting records into chunks, in order, is the set of the positions
\* at which a chunk ends.  Every chunk, from one end to the next, is at most
\* `most' bytes long.
AllFit(s, most, ends) ==
  \A b \in ends \cup {0}, e \in ends :
    b < e /\ (\A m \in ends : m <= b \/ e <= m) => JsonSize(s, b, e) <= most

Cutting(s, most, ends) ==
  /\ ends \subseteq 1..Len(s)
  /\ s # <<>> => Len(s) \in ends
  /\ AllFit(s, most, ends)

\* Every chunk handed to the sink encodes to at most chunk_size bytes
\* (itertools.py:26-28).
ChunkFits == limit > 0 /\ status = "writing" => JsonSize(chunk, 0, Len(chunk)) <= limit

\* The chunks of a call that returned are one way of cutting its records, and
\* no way of cutting them has fewer (itertools.py:26, "the total number of
\* chunks is minimized").
ChunksMinimal ==
  limit > 0 /\ status = "returned" =>
    LET cuttings == {ends \in SUBSET (1..Len(produced)) : Cutting(produced, limit, ends)}
    IN  /\ \E ends \in cuttings : Cardinality(ends) = nchunks
        /\ \A ends \in cuttings : nchunks <= Cardinality(ends)

\* The chunker is exact at the boundary (itertools.py:49): one byte more and a
\* chunk would not fit, one byte less and a chunk would be wasted.
ChunkingOptimal == ChunkFits /\ ChunksMinimal
=============================================================================
