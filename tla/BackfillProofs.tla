--------------------------- MODULE BackfillProofs ---------------------------
(***************************************************************************)
(* Theorems about one round of a backfill, for every number of threads,    *)
(* permits, seconds and steps: the type invariant, the bound on concurrent *)
(* publishes, what a returned command has published, the refinement of     *)
(* PublishOnce, and that the threads never all wait for each other.        *)
(*                                                                         *)
(* All rest on Control, which says where the producer's chunk is and what  *)
(* the three ways to end imply.                                            *)
(***************************************************************************)
EXTENDS Backfill, FiniteSetTheorems, WellFoundedInduction, TLAPS

\* What appending does to a sequence.
LEMMA AppendFacts ==
  ASSUME NEW S, NEW s \in Seq(S), NEW x \in S
  PROVE  /\ Append(s, x) \in Seq(S)
         /\ Len(Append(s, x)) = Len(s) + 1
         /\ Append(s, x)[Len(s) + 1] = x
         /\ \A j \in 1..Len(s) : Append(s, x)[j] = s[j]
OBVIOUS

\* What replacing one element does to a sequence.
LEMMA ExceptFacts ==
  ASSUME NEW S, NEW s \in Seq(S), NEW i \in 1..Len(s), NEW x \in S
  PROVE  /\ [s EXCEPT ![i] = x] \in Seq(S)
         /\ Len([s EXCEPT ![i] = x]) = Len(s)
         /\ [s EXCEPT ![i] = x][i] = x
         /\ \A j \in 1..Len(s) : j # i => [s EXCEPT ![i] = x][j] = s[j]
OBVIOUS

\* The chunks of a phase are numbers of drawn chunks.
LEMMA AtFacts ==
  ASSUME BackfillTypeOK, NEW ph
  PROVE  /\ At(ph) \subseteq 1..Len(phase)
         /\ \A i \in 1..Len(phase) : i \in At(ph) <=> phase[i] = ph
BY DEF BackfillTypeOK, At

\* What the command line asked for stays.
USE DEF FromFile, Serial

Types ==
  /\ command \in Commands /\ concurrently \in Concurrencies
  /\ lower \in Nat /\ upper \in Nat /\ step \in Nat /\ start \in Nat
  /\ gen \in {"active", "ended"}
  /\ chunks \in Seq(Interval)
  /\ phase \in Seq(Phases) /\ Len(phase) = Len(chunks)
  /\ producer \in {"none", "next", "acquire", "put", "ended", "raised"}
  /\ consumer \in {"none", "get", "adding", "waiting", "ended"}
  /\ closed \in BOOLEAN
  /\ registered \subseteq 1..Len(chunks)
  /\ released \subseteq 1..Len(chunks)
  /\ failed \subseteq 1..Len(chunks)
  /\ main \in {"working", "returned", "raised"}

InRange == ~FromFile => start <= upper /\ lower <= start

\* The chunk in the producer's hand is the last one.
Hand ==
  /\ producer \in {"acquire", "put"} => Len(phase) > 0
  /\ \A i \in 1..Len(phase) :
       /\ (phase[i] = "drawn") <=> (producer = "acquire" /\ i = Len(phase))
       /\ (phase[i] = "permitted") <=> (producer = "put" /\ i = Len(phase))

Modes ==
  /\ Serial =>
       /\ producer = "none" /\ consumer = "none" /\ registered = {}
       /\ \A i \in 1..Len(phase) : phase[i] \in {"running", "ended"}
       /\ \A i, j \in 1..Len(phase) : phase[i] = "running" /\ phase[j] = "running" => i = j
  /\ ~Serial => producer # "none" /\ consumer # "none"

\* What each way to end implies.
Endings ==
  /\ closed => producer = "ended"
  /\ producer = "ended" => GenEnds
  /\ consumer \in {"waiting", "ended"} =>
       closed /\ \A i \in 1..Len(phase) : phase[i] # "queued"
  /\ consumer = "ended" => \A i \in 1..Len(phase) : phase[i] = "ended"
  /\ main = "returned" =>
       /\ Serial => GenEnds /\ \A i \in 1..Len(phase) : phase[i] = "ended"
       /\ ~Serial => consumer = "ended"

Callbacks ==
  /\ released \subseteq registered
  /\ \A i \in released : phase[i] = "ended"

Control == Types /\ InRange /\ Hand /\ Modes /\ Endings /\ Callbacks

\* The control invariant holds before the first interval is drawn.
LEMMA ControlInit ==
  ASSUME BackfillInit
  PROVE  Control
<1>1. Types
  <2>1. closed \in BOOLEAN
    BY Zenon DEF BackfillInit
  <2> QED
    BY <2>1, BackfillAssumption DEF BackfillInit, Types
<1>2. InRange /\ Hand /\ Modes /\ Callbacks
  BY BackfillAssumption DEF BackfillInit, InRange, Hand, Modes, Callbacks, Serial
<1>3. closed => producer = "ended"
  BY Zenon DEF BackfillInit
<1>4. Endings
  BY <1>3, BackfillAssumption DEF BackfillInit, Endings, Serial
<1> QED
  BY <1>1, <1>2, <1>4 DEF Control

\* Drawing an interval keeps the types of the generator.
LEMMA GenYieldsTypes ==
  ASSUME Types, InRange, GenYields
  PROVE  /\ start' \in Nat /\ gen' \in {"active", "ended"}
         /\ chunks' \in Seq(Interval) /\ Len(chunks') = Len(chunks) + 1
         /\ ~FromFile => start' <= upper /\ lower <= start'
<1> USE BackfillAssumption DEF Types, InRange
<1>1. CASE FromFile
  <2>1. PICK row \in Rows : chunks' = Append(chunks, row)
    BY <1>1 DEF GenYields, GenIntervals
  <2>2. row \in Interval
    BY <2>1
  <2>3. gen' \in {"active", "ended"} /\ start' = start
    BY <1>1 DEF GenYields, GenIntervals
  <2> QED
    BY <1>1, <2>1, <2>2, <2>3, AppendFacts
<1>2. CASE ~FromFile
  <2>1. NextBounds \in Interval
    BY <1>2 DEF GenYields, GenTimeBounds, NextBounds, Interval
  <2>2. chunks' \in Seq(Interval) /\ Len(chunks') = Len(chunks) + 1
    BY <1>2, <2>1, AppendFacts DEF GenYields, GenTimeBounds
  <2> QED
    BY <1>2, <2>2 DEF GenYields, GenTimeBounds
<1> QED
  BY <1>1, <1>2

\* Drawing an interval, serially or by the producer, keeps the control
\* invariant.
LEMMA DrawControl ==
  ASSUME Control, SerialBegins \/ ProducerDraws
  PROVE  Control'
<1> USE DEF Control
<1>1. GenYields
  BY DEF SerialBegins, ProducerDraws
<1>2. /\ start' \in Nat /\ gen' \in {"active", "ended"}
      /\ chunks' \in Seq(Interval) /\ Len(chunks') = Len(chunks) + 1
      /\ InRange'
  <2>1. UNCHANGED <<command, concurrently, lower, upper>>
    BY DEF SerialBegins, ProducerDraws, args
  <2> QED
    BY <1>1, <2>1, GenYieldsTypes DEF InRange
<1>3. PICK ph \in {"running", "drawn"} :
        /\ phase' = Append(phase, ph)
        /\ ph = "running" => SerialBegins
        /\ ph = "drawn" => ProducerDraws
  BY DEF SerialBegins, ProducerDraws
<1>4. /\ phase' \in Seq(Phases) /\ Len(phase') = Len(phase) + 1
      /\ phase'[Len(phase) + 1] = ph
      /\ \A j \in 1..Len(phase) : phase'[j] = phase[j]
  <2>1. ph \in Phases /\ phase \in Seq(Phases)
    BY DEF Phases, Types
  <2> QED
    BY <1>3, <2>1, AppendFacts
<1>5. /\ Len(phase) \in Nat /\ Len(phase) = Len(chunks)
      /\ 1..Len(phase') = 1..Len(phase) \cup {Len(phase) + 1}
  BY <1>4 DEF Types
<1>6. gen = "active" /\ main # "returned"
  <2>1. CASE ProducerDraws
    <3>1. producer = "next" /\ consumer # "ended" /\ ~Serial
      BY <2>1 DEF ProducerDraws, Endings, Modes
    <3> QED
      BY <1>1, <3>1 DEF GenYields, Endings
  <2> QED
    BY <2>1, <1>1 DEF SerialBegins, GenYields
<1>7. CASE SerialBegins
  <2>1. /\ UNCHANGED <<command, concurrently, lower, upper, step, sem, producer, consumer, closed, registered, released, failed, main>>
        /\ Serial /\ producer = "none" /\ consumer = "none" /\ ph = "running"
        /\ \A i \in 1..Len(phase) : phase[i] = "ended"
    <3>1. UNCHANGED <<command, concurrently, lower, upper, step, sem, producer, consumer, closed, registered, released, failed, main>>
      BY <1>7 DEF SerialBegins, args, poolVars
    <3>2. Serial /\ producer = "none" /\ consumer = "none"
      BY <1>7 DEF SerialBegins, Modes
    <3>3. ph = "running"
      BY <1>3, <3>2 DEF ProducerDraws
    <3>4. \A i \in 1..Len(phase) : phase[i] = "ended"
      BY <1>7, <3>2 DEF SerialBegins, Modes, At, Types
    <3> QED
      BY <3>1, <3>2, <3>3, <3>4
  <2>2. Types'
    BY <1>2, <1>4, <1>5, <2>1 DEF Types
  <2>3. Hand' /\ Modes'
    BY <1>4, <1>5, <2>1 DEF Hand, Modes, Serial
  <2>4. Endings'
    BY <1>6, <2>1 DEF Endings
  <2>5. Callbacks'
    BY <1>4, <1>5, <2>1 DEF Callbacks, Types
  <2> QED
    BY <1>2, <2>2, <2>3, <2>4, <2>5
<1>8. CASE ProducerDraws
  <2>1. /\ UNCHANGED <<command, concurrently, lower, upper, step, sem, consumer, closed, registered, released, failed, main>>
        /\ ~Serial /\ producer = "next" /\ producer' = "acquire" /\ ph = "drawn"
    <3>1. /\ UNCHANGED <<command, concurrently, lower, upper, step, sem, consumer, closed, registered, released, failed, main>>
          /\ producer = "next" /\ producer' = "acquire"
      BY <1>8 DEF ProducerDraws, args
    <3>2. ~Serial
      BY <3>1 DEF Modes
    <3> QED
      BY <3>1, <3>2, <1>3 DEF SerialBegins
  <2>2. Types'
    BY <1>2, <1>4, <1>5, <2>1 DEF Types
  <2>3. Hand' /\ Modes'
    BY <1>4, <1>5, <2>1 DEF Hand, Modes, Serial
  <2>4. Endings'
    BY <1>6, <2>1 DEF Endings
  <2>5. Callbacks'
    BY <1>4, <1>5, <2>1 DEF Callbacks, Types
  <2> QED
    BY <1>2, <2>2, <2>3, <2>4, <2>5
<1> QED
  BY <1>7, <1>8

\* Moving a chunk to its next phase is one of five steps.
Moves(i, from, to) ==
  /\ i \in 1..Len(phase)
  /\ phase[i] = from
  /\ phase' = [phase EXCEPT ![i] = to]

\* A chunk that moves leaves the others and their number alone.
LEMMA MovesFacts ==
  ASSUME Types, NEW i, NEW from, NEW to \in Phases, Moves(i, from, to)
  PROVE  /\ phase' \in Seq(Phases) /\ Len(phase') = Len(phase)
         /\ i \in 1..Len(phase) /\ phase'[i] = to
         /\ \A j \in 1..Len(phase) : j # i => phase'[j] = phase[j]
BY ExceptFacts DEF Moves, Types

\* Acquiring a permit and queueing the chunk keep the control invariant.
LEMMA HandControl ==
  ASSUME Control, ProducerAcquires \/ ProducerPuts
  PROVE  Control'
<1> USE DEF Control
<1>1. PICK from \in {"drawn", "permitted"}, to \in {"permitted", "queued"} :
        /\ Moves(Len(phase), from, to)
        /\ from = "drawn" => to = "permitted" /\ producer = "acquire" /\ producer' = "put"
        /\ from = "permitted" => to = "queued" /\ producer = "put" /\ producer' = "next"
  BY DEF ProducerAcquires, ProducerPuts, Moves, Hand, Types
<1>2. /\ phase' \in Seq(Phases) /\ Len(phase') = Len(phase)
      /\ Len(phase) \in 1..Len(phase) /\ phase'[Len(phase)] = to
      /\ \A j \in 1..Len(phase) : j # Len(phase) => phase'[j] = phase[j]
  <2>1. to \in Phases
    BY DEF Phases
  <2> QED
    BY <1>1, <2>1, MovesFacts
<1>3. UNCHANGED <<command, concurrently, lower, upper, step, start, gen, chunks, consumer, closed, registered, released, failed, main>>
  BY DEF ProducerAcquires, ProducerPuts, args, genVars
<1>4. ~Serial
  BY <1>1 DEF Modes
<1>5. Types' /\ InRange'
  BY <1>1, <1>2, <1>3 DEF Types, InRange
<1>6. Hand' /\ Modes'
  BY <1>1, <1>2, <1>3, <1>4 DEF Hand, Modes, Serial, Types
<1>7. Endings'
  <2>1. ~closed /\ producer' # "ended"
    BY <1>1 DEF Endings
  <2>2. consumer \notin {"waiting", "ended"} /\ main # "returned"
    BY <2>1, <1>4 DEF Endings
  <2> QED
    BY <1>3, <2>1, <2>2 DEF Endings
<1>8. Callbacks'
  BY <1>1, <1>2, <1>3 DEF Callbacks, Types, Moves
<1> QED
  BY <1>5, <1>6, <1>7, <1>8

\* Submitting, starting and ending a chunk keep the control invariant.
LEMMA MoveControl ==
  ASSUME Control, ConsumerSubmits \/ WorkerBegins \/ WorkerEnds \/ SerialEnds
  PROVE  Control'
<1> USE DEF Control
<1>1. /\ UNCHANGED <<command, concurrently, lower, upper, step, start, gen, chunks, producer, closed, registered, released>>
      /\ ConsumerSubmits \/ UNCHANGED consumer
  BY DEF ConsumerSubmits, WorkerBegins, WorkerEnds, SerialEnds, args, genVars, poolVars
<1>2. PICK i \in 1..Len(phase), from \in {"queued", "submitted", "running"}, to \in {"submitted", "running", "ended"} :
        /\ Moves(i, from, to)
        /\ from = "queued" => to = "submitted" /\ consumer = "get" /\ consumer' = "adding"
        /\ from = "submitted" => to = "running"
        /\ from = "running" => to = "ended"
        /\ from # "queued" => UNCHANGED consumer
        /\ failed' \in {failed, failed \cup {i}}
  <2>1. CASE ConsumerSubmits
    <3>1. PICK i \in At("queued") :
            /\ phase' = [phase EXCEPT ![i] = "submitted"]
            /\ failed' \in {failed, failed \cup {i}}
      BY <2>1 DEF ConsumerSubmits
    <3>2. Moves(i, "queued", "submitted") /\ i \in 1..Len(phase)
      BY <3>1 DEF Moves, At, Types
    <3>3. consumer = "get" /\ consumer' = "adding"
      BY <2>1 DEF ConsumerSubmits, poolVars
    <3> QED
      BY <3>1, <3>2, <3>3
  <2>2. CASE WorkerBegins
    <3>1. PICK i \in At("submitted") :
            /\ phase' = [phase EXCEPT ![i] = "running"]
            /\ failed' \in {failed, failed \cup {i}}
      BY <2>2 DEF WorkerBegins
    <3>2. Moves(i, "submitted", "running") /\ i \in 1..Len(phase)
      BY <3>1 DEF Moves, At, Types
    <3>3. UNCHANGED consumer
      BY <2>2 DEF WorkerBegins, poolVars
    <3> QED
      BY <3>1, <3>2, <3>3
  <2>3. CASE WorkerEnds
    <3>1. PICK i \in At("running") :
            /\ phase' = [phase EXCEPT ![i] = "ended"]
            /\ failed' \in {failed, failed \cup {i}}
      BY <2>3 DEF WorkerEnds
    <3>2. Moves(i, "running", "ended") /\ i \in 1..Len(phase)
      BY <3>1 DEF Moves, At, Types
    <3>3. UNCHANGED consumer
      BY <2>3 DEF WorkerEnds, poolVars
    <3> QED
      BY <3>1, <3>2, <3>3
  <2>4. CASE SerialEnds
    <3>1. PICK i \in At("running") :
            /\ phase' = [phase EXCEPT ![i] = "ended"]
            /\ failed' \in {failed, failed \cup {i}}
      BY <2>4 DEF SerialEnds
    <3>2. Moves(i, "running", "ended") /\ i \in 1..Len(phase)
      BY <3>1 DEF Moves, At, Types
    <3>3. UNCHANGED consumer
      BY <2>4 DEF SerialEnds, poolVars
    <3> QED
      BY <3>1, <3>2, <3>3
  <2> QED
    BY <2>1, <2>2, <2>3, <2>4
<1>3. /\ phase' \in Seq(Phases) /\ Len(phase') = Len(phase)
      /\ i \in 1..Len(phase) /\ phase'[i] = to /\ phase[i] = from
      /\ \A j \in 1..Len(phase) : j # i => phase'[j] = phase[j]
  <2>1. to \in Phases
    BY DEF Phases
  <2> QED
    BY <1>2, <2>1, MovesFacts DEF Moves
<1>4. main' = main \/ main' = "raised"
  BY DEF ConsumerSubmits, WorkerBegins, WorkerEnds, SerialEnds
<1>5. Types' /\ InRange'
  BY <1>1, <1>2, <1>3, <1>4 DEF Types, InRange
<1>6. Hand'
  BY <1>1, <1>2, <1>3 DEF Hand
<1>7. Modes'
  BY <1>1, <1>2, <1>3 DEF Modes, Serial
<1>8. Endings'
  <2>1. GenEnds' = GenEnds
    BY <1>1 DEF GenEnds
  <2>2. ~(consumer = "ended") /\ (Serial => main # "returned")
    BY <1>2, <1>3 DEF Endings
  <2>3. consumer' # "ended" /\ (consumer' = "waiting" => consumer = "waiting")
    BY <1>2, <2>2
  <2>4. main' # "returned"
    BY <1>4, <2>2 DEF Endings
  <2> QED
    BY <1>1, <1>2, <1>3, <2>1, <2>2, <2>3, <2>4 DEF Endings
<1>9. Callbacks'
  BY <1>1, <1>2, <1>3 DEF Callbacks, Types
<1> QED
  BY <1>5, <1>6, <1>7, <1>8, <1>9

\* Adding and running callbacks keep the control invariant.
LEMMA CallbackControl ==
  ASSUME Control, ConsumerAdds \/ WorkerReleases
  PROVE  Control'
<1> USE DEF Control
<1>1. /\ UNCHANGED <<command, concurrently, lower, upper, step, start, gen, chunks, phase, producer, closed, failed, main>>
      /\ (consumer = "adding" /\ consumer' = "get") \/ UNCHANGED consumer
  BY DEF ConsumerAdds, WorkerReleases, args, genVars
<1>2. /\ registered' \subseteq 1..Len(phase) /\ released' \subseteq registered'
      /\ \A i \in released' : phase[i] = "ended"
  <2>1. CASE ConsumerAdds
    <3>1. PICK i \in Submitted \ registered :
            /\ registered' = registered \cup {i}
            /\ released' = released \/ (phase[i] = "ended" /\ released' = released \cup {i})
      BY <2>1 DEF ConsumerAdds, Release
    <3>2. i \in 1..Len(phase) /\ registered \subseteq 1..Len(phase)
      BY DEF Submitted, At, Types
    <3> QED
      BY <3>1, <3>2 DEF Callbacks
  <2>2. CASE WorkerReleases
    BY <2>2 DEF WorkerReleases, Release, Releasing, At, Types, Callbacks
  <2> QED
    BY <2>1, <2>2
<1>3. Types' /\ InRange' /\ Hand' /\ Modes' /\ Callbacks'
  <2>1. Serial => UNCHANGED <<registered, consumer>>
    BY DEF ConsumerAdds, WorkerReleases, Modes
  <2> QED
    BY <1>1, <1>2, <2>1 DEF Types, InRange, Hand, Modes, Serial, Callbacks
<1>4. Endings'
  <2>1. GenEnds' = GenEnds
    BY <1>1 DEF GenEnds
  <2> QED
    BY <1>1, <2>1 DEF Endings
<1> QED
  BY <1>3, <1>4

\* The ends of the threads and of the command keep the control invariant.
LEMMA EndControl ==
  ASSUME Control,
         \/ SerialStops \/ ProducerCloses \/ ProducerRaises
         \/ ConsumerStops \/ ConsumerEnds \/ PoolReturns
         \/ UNCHANGED backfillVars
  PROVE  Control'
<1> USE DEF Control
<1>1. UNCHANGED <<command, concurrently, lower, upper, step, start, gen, chunks, phase, registered, released, failed>>
  BY DEF SerialStops, ProducerCloses, ProducerRaises, ConsumerStops, ConsumerEnds, PoolReturns,
         backfillVars, args, genVars, poolVars
<1>2. GenEnds' = GenEnds
  BY <1>1 DEF GenEnds
<1>3. InRange' /\ Callbacks'
  BY <1>1 DEF InRange, Callbacks
<1>4. CASE SerialStops
  <2>1. UNCHANGED <<producer, consumer, closed>> /\ Serial /\ main' \in {"returned", "raised"}
    BY <1>4 DEF SerialStops, poolVars
  <2>2. main' = "returned" => GenEnds
    BY <1>4 DEF SerialStops
  <2>3. \A i \in 1..Len(phase) : phase[i] = "ended"
    BY <1>4, <2>1 DEF SerialStops, Modes, At, Types
  <2>4. Types' /\ Hand' /\ Modes'
    BY <1>1, <2>1 DEF Types, Hand, Modes, Serial
  <2>5. Endings'
    BY <1>1, <1>2, <2>1, <2>2, <2>3 DEF Endings, Serial
  <2> QED
    BY <1>3, <2>4, <2>5
<1>5. CASE ProducerCloses
  <2>1. UNCHANGED <<consumer, main>> /\ producer = "next" /\ producer' = "ended" /\ GenEnds
    BY <1>5 DEF ProducerCloses
  <2>2. closed' = TRUE
    BY <1>5 DEF ProducerCloses
  <2>3. closed' \in BOOLEAN
    BY Zenon, <2>2
  <2>4. Types' /\ Hand' /\ Modes'
    BY <1>1, <2>1, <2>3 DEF Types, Hand, Modes, Serial
  <2>5. Endings'
    BY <1>1, <1>2, <2>1, <2>2 DEF Endings, Serial
  <2> QED
    BY <1>3, <2>4, <2>5
<1>6. CASE ProducerRaises
  <2>1. UNCHANGED <<consumer, main, closed>> /\ producer = "next" /\ producer' = "raised"
    BY <1>6 DEF ProducerRaises
  <2>2. Types' /\ Hand' /\ Modes'
    BY <1>1, <2>1 DEF Types, Hand, Modes, Serial
  <2>3. Endings'
    BY <1>1, <1>2, <2>1 DEF Endings, Serial
  <2> QED
    BY <1>3, <2>2, <2>3
<1>7. CASE ConsumerStops
  <2>1. /\ UNCHANGED <<producer, main, closed>> /\ consumer = "get" /\ consumer' = "waiting" /\ closed
        /\ \A i \in 1..Len(phase) : phase[i] # "queued"
    BY <1>7 DEF ConsumerStops, At, Types
  <2>2. Types' /\ Hand' /\ Modes'
    BY <1>1, <2>1 DEF Types, Hand, Modes, Serial
  <2>3. Endings'
    BY <1>1, <1>2, <2>1 DEF Endings, Serial
  <2> QED
    BY <1>3, <2>2, <2>3
<1>8. CASE ConsumerEnds
  <2>1. /\ UNCHANGED <<producer, main, closed>> /\ consumer = "waiting" /\ consumer' = "ended"
        /\ Submitted = At("ended")
    BY <1>8 DEF ConsumerEnds
  <2>2. \A i \in 1..Len(phase) : phase[i] = "ended"
    <3> SUFFICES ASSUME NEW i \in 1..Len(phase)
                 PROVE  phase[i] = "ended"
      OBVIOUS
    <3>1. phase[i] \in Phases /\ phase[i] # "queued" /\ producer = "ended"
      BY <2>1 DEF Types, Endings
    <3>2. phase[i] \in {"submitted", "running", "ended"}
      BY <3>1 DEF Hand, Phases
    <3>3. i \in Submitted
      BY <3>2 DEF Submitted, At, Types
    <3> QED
      BY <2>1, <3>3 DEF At
  <2>3. Types' /\ Hand' /\ Modes'
    BY <1>1, <2>1 DEF Types, Hand, Modes, Serial
  <2>4. Endings'
    BY <1>1, <1>2, <2>1, <2>2 DEF Endings, Serial
  <2> QED
    BY <1>3, <2>3, <2>4
<1>9. CASE PoolReturns
  <2>1. /\ UNCHANGED <<producer, consumer, closed>> /\ ~Serial /\ consumer = "ended"
        /\ main' = "returned"
    BY <1>9 DEF PoolReturns, poolVars
  <2>2. Types' /\ Hand' /\ Modes'
    BY <1>1, <2>1 DEF Types, Hand, Modes, Serial
  <2>3. Endings'
    BY <1>1, <1>2, <2>1 DEF Endings, Serial
  <2> QED
    BY <1>3, <2>2, <2>3
<1>10. CASE UNCHANGED backfillVars
  <2>1. UNCHANGED <<producer, consumer, closed, main>>
    BY <1>10 DEF backfillVars, poolVars
  <2>2. Types' /\ Hand' /\ Modes'
    BY <1>1, <2>1 DEF Types, Hand, Modes, Serial
  <2>3. Endings'
    BY <1>1, <1>2, <2>1 DEF Endings, Serial
  <2> QED
    BY <1>3, <2>2, <2>3
<1> QED
  BY <1>4, <1>5, <1>6, <1>7, <1>8, <1>9, <1>10

\* Every step keeps the control invariant.
LEMMA StepControl ==
  ASSUME Control, [BackfillNext]_backfillVars
  PROVE  Control'
BY DrawControl, HandControl, MoveControl, CallbackControl, EndControl DEF BackfillNext, Over

\* `new` and `from_file`, serial or not: a returned command has read its
\* generator to the end and published every interval to the end.
THEOREM ReturnedIsPublished == BackfillSpec => []ReturnsWhenAllPublished
<1>1. BackfillInit => Control
  BY ControlInit
<1>2. Control /\ [BackfillNext]_backfillVars => Control'
  BY StepControl
<1>3. Control => ReturnsWhenAllPublished
  BY DEF Control, Endings, ReturnsWhenAllPublished, At, Types
<1> QED
  BY <1>1, <1>2, <1>3, PTL DEF BackfillSpec

-----------------------------------------------------------------------------
(***************************************************************************)
(* The semaphore.  A chunk holds a permit from the producer's acquire to   *)
(* its callback; permits left and permits held add up.                     *)
(***************************************************************************)
Held == {i \in 1..Len(phase) : phase[i] # "drawn"} \ released

Limited == concurrently > 0 /\ ~Serial

Permits ==
  /\ Limited => sem \in Nat /\ sem + Cardinality(Held) = concurrently
  /\ ~Limited => sem = concurrently

\* The chunks that hold a permit are finitely many.
LEMMA HeldFinite ==
  ASSUME Types
  PROVE  IsFiniteSet(Held) /\ Cardinality(Held) \in Nat
<1>1. IsFiniteSet(1..Len(phase))
  BY FS_Interval DEF Types
<1>2. Held \subseteq 1..Len(phase)
  BY DEF Held
<1>3. IsFiniteSet(Held)
  BY <1>1, <1>2, FS_Subset
<1> QED
  BY <1>3, FS_CardinalityType

\* Permits are neither lost nor made up.
LEMMA StepPermits ==
  ASSUME Control, Permits, [BackfillNext]_backfillVars
  PROVE  Permits'
<1> USE BackfillAssumption
<1>0. IsFiniteSet(Held) /\ Cardinality(Held) \in Nat /\ Types
  BY HeldFinite DEF Control
<1>c. UNCHANGED concurrently /\ concurrently \in Nat
  <2>1. concurrently \in Nat
    BY <1>0 DEF Types
  <2> QED
    BY <2>1 DEF BackfillNext, SerialBegins, SerialEnds, SerialStops, ProducerDraws, ProducerAcquires,
                ProducerPuts, ProducerCloses, ProducerRaises, ConsumerSubmits, ConsumerAdds,
                ConsumerStops, ConsumerEnds, WorkerBegins, WorkerEnds, WorkerReleases, PoolReturns,
                Over, backfillVars, args
<1>1. ASSUME UNCHANGED sem, Held' = Held
      PROVE  Permits'
  BY <1>c, <1>1 DEF Permits, Limited, Serial
<1>2. CASE ProducerDraws
  <2>1. /\ Len(phase') = Len(phase) + 1 /\ phase'[Len(phase) + 1] = "drawn"
        /\ \A j \in 1..Len(phase) : phase'[j] = phase[j]
    <3>1. "drawn" \in Phases /\ phase \in Seq(Phases) /\ phase' = Append(phase, "drawn")
      BY <1>0, <1>2 DEF Phases, Types, ProducerDraws
    <3> QED
      BY <3>1, AppendFacts
  <2>2. Held' = Held
    <3>1. UNCHANGED released /\ Len(phase) \in Nat
      BY <1>0, <1>2 DEF ProducerDraws, Types
    <3> QED
      BY <2>1, <3>1 DEF Held
  <2> QED
    BY <1>1, <1>2, <2>2 DEF ProducerDraws
<1>3. CASE SerialBegins
  BY <1>c, <1>3 DEF SerialBegins, poolVars, Permits, Limited, Serial
<1>4. CASE ProducerAcquires
  <2>1. Moves(Len(phase), "drawn", "permitted")
    BY <1>4, <1>0 DEF ProducerAcquires, Moves, Control, Hand, Types
  <2>2. /\ Len(phase') = Len(phase) /\ Len(phase) \in 1..Len(phase)
        /\ phase[Len(phase)] = "drawn" /\ phase'[Len(phase)] = "permitted"
        /\ \A j \in 1..Len(phase) : j # Len(phase) => phase'[j] = phase[j]
    BY <1>0, <2>1, MovesFacts DEF Moves, Phases
  <2>3. UNCHANGED released /\ Len(phase) \notin released
    BY <1>4, <2>2 DEF ProducerAcquires, Control, Callbacks
  <2>4. Held' = Held \cup {Len(phase)} /\ Len(phase) \notin Held
    BY <2>2, <2>3 DEF Held
  <2>5. Cardinality(Held') = Cardinality(Held) + 1
    BY <1>0, <2>4, FS_AddElement
  <2>6. CASE Limited
    BY <1>c, <1>0, <1>4, <2>5, <2>6 DEF ProducerAcquires, Permits, Limited, Serial
  <2>7. CASE ~Limited
    <3>1. ~Serial
      BY <1>4 DEF ProducerAcquires, Control, Modes
    <3> QED
      BY <1>c, <1>4, <2>7, <3>1 DEF ProducerAcquires, Permits, Limited, Serial
  <2> QED
    BY <2>6, <2>7
<1>5. ASSUME NEW i, NEW from \in Phases \ {"drawn"}, NEW to \in Phases \ {"drawn"},
             Moves(i, from, to), UNCHANGED <<sem, released>>
      PROVE  Permits'
  <2>1. /\ Len(phase') = Len(phase) /\ i \in 1..Len(phase)
        /\ phase[i] # "drawn" /\ phase'[i] # "drawn"
        /\ \A j \in 1..Len(phase) : j # i => phase'[j] = phase[j]
    BY <1>0, <1>5, MovesFacts DEF Moves
  <2>2. Held' = Held
    BY <1>5, <2>1 DEF Held
  <2> QED
    BY <1>1, <1>5, <2>2
<1>6. CASE ProducerPuts
  <2>1. Moves(Len(phase), "permitted", "queued") /\ UNCHANGED <<sem, released>>
    BY <1>6, <1>0 DEF ProducerPuts, Moves, Control, Hand, Types
  <2> QED
    BY <1>5, <2>1 DEF Phases
<1>7. CASE ConsumerSubmits
  <2>1. PICK i \in At("queued") : phase' = [phase EXCEPT ![i] = "submitted"]
    BY <1>7 DEF ConsumerSubmits
  <2>2. Moves(i, "queued", "submitted")
    BY <1>0, <2>1 DEF Moves, At, Types
  <2>3. UNCHANGED <<sem, released>>
    BY <1>7 DEF ConsumerSubmits
  <2> QED
    BY <1>5, <2>2, <2>3 DEF Phases
<1>8. CASE WorkerBegins
  <2>1. PICK i \in At("submitted") : phase' = [phase EXCEPT ![i] = "running"]
    BY <1>8 DEF WorkerBegins
  <2>2. Moves(i, "submitted", "running")
    BY <1>0, <2>1 DEF Moves, At, Types
  <2>3. UNCHANGED <<sem, released>>
    BY <1>8 DEF WorkerBegins, poolVars
  <2> QED
    BY <1>5, <2>2, <2>3 DEF Phases
<1>9. CASE WorkerEnds \/ SerialEnds
  <2>1. PICK i \in At("running") : phase' = [phase EXCEPT ![i] = "ended"]
    BY <1>9 DEF WorkerEnds, SerialEnds
  <2>2. Moves(i, "running", "ended") /\ UNCHANGED <<sem, released>>
    BY <1>0, <1>9, <2>1 DEF WorkerEnds, SerialEnds, Moves, At, Types, poolVars
  <2> QED
    BY <1>5, <2>2 DEF Phases
<1>10. ASSUME NEW i \in 1..Len(phase), phase[i] = "ended", i \notin released,
              Release(i), UNCHANGED phase, ~Serial
       PROVE  Permits'
  <2>1. Held' = Held \ {i} /\ i \in Held
    BY <1>10 DEF Release, Held
  <2>2. Cardinality(Held') = Cardinality(Held) - 1
    BY <1>0, <2>1, FS_RemoveElement
  <2> QED
    BY <1>c, <1>0, <1>10, <2>2 DEF Release, Permits, Limited, Serial
<1>11. CASE ConsumerAdds
  <2>1. PICK i \in Submitted \ registered :
          IF phase[i] = "ended" THEN Release(i) ELSE UNCHANGED <<released, sem>>
    BY <1>11 DEF ConsumerAdds
  <2>2. /\ i \in 1..Len(phase) /\ i \notin released /\ UNCHANGED phase /\ ~Serial
    BY <1>0, <1>11, <2>1 DEF ConsumerAdds, Submitted, At, Types, Control, Callbacks, Modes
  <2>3. CASE phase[i] = "ended"
    BY <1>10, <2>1, <2>2, <2>3
  <2>4. CASE phase[i] # "ended"
    <3>1. Held' = Held
      BY <2>1, <2>2, <2>4 DEF Held
    <3> QED
      BY <1>1, <2>1, <2>4, <3>1
  <2> QED
    BY <2>3, <2>4
<1>12. CASE WorkerReleases
  <2>1. PICK i \in Releasing : Release(i)
    BY <1>12 DEF WorkerReleases
  <2>2. /\ i \in 1..Len(phase) /\ phase[i] = "ended" /\ i \notin released /\ UNCHANGED phase
    BY <1>0, <1>12, <2>1 DEF WorkerReleases, Releasing, At, Types
  <2>3. CASE ~Serial
    BY <1>10, <2>1, <2>2, <2>3
  <2>4. CASE Serial
    \* A serial backfill registers no callback.
    BY <1>12, <2>1, <2>4 DEF Releasing, Control, Modes
  <2> QED
    BY <2>3, <2>4
<1>13. CASE \/ SerialStops \/ ProducerCloses \/ ProducerRaises
            \/ ConsumerStops \/ ConsumerEnds \/ PoolReturns \/ UNCHANGED backfillVars
  <2>1. UNCHANGED <<sem, phase, released>>
    BY <1>13 DEF SerialStops, ProducerCloses, ProducerRaises, ConsumerStops, ConsumerEnds, PoolReturns,
                 backfillVars, poolVars
  <2> QED
    BY <1>1, <2>1 DEF Held
<1> QED
  BY <1>2, <1>3, <1>4, <1>6, <1>7, <1>8, <1>9, <1>11, <1>12, <1>13 DEF BackfillNext, Over

\* Permits left and held add up at the start.
LEMMA InitPermits ==
  ASSUME BackfillInit
  PROVE  Permits
<1>1. Held = {}
  BY DEF BackfillInit, Held
<1>2. Cardinality(Held) = 0
  BY <1>1, FS_EmptySet
<1> QED
  BY <1>2, BackfillAssumption DEF BackfillInit, Permits, Limited

\* With the permits accounted for, no more than concurrently chunks run.
LEMMA PermitsBound ==
  ASSUME Control, Permits
  PROVE  ConcurrencyBounded /\ BackfillTypeOK
<1> USE BackfillAssumption
<1>0. Types /\ IsFiniteSet(Held) /\ Cardinality(Held) \in Nat /\ concurrently \in Nat
  BY HeldFinite DEF Control, Types
<1>1. CASE Limited
  <2>1. At("running") \subseteq Held
    BY <1>0 DEF At, Held, Control, Callbacks, Types
  <2>2. Cardinality(At("running")) \in Nat /\ Cardinality(At("running")) <= Cardinality(Held)
    BY <1>0, <2>1, FS_Subset, FS_CardinalityType
  <2>3. sem \in Nat /\ sem + Cardinality(Held) = concurrently
    BY <1>1 DEF Permits
  <2> QED
    BY <1>0, <2>2, <2>3 DEF ConcurrencyBounded, BackfillTypeOK, Types
<1>2. CASE ~Limited
  <2>1. sem \in 0..concurrently
    BY <1>0, <1>2 DEF Permits
  <2>2. BackfillTypeOK
    BY <1>0, <2>1 DEF BackfillTypeOK, Types
  <2>3. CASE concurrently > 0
    <3>1. Serial
      BY <1>0, <1>2, <2>3 DEF Limited
    <3>2. \A i, j \in At("running") : i = j
      BY <1>0, <3>1 DEF Control, Modes, At, Types
    <3>3. At("running") = {} \/ \E i : At("running") = {i}
      BY <3>2
    <3>4. Cardinality(At("running")) \in {0, 1}
      <4>1. CASE At("running") = {}
        BY <4>1, FS_EmptySet
      <4>2. CASE \E i : At("running") = {i}
        BY <4>2, FS_Singleton
      <4> QED
        BY <3>3, <4>1, <4>2
    <3> QED
      BY <1>0, <2>2, <2>3, <3>1, <3>4 DEF ConcurrencyBounded, Serial
  <2> QED
    BY <2>2, <2>3 DEF ConcurrencyBounded
<1> QED
  BY <1>1, <1>2

\* The type invariant of a backfill, with every number of permits in its range.
THEOREM BackfillTypeCorrect == BackfillSpec => []BackfillTypeOK
<1>1. BackfillInit => Control /\ Permits
  BY ControlInit, InitPermits
<1>2. Control /\ Permits /\ [BackfillNext]_backfillVars => (Control /\ Permits)'
  BY StepControl, StepPermits
<1>3. Control /\ Permits => BackfillTypeOK
  BY PermitsBound
<1> QED
  BY <1>1, <1>2, <1>3, PTL DEF BackfillSpec

\* --concurrently is a bound, for every number of threads and every order in
\* which futures end and callbacks are added and run.
THEOREM ConcurrencyIsBounded == BackfillSpec => []ConcurrencyBounded
<1>1. BackfillInit => Control /\ Permits
  BY ControlInit, InitPermits
<1>2. Control /\ Permits /\ [BackfillNext]_backfillVars => (Control /\ Permits)'
  BY StepControl, StepPermits
<1>3. Control /\ Permits => ConcurrencyBounded
  BY PermitsBound
<1> QED
  BY <1>1, <1>2, <1>3, PTL DEF BackfillSpec

-----------------------------------------------------------------------------
(***************************************************************************)
(* The chunks of gen_time_bounds tile the range: together they are the     *)
(* seconds from lower up to where the generator stands.                    *)
(***************************************************************************)
Reached == IF gen = "active" THEN start ELSE upper + 1

Tiling ==
  ~FromFile =>
    /\ \A i \in 1..Len(chunks) : \A t \in Seconds(i) : lower <= t /\ t < Reached
    /\ \A t \in lower..(Reached - 1) : \E i \in 1..Len(chunks) : t \in Seconds(i)
    /\ \A i, j \in 1..Len(chunks) : \A t \in Seconds(i) \cap Seconds(j) : i = j

\* Drawing a chunk extends the tiling.
LEMMA DrawTiles ==
  ASSUME Control, Tiling, GenYields, UNCHANGED <<command, concurrently, lower, upper>>
  PROVE  Tiling'
<1> SUFFICES ASSUME ~FromFile
             PROVE  Tiling'
  BY DEF Tiling
<1>n. PICK n \in Nat : n = Len(chunks) + 1
  BY DEF Control, Types
<1>1. /\ lower \in Nat /\ upper \in Nat /\ step \in Nat /\ start \in Nat /\ step > 1
      /\ gen = "active" /\ start <= upper /\ lower <= start
      /\ Len(chunks) \in Nat /\ chunks \in Seq(Interval)
  BY DEF Control, Types, InRange, GenYields, GenTimeBounds
<1>2. /\ chunks' = Append(chunks, NextBounds) /\ NextBounds \in Interval
  BY <1>1 DEF GenYields, GenTimeBounds, NextBounds, Interval
<1>3. /\ Len(chunks') = n /\ chunks'[n] = NextBounds
      /\ \A i \in 1..Len(chunks) : chunks'[i] = chunks[i]
      /\ 1..n = 1..Len(chunks) \cup {n}
  BY <1>n, <1>1, <1>2, AppendFacts
<1>4. /\ \A i \in 1..Len(chunks) : Seconds(i)' = Seconds(i)
      /\ Seconds(n)' = NextBounds.lo .. NextBounds.hi
  BY <1>3 DEF Seconds
<1>5. /\ NextBounds.lo = start /\ Reached = start
      /\ Reached' = NextBounds.hi + 1
      /\ NextBounds.hi \in Nat /\ NextBounds.hi >= start
  <2>1. CASE start + step < upper
    BY <1>1, <2>1 DEF NextBounds, Reached, GenYields, GenTimeBounds
  <2>2. CASE ~(start + step < upper)
    BY <1>1, <2>2 DEF NextBounds, Reached, GenYields, GenTimeBounds
  <2> QED
    BY <2>1, <2>2
<1>6. \A i \in 1..Len(chunks) : Seconds(i) \subseteq Int
  BY DEF Seconds
<1>7. \A i \in 1..n : \A t \in Seconds(i)' : lower <= t /\ t < Reached'
  <2>1. ASSUME NEW i \in 1..Len(chunks), NEW t \in Seconds(i)'
        PROVE  lower <= t /\ t < Reached'
    <3>1. t \in Seconds(i) /\ t \in Int
      BY <1>4, <1>6, <2>1
    <3>2. lower <= t /\ t < start
      BY <3>1, <1>5 DEF Tiling
    <3> QED
      BY <1>1, <1>5, <3>1, <3>2
  <2>2. \A t \in Seconds(n)' : lower <= t /\ t < Reached'
    BY <1>1, <1>4, <1>5
  <2> QED
    BY <1>3, <2>1, <2>2
<1>8. \A t \in lower..(Reached' - 1) : \E i \in 1..n : t \in Seconds(i)'
  <2> SUFFICES ASSUME NEW t \in lower..(Reached' - 1)
               PROVE  \E i \in 1..n : t \in Seconds(i)'
    OBVIOUS
  <2>1. CASE t < start
    <3>1. t \in lower..(Reached - 1)
      BY <1>1, <1>5, <2>1
    <3>2. PICK i \in 1..Len(chunks) : t \in Seconds(i)
      BY <3>1 DEF Tiling
    <3> QED
      BY <1>3, <1>4, <3>2
  <2>2. CASE t >= start
    BY <1>1, <1>3, <1>4, <1>5, <2>2
  <2> QED
    BY <1>1, <1>5, <2>1, <2>2
<1>9. \A i, j \in 1..n : \A t \in Seconds(i)' \cap Seconds(j)' : i = j
  <2> SUFFICES ASSUME NEW i \in 1..n, NEW j \in 1..n, NEW t \in Seconds(i)' \cap Seconds(j)'
               PROVE  i = j
    OBVIOUS
  <2>1. CASE i \in 1..Len(chunks) /\ j \in 1..Len(chunks)
    BY <1>4, <2>1 DEF Tiling
  <2>2. ASSUME NEW k \in 1..Len(chunks), t \in Seconds(k)', t \in Seconds(n)'
        PROVE  FALSE
    <3>1. t \in Seconds(k) /\ t \in Int /\ t >= start
      BY <1>1, <1>4, <1>5, <1>6, <2>2
    <3>2. t < start
      BY <1>5, <3>1 DEF Tiling
    <3> QED
      BY <1>1, <3>1, <3>2
  <2> QED
    BY <1>3, <2>1, <2>2
<1> QED
  BY <1>3, <1>7, <1>8, <1>9 DEF Tiling

\* Every step keeps the tiling.
LEMMA StepTiling ==
  ASSUME Control, Tiling, [BackfillNext]_backfillVars
  PROVE  Tiling'
<1>1. CASE SerialBegins \/ ProducerDraws
  BY <1>1, DrawTiles DEF SerialBegins, ProducerDraws, args
<1>2. CASE ~(SerialBegins \/ ProducerDraws)
  <2>1. UNCHANGED <<command, concurrently, lower, upper, start, gen, chunks>>
    BY <1>2 DEF BackfillNext, SerialEnds, SerialStops, ProducerAcquires, ProducerPuts, ProducerCloses,
                ProducerRaises, ConsumerSubmits, ConsumerAdds, ConsumerStops, ConsumerEnds,
                WorkerBegins, WorkerEnds, WorkerReleases, PoolReturns, Over,
                backfillVars, args, genVars
  <2> QED
    BY <2>1 DEF Tiling, Reached, Seconds
<1> QED
  BY <1>1, <1>2

\* When `new` returns, every second of the range was published by exactly one
\* chunk, for every range, step and number of threads.
THEOREM EverySecondPublishedOnce == BackfillSpec => []EverySecondOnce
<1>1. BackfillInit => Control /\ Tiling
  <2>1. BackfillInit => Tiling
    BY BackfillAssumption DEF BackfillInit, Tiling, Reached
  <2> QED
    BY <2>1, ControlInit
<1>2. Control /\ Tiling /\ [BackfillNext]_backfillVars => (Control /\ Tiling)'
  BY StepControl, StepTiling
<1>3. Control /\ Tiling => EverySecondOnce
  <2> SUFFICES ASSUME Control, Tiling, ~FromFile, main = "returned"
               PROVE  \A t \in lower..upper :
                        /\ \E i \in At("ended") : t \in Seconds(i)
                        /\ \A i, j \in At("ended") : t \in Seconds(i) \cap Seconds(j) => i = j
    BY DEF EverySecondOnce
  <2>1. gen = "ended" /\ At("ended") = 1..Len(chunks)
    BY DEF Control, Endings, GenEnds, At, Types
  <2>2. Reached = upper + 1 /\ upper \in Nat /\ lower \in Nat
    BY <2>1 DEF Reached, Control, Types
  <2>3. lower..upper = lower..(Reached - 1)
    BY <2>2
  <2> QED
    BY <2>1, <2>3 DEF Tiling
<1> QED
  BY <1>1, <1>2, <1>3, PTL DEF BackfillSpec

-----------------------------------------------------------------------------
(***************************************************************************)
(* The refinement of PublishOnce.  A chunk of `new` is a piece of the      *)
(* abstract backfill from the step in which it begins to run; pieces are   *)
(* told apart by their seconds, which are disjoint and not empty.          *)
(***************************************************************************)
BarBound == IF concurrently > 0 THEN concurrently ELSE Workers
BarTodo == (lower..upper) \ UNION {Seconds(i) : i \in Visible("running") \cup Visible("ended")}
BarActive == {Seconds(i) : i \in Visible("running")}
BarDone == UNION {Seconds(i) : i \in Visible("ended")}
BarReturned == ~FromFile /\ main = "returned"

Proper == ~FromFile => \A i \in 1..Len(chunks) : Seconds(i) # {}

RefineInv == Control /\ Permits /\ Tiling /\ Proper

\* gen_time_bounds yields no empty interval.
LEMMA StepProper ==
  ASSUME Control, Proper, [BackfillNext]_backfillVars
  PROVE  Proper'
<1> SUFFICES ASSUME ~FromFile
             PROVE  Proper'
  <2>1. UNCHANGED command
    BY DEF BackfillNext, SerialBegins, SerialEnds, SerialStops, ProducerDraws, ProducerAcquires,
           ProducerPuts, ProducerCloses, ProducerRaises, ConsumerSubmits, ConsumerAdds,
           ConsumerStops, ConsumerEnds, WorkerBegins, WorkerEnds, WorkerReleases, PoolReturns,
           Over, backfillVars, args
  <2> QED
    BY <2>1 DEF Proper
<1>1. CASE SerialBegins \/ ProducerDraws
  <2>n. PICK n \in Nat : n = Len(chunks) + 1
    BY DEF Control, Types
  <2>1. /\ lower \in Nat /\ upper \in Nat /\ step \in Nat /\ start \in Nat /\ step > 1
        /\ start <= upper /\ chunks \in Seq(Interval)
        /\ chunks' = Append(chunks, NextBounds)
    BY <1>1 DEF Control, Types, InRange, SerialBegins, ProducerDraws, GenYields, GenTimeBounds
  <2>2. NextBounds \in Interval /\ NextBounds.lo <= NextBounds.hi
    BY <2>1 DEF NextBounds, Interval
  <2>3. /\ Len(chunks') = n /\ chunks'[n] = NextBounds
        /\ \A i \in 1..Len(chunks) : chunks'[i] = chunks[i]
    BY <2>n, <2>1, <2>2, AppendFacts
  <2>4. \A i \in 1..Len(chunks) : Seconds(i)' # {}
    BY <2>3 DEF Seconds, Proper
  <2>5. Seconds(n)' # {}
    BY <2>2, <2>3 DEF Seconds, Interval
  <2>6. 1..Len(chunks') = 1..Len(chunks) \cup {n}
    BY <2>n, <2>1, <2>3
  <2> QED
    BY <2>4, <2>5, <2>6 DEF Proper
<1>2. CASE ~(SerialBegins \/ ProducerDraws)
  <2>1. UNCHANGED <<command, chunks>>
    BY <1>2 DEF BackfillNext, SerialEnds, SerialStops, ProducerAcquires, ProducerPuts, ProducerCloses,
                ProducerRaises, ConsumerSubmits, ConsumerAdds, ConsumerStops, ConsumerEnds,
                WorkerBegins, WorkerEnds, WorkerReleases, PoolReturns, Over,
                backfillVars, args, genVars
  <2> QED
    BY <2>1 DEF Proper, Seconds
<1> QED
  BY <1>1, <1>2

\* The invariant of the refinement holds for ever.
LEMMA RefineInvariant == BackfillSpec => []RefineInv
<1>1. BackfillInit => RefineInv
  <2>1. BackfillInit => Tiling /\ Proper
    BY BackfillAssumption DEF BackfillInit, Tiling, Reached, Proper
  <2> QED
    BY <2>1, ControlInit, InitPermits DEF RefineInv
<1>2. RefineInv /\ [BackfillNext]_backfillVars => RefineInv'
  BY StepControl, StepPermits, StepTiling, StepProper DEF RefineInv
<1> QED
  BY <1>1, <1>2, PTL DEF BackfillSpec

\* The chunks of a range are pieces of it: no two share a second, and none is
\* empty, so no two are the same piece.
LEMMA Pieces ==
  ASSUME RefineInv, ~FromFile, NEW i \in 1..Len(chunks)
  PROVE  /\ Seconds(i) \subseteq lower..upper /\ Seconds(i) # {}
         /\ \A j \in 1..Len(chunks) : j # i => Seconds(i) \cap Seconds(j) = {} /\ Seconds(i) # Seconds(j)
<1>1. Seconds(i) # {}
  BY DEF RefineInv, Proper
<1>2. \A j \in 1..Len(chunks) : j # i => Seconds(i) \cap Seconds(j) = {}
  BY DEF RefineInv, Tiling
<1>3. Seconds(i) \subseteq lower..upper
  <2> SUFFICES ASSUME NEW t \in Seconds(i)
               PROVE  t \in lower..upper
    OBVIOUS
  <2>1. lower <= t /\ t < Reached /\ t \in Int
    BY DEF RefineInv, Tiling, Seconds
  <2>2. lower \in Nat /\ upper \in Nat /\ Reached \in Nat /\ Reached <= upper + 1
    BY DEF RefineInv, Control, Types, InRange, Reached
  <2> QED
    BY <2>1, <2>2
<1> QED
  BY <1>1, <1>2, <1>3

\* There are no more pieces in progress than chunks that run.
LEMMA ActiveCount ==
  ASSUME RefineInv, ~FromFile
  PROVE  /\ IsFiniteSet(At("running")) /\ Cardinality(At("running")) \in Nat
         /\ Cardinality(BarActive) \in Nat /\ Cardinality(BarActive) <= Cardinality(At("running"))
<1> DEFINE R == At("running")
<1> DEFINE f == [i \in R |-> Seconds(i)]
<1>1. IsFiniteSet(R)
  <2>1. IsFiniteSet(1..Len(phase))
    BY FS_Interval DEF RefineInv, Control, Types
  <2>2. R \subseteq 1..Len(phase)
    BY DEF RefineInv, Control, Types, At
  <2> QED
    BY <2>1, <2>2, FS_Subset
<1>2. BarActive = {f[i] : i \in R}
  BY DEF BarActive, Visible
<1>3. f \in Surjection(R, BarActive)
  BY <1>2 DEF Surjection
<1>4. IsFiniteSet(BarActive) /\ Cardinality(BarActive) <= Cardinality(R)
  BY <1>1, <1>3, FS_Surjection
<1> QED
  BY <1>1, <1>4, FS_CardinalityType

AllPieces ==
  ~FromFile =>
    \A i \in 1..Len(chunks) :
      /\ Seconds(i) \subseteq lower..upper /\ Seconds(i) # {}
      /\ \A j \in 1..Len(chunks) : j # i => Seconds(i) \cap Seconds(j) = {} /\ Seconds(i) # Seconds(j)

\* The chunks are pieces before and after every step.
LEMMA PiecesAround ==
  /\ RefineInv => AllPieces
  /\ RefineInv' => AllPieces'
<1>1. RefineInv => AllPieces
  BY Pieces DEF AllPieces
<1>2. RefineInv' => AllPieces'
  BY <1>1, PTL
<1> QED
  BY <1>1, <1>2

\* A step that moves no chunk to or from running or ended, and returns
\* nothing, is not seen by the abstract backfill.
LEMMA Unseen ==
  ASSUME RefineInv,
         UNCHANGED <<command, concurrently, lower, upper>>,
         At("running")' = At("running"), At("ended")' = At("ended"),
         \A i \in 1..Len(chunks) : chunks'[i] = chunks[i],
         BarReturned' = BarReturned
  PROVE  UNCHANGED <<BarBound, BarTodo, BarActive, BarDone, BarReturned>>
<1>1. At("running") \subseteq 1..Len(chunks) /\ At("ended") \subseteq 1..Len(chunks)
  BY DEF RefineInv, Control, Types, At
<1>2. /\ Visible("running")' = Visible("running") /\ Visible("ended")' = Visible("ended")
      /\ Visible("running") \subseteq 1..Len(chunks) /\ Visible("ended") \subseteq 1..Len(chunks)
  BY <1>1 DEF Visible
<1>3. \A i \in 1..Len(chunks) : Seconds(i)' = Seconds(i)
  BY DEF Seconds
<1>4. BarActive' = BarActive
  BY <1>2, <1>3 DEF BarActive
<1>5. BarDone' = BarDone
  BY <1>2, <1>3 DEF BarDone
<1>6. BarTodo' = BarTodo
  BY <1>2, <1>3 DEF BarTodo
<1> QED
  BY <1>4, <1>5, <1>6 DEF BarBound

\* A chunk that begins is a piece of what was left to do.
LEMMA Begins ==
  ASSUME RefineInv, RefineInv', ~FromFile,
         UNCHANGED <<command, concurrently, lower, upper, main>>,
         NEW n \in 1..Len(chunks'), n \notin At("running"), n \notin At("ended"),
         At("running")' = At("running") \cup {n}, At("ended")' = At("ended"),
         Len(chunks) <= Len(chunks'),
         \A i \in 1..Len(chunks) : chunks'[i] = chunks[i]
  PROVE  /\ Seconds(n)' \subseteq BarTodo /\ Seconds(n)' # {}
         /\ BarTodo' = BarTodo \ Seconds(n)'
         /\ BarActive' = BarActive \cup {Seconds(n)'}
         /\ UNCHANGED <<BarBound, BarDone, BarReturned>>
<1>1. /\ At("running") \subseteq 1..Len(chunks) /\ At("ended") \subseteq 1..Len(chunks)
      /\ Len(chunks) \in Nat /\ Len(chunks') \in Nat
  BY DEF RefineInv, Control, Types, At
<1>2. /\ Visible("running") = At("running") /\ Visible("ended") = At("ended")
      /\ Visible("running")' = At("running") \cup {n} /\ Visible("ended")' = At("ended")
  BY DEF Visible
<1>3. \A i \in 1..Len(chunks) : Seconds(i)' = Seconds(i)
  BY DEF Seconds
<1>4. AllPieces'
  BY PiecesAround
<1>5. /\ Seconds(n)' \subseteq lower..upper /\ Seconds(n)' # {}
      /\ \A j \in 1..Len(chunks') : j # n => Seconds(n)' \cap Seconds(j)' = {}
  BY <1>4 DEF AllPieces
<1>6. 1..Len(chunks) \subseteq 1..Len(chunks')
  BY <1>1
<1>7. \A j \in At("running") \cup At("ended") : Seconds(n)' \cap Seconds(j) = {}
  BY <1>1, <1>3, <1>5, <1>6
<1>8. Seconds(n)' \subseteq BarTodo
  BY <1>2, <1>5, <1>7 DEF BarTodo
<1>9. BarTodo' = BarTodo \ Seconds(n)'
  BY <1>1, <1>2, <1>3 DEF BarTodo
<1>10. BarActive' = BarActive \cup {Seconds(n)'}
  BY <1>1, <1>2, <1>3 DEF BarActive
<1>11. BarDone' = BarDone
  BY <1>1, <1>2, <1>3 DEF BarDone
<1> QED
  BY <1>5, <1>8, <1>9, <1>10, <1>11 DEF BarBound, BarReturned

\* A chunk that ends is one of the pieces in progress, and no other.
LEMMA Ends ==
  ASSUME RefineInv, ~FromFile, UNCHANGED <<command, concurrently, lower, upper, chunks>>,
         BarReturned' = BarReturned,
         NEW n \in At("running"),
         At("running")' = At("running") \ {n}, At("ended")' = At("ended") \cup {n}
  PROVE  /\ Seconds(n) \in BarActive
         /\ BarActive' = BarActive \ {Seconds(n)}
         /\ BarDone' = BarDone \cup Seconds(n)
         /\ UNCHANGED <<BarBound, BarTodo, BarReturned>>
<1>1. At("running") \subseteq 1..Len(chunks)
  BY DEF RefineInv, Control, Types, At
<1>2. /\ Visible("running") = At("running") /\ Visible("ended") = At("ended")
      /\ Visible("running")' = At("running") \ {n} /\ Visible("ended")' = At("ended") \cup {n}
  BY DEF Visible
<1>3. \A i : Seconds(i)' = Seconds(i)
  BY DEF Seconds
<1>4. \A j \in At("running") : j # n => Seconds(j) # Seconds(n)
  BY <1>1, PiecesAround DEF AllPieces
<1>5. Seconds(n) \in BarActive
  BY <1>2 DEF BarActive
<1>6. BarActive' = BarActive \ {Seconds(n)}
  BY <1>2, <1>3, <1>4 DEF BarActive
<1>7. BarDone' = BarDone \cup Seconds(n)
  BY <1>2, <1>3 DEF BarDone
<1>8. BarTodo' = BarTodo
  <2>1. (Visible("running") \cup Visible("ended"))' = Visible("running") \cup Visible("ended")
    BY <1>2
  <2> QED
    BY <1>3, <2>1 DEF BarTodo
<1> QED
  BY <1>5, <1>6, <1>7, <1>8 DEF BarBound

\* A thread of the pool that begins a chunk finds fewer in progress than the
\* bound: the chunk holds a permit of its own, or occupies a thread of its own.
LEMMA RoomToBegin ==
  ASSUME RefineInv, ~FromFile, ~Serial, Busy < Workers, NEW i \in At("submitted")
  PROVE  Cardinality(BarActive) < BarBound
<1> USE BackfillAssumption
<1>1. /\ IsFiniteSet(At("running")) /\ Cardinality(At("running")) \in Nat
      /\ Cardinality(BarActive) \in Nat /\ Cardinality(BarActive) <= Cardinality(At("running"))
  BY ActiveCount
<1>2. Types /\ concurrently \in Nat
  BY DEF RefineInv, Control, Types
<1>3. CASE concurrently > 0
  <2>1. IsFiniteSet(Held) /\ Cardinality(Held) \in Nat
    BY <1>2, HeldFinite
  <2>2. At("running") \cup {i} \subseteq Held /\ i \notin At("running")
    BY <1>2 DEF At, Held, RefineInv, Control, Callbacks, Types
  <2>3. Cardinality(At("running") \cup {i}) = Cardinality(At("running")) + 1
    BY <1>1, <2>2, FS_AddElement
  <2>4. Cardinality(At("running") \cup {i}) <= Cardinality(Held)
    BY <2>1, <2>2, FS_Subset
  <2>5. sem \in Nat /\ sem + Cardinality(Held) = concurrently
    BY <1>3 DEF RefineInv, Permits, Limited
  <2> QED
    BY <1>1, <1>2, <1>3, <2>1, <2>3, <2>4, <2>5 DEF BarBound
<1>4. CASE concurrently = 0
  <2> DEFINE B == At("running") \cup Releasing
  <2>1. IsFiniteSet(1..Len(phase))
    BY <1>2, FS_Interval DEF Types
  <2>2. B \subseteq 1..Len(phase)
    BY <1>2 DEF At, Releasing, Types
  <2>3. IsFiniteSet(B) /\ Cardinality(B) \in Nat
    BY <2>1, <2>2, FS_Subset, FS_CardinalityType
  <2>4. Cardinality(At("running")) <= Cardinality(B)
    BY <2>3, FS_Subset
  <2>5. Cardinality(B) <= Busy /\ Busy \in Nat
    BY <2>3 DEF Busy
  <2> QED
    BY <1>1, <1>4, <2>3, <2>4, <2>5 DEF BarBound
<1> QED
  BY <1>2, <1>3, <1>4

\* A command that returns has nothing left to do and nothing in progress.
LEMMA ReturnsEmpty ==
  ASSUME RefineInv, RefineInv', ~FromFile, main' = "returned",
         UNCHANGED <<command, concurrently, lower, upper, start, gen, chunks, phase>>
  PROVE  /\ BarTodo = {} /\ BarActive = {}
         /\ BarReturned' = TRUE
         /\ UNCHANGED <<BarBound, BarTodo, BarActive, BarDone>>
<1>1. gen = "ended" /\ \A i \in 1..Len(phase) : phase[i] = "ended"
  BY DEF RefineInv, Control, Endings, GenEnds, Types
<1>2. /\ Len(phase) = Len(chunks) /\ DOMAIN phase = 1..Len(phase)
      /\ lower \in Nat /\ upper \in Nat
  BY DEF RefineInv, Control, Types
<1>3. Visible("ended") = 1..Len(chunks) /\ Visible("running") = {}
  BY <1>1, <1>2 DEF Visible, At
<1>4. Reached - 1 = upper
  BY <1>1, <1>2 DEF Reached
<1>5. \A t \in lower..upper : \E i \in 1..Len(chunks) : t \in Seconds(i)
  BY <1>4 DEF RefineInv, Tiling
<1>6. BarTodo = {}
  BY <1>3, <1>5 DEF BarTodo
<1>7. BarActive = {}
  BY <1>3 DEF BarActive
<1>8. /\ Visible("running")' = Visible("running") /\ Visible("ended")' = Visible("ended")
      /\ \A i : Seconds(i)' = Seconds(i)
  BY DEF Visible, At, Seconds
<1>9. UNCHANGED <<BarBound, BarTodo, BarActive, BarDone>>
  BY <1>8 DEF BarBound, BarTodo, BarActive, BarDone
<1> QED
  BY <1>6, <1>7, <1>9 DEF BarReturned

BarStart(piece) ==
  /\ piece \subseteq BarTodo /\ piece # {}
  /\ Cardinality(BarActive) < BarBound
  /\ BarTodo' = BarTodo \ piece
  /\ BarActive' = BarActive \cup {piece}
  /\ UNCHANGED <<BarBound, BarDone, BarReturned>>

BarEnd(piece) ==
  /\ piece \in BarActive
  /\ BarActive' = BarActive \ {piece}
  /\ BarDone' = BarDone \cup piece
  /\ UNCHANGED <<BarBound, BarTodo, BarReturned>>

BarReturn ==
  /\ BarTodo = {} /\ BarActive = {}
  /\ BarReturned' = TRUE
  /\ UNCHANGED <<BarBound, BarTodo, BarActive, BarDone>>

BarStutter == UNCHANGED <<BarBound, BarTodo, BarActive, BarDone, BarReturned>>

BarNext ==
  \/ \E piece : BarStart(piece)
  \/ \E piece : BarEnd(piece)
  \/ BarReturn
  \/ BarStutter

\* Of a file the abstract backfill sees nothing.
LEMMA FileUnseen ==
  ASSUME RefineInv, FromFile, [BackfillNext]_backfillVars
  PROVE  BarStutter
<1>1. UNCHANGED <<command, concurrently, lower, upper>>
  BY DEF BackfillNext, SerialBegins, SerialEnds, SerialStops, ProducerDraws, ProducerAcquires,
         ProducerPuts, ProducerCloses, ProducerRaises, ConsumerSubmits, ConsumerAdds,
         ConsumerStops, ConsumerEnds, WorkerBegins, WorkerEnds, WorkerReleases, PoolReturns,
         Over, backfillVars, args
<1>2. Visible("running") = {} /\ Visible("ended") = {} /\ Visible("running")' = {} /\ Visible("ended")' = {}
  BY <1>1 DEF Visible
<1>3. BarTodo' = BarTodo /\ BarActive' = BarActive /\ BarDone' = BarDone
  BY <1>1, <1>2 DEF BarTodo, BarActive, BarDone
<1> QED
  BY <1>1, <1>3 DEF BarStutter, BarBound, BarReturned

\* Where a chunk that moves is afterwards.
LEMMA MovedAt ==
  ASSUME Types, NEW i, NEW from \in Phases, NEW to \in Phases, from # to, Moves(i, from, to),
         NEW ph \in Phases
  PROVE  /\ ph = from => At(ph)' = At(ph) \ {i}
         /\ ph = to => At(ph)' = At(ph) \cup {i}
         /\ ph \notin {from, to} => At(ph)' = At(ph)
         /\ i \in At(from) /\ i \notin At(to)
<1>1. /\ Len(phase') = Len(phase) /\ phase' \in Seq(Phases)
      /\ i \in 1..Len(phase) /\ phase'[i] = to /\ phase[i] = from
      /\ \A j \in 1..Len(phase) : j # i => phase'[j] = phase[j]
  BY MovesFacts DEF Moves
<1>2. DOMAIN phase = 1..Len(phase) /\ DOMAIN phase' = 1..Len(phase)
  BY <1>1 DEF Types
<1> QED
  BY <1>1, <1>2 DEF At

\* Where a chunk that is drawn is afterwards.
LEMMA DrawnAt ==
  ASSUME Control, ~FromFile, GenYields, NEW ph \in Phases, phase' = Append(phase, ph)
  PROVE  \E n \in Nat :
           /\ n = Len(chunks) + 1 /\ Len(chunks') = n
           /\ \A i \in 1..Len(chunks) : chunks'[i] = chunks[i]
           /\ At(ph)' = At(ph) \cup {n}
           /\ \A other \in Phases : other # ph => At(other)' = At(other) /\ n \notin At(other)
           /\ n \notin At(ph)
<1>1. PICK n \in Nat : n = Len(chunks) + 1
  BY DEF Control, Types
<1>2. /\ Len(chunks) \in Nat /\ chunks \in Seq(Interval) /\ phase \in Seq(Phases)
      /\ Len(phase) = Len(chunks) /\ DOMAIN phase = 1..Len(phase)
  BY DEF Control, Types
<1>3. chunks' = Append(chunks, NextBounds) /\ NextBounds \in Interval
  BY DEF Control, Types, InRange, GenYields, GenTimeBounds, NextBounds, Interval
<1>4. Len(chunks') = n /\ \A i \in 1..Len(chunks) : chunks'[i] = chunks[i]
  BY <1>1, <1>2, <1>3, AppendFacts
<1>5. /\ phase' \in Seq(Phases) /\ Len(phase') = n /\ phase'[n] = ph
      /\ \A i \in 1..Len(phase) : phase'[i] = phase[i]
  BY <1>1, <1>2, AppendFacts
<1>6. DOMAIN phase' = 1..Len(phase) \cup {n} /\ n \notin 1..Len(phase)
  BY <1>1, <1>2, <1>5
<1>7. At(ph)' = At(ph) \cup {n} /\ n \notin At(ph)
  BY <1>2, <1>5, <1>6 DEF At
<1>8. \A other \in Phases : other # ph => At(other)' = At(other) /\ n \notin At(other)
  BY <1>2, <1>5, <1>6 DEF At
<1> QED
  BY <1>1, <1>4, <1>7, <1>8

\* Drawing an interval: the serial backfill begins to publish it, the pool only
\* queues it.
LEMMA DrawRefines ==
  ASSUME RefineInv, RefineInv', ~FromFile, SerialBegins \/ ProducerDraws
  PROVE  BarNext
<1>1. /\ GenYields /\ Control /\ UNCHANGED <<command, concurrently, lower, upper, main>>
  BY DEF SerialBegins, ProducerDraws, RefineInv, args
<1>2. CASE SerialBegins
  <2>1. "running" \in Phases /\ "ended" \in Phases
    BY DEF Phases
  <2>2. PICK n \in Nat :
           /\ n = Len(chunks) + 1 /\ Len(chunks') = n
           /\ \A i \in 1..Len(chunks) : chunks'[i] = chunks[i]
           /\ At("running")' = At("running") \cup {n}
           /\ At("ended")' = At("ended") /\ n \notin At("ended")
           /\ n \notin At("running")
    BY <1>1, <1>2, <2>1, DrawnAt DEF SerialBegins
  <2>3. n \in 1..Len(chunks') /\ Len(chunks) <= Len(chunks')
    BY <2>2, <1>1 DEF Control, Types
  <2>4. PICK piece : piece = Seconds(n)'
    OBVIOUS
  <2>5. /\ piece \subseteq BarTodo /\ piece # {}
        /\ BarTodo' = BarTodo \ piece
        /\ BarActive' = BarActive \cup {piece}
        /\ UNCHANGED <<BarBound, BarDone, BarReturned>>
    BY <1>1, <2>2, <2>3, <2>4, Begins
  <2>6. BarActive = {} /\ BarBound = 1
    BY <1>2 DEF SerialBegins, BarActive, BarBound, Visible
  <2>7. Cardinality(BarActive) < BarBound
    BY <2>6, FS_EmptySet
  <2> QED
    BY <2>5, <2>7 DEF BarNext, BarStart
<1>3. CASE ProducerDraws
  <2>1. "running" \in Phases /\ "ended" \in Phases /\ "drawn" \in Phases
    BY DEF Phases
  <2>2. /\ \A i \in 1..Len(chunks) : chunks'[i] = chunks[i]
        /\ At("running")' = At("running") /\ At("ended")' = At("ended")
    BY <1>1, <1>3, <2>1, DrawnAt DEF ProducerDraws
  <2>3. BarReturned' = BarReturned
    BY <1>1 DEF BarReturned
  <2> QED
    BY <1>1, <2>2, <2>3, Unseen DEF BarNext, BarStutter
<1> QED
  BY <1>2, <1>3

\* A chunk that moves on: acquired, queued and submitted are unseen, running is
\* a piece that starts, ended one that ends.
LEMMA MoveRefines ==
  ASSUME RefineInv, RefineInv', ~FromFile,
         ProducerAcquires \/ ProducerPuts \/ ConsumerSubmits \/ WorkerBegins \/ WorkerEnds \/ SerialEnds
  PROVE  BarNext
<1>0. /\ Control /\ Types
      /\ UNCHANGED <<command, concurrently, lower, upper, chunks>>
      /\ BarReturned' = BarReturned
  BY DEF RefineInv, Control, ProducerAcquires, ProducerPuts, ConsumerSubmits, WorkerBegins,
         WorkerEnds, SerialEnds, args, genVars, BarReturned
<1>p. Phases = {"drawn", "permitted", "queued", "submitted", "running", "ended"}
  BY DEF Phases
<1>1. CASE ProducerAcquires \/ ProducerPuts \/ ConsumerSubmits
  <2>1. PICK i \in 1..Len(phase), from \in {"drawn", "permitted", "queued"}, to \in {"permitted", "queued", "submitted"} :
          from # to /\ Moves(i, from, to)
    <3>1. CASE ProducerAcquires
      <4>1. Moves(Len(phase), "drawn", "permitted")
        BY <1>0, <3>1 DEF ProducerAcquires, Moves, Control, Hand, Types
      <4> QED
        BY <4>1 DEF Moves
    <3>2. CASE ProducerPuts
      <4>1. Moves(Len(phase), "permitted", "queued")
        BY <1>0, <3>2 DEF ProducerPuts, Moves, Control, Hand, Types
      <4> QED
        BY <4>1 DEF Moves
    <3>3. CASE ConsumerSubmits
      <4>1. PICK i \in At("queued") : phase' = [phase EXCEPT ![i] = "submitted"]
        BY <3>3 DEF ConsumerSubmits
      <4>2. Moves(i, "queued", "submitted")
        BY <1>0, <4>1 DEF Moves, At, Types
      <4> QED
        BY <4>2 DEF Moves
    <3> QED
      BY <1>1, <3>1, <3>2, <3>3
  <2>2. /\ At("running")' = At("running") /\ At("ended")' = At("ended")
    BY <1>0, <1>p, <2>1, MovedAt
  <2> QED
    BY <1>0, <2>2, Unseen DEF BarNext, BarStutter
<1>2. CASE WorkerBegins
  <2>1. PICK n \in At("submitted") : phase' = [phase EXCEPT ![n] = "running"]
    BY <1>2 DEF WorkerBegins
  <2>2. Moves(n, "submitted", "running")
    BY <1>0, <2>1 DEF Moves, At, Types
  <2>3. /\ At("running")' = At("running") \cup {n} /\ n \notin At("running")
        /\ At("ended")' = At("ended") /\ n \notin At("ended")
    BY <1>0, <1>p, <2>1, <2>2, MovedAt DEF At
  <2>4. /\ n \in 1..Len(chunks') /\ Len(chunks) <= Len(chunks') /\ UNCHANGED main
        /\ \A i \in 1..Len(chunks) : chunks'[i] = chunks[i]
    BY <1>0, <1>2, <2>1 DEF At, Types, WorkerBegins
  <2>5. PICK piece : piece = Seconds(n)'
    OBVIOUS
  <2>6. /\ piece \subseteq BarTodo /\ piece # {}
        /\ BarTodo' = BarTodo \ piece
        /\ BarActive' = BarActive \cup {piece}
        /\ UNCHANGED <<BarBound, BarDone, BarReturned>>
    BY <1>0, <2>3, <2>4, <2>5, Begins
  <2>7. ~Serial
    BY <1>0, <2>1 DEF Control, Modes, At, Types
  <2>8. Cardinality(BarActive) < BarBound
    BY <1>2, <2>1, <2>7, RoomToBegin DEF WorkerBegins
  <2> QED
    BY <2>6, <2>8 DEF BarNext, BarStart
<1>3. CASE WorkerEnds \/ SerialEnds
  <2>1. PICK n \in At("running") : phase' = [phase EXCEPT ![n] = "ended"]
    BY <1>3 DEF WorkerEnds, SerialEnds
  <2>2. Moves(n, "running", "ended")
    BY <1>0, <2>1 DEF Moves, At, Types
  <2>3. At("running")' = At("running") \ {n} /\ At("ended")' = At("ended") \cup {n}
    BY <1>0, <1>p, <2>2, MovedAt
  <2>4. BarEnd(Seconds(n))
    BY <1>0, <2>1, <2>3, Ends DEF BarEnd
  <2> QED
    BY <2>4 DEF BarNext
<1> QED
  BY <1>1, <1>2, <1>3

\* Every step of the backfill is a step of the abstract one, or none.
LEMMA StepRefines ==
  ASSUME RefineInv, RefineInv', [BackfillNext]_backfillVars
  PROVE  BarNext
<1>1. CASE FromFile
  BY <1>1, FileUnseen DEF BarNext
<1> SUFFICES ASSUME ~FromFile
             PROVE  BarNext
  BY <1>1
<1>2. CASE SerialBegins \/ ProducerDraws
  BY <1>2, DrawRefines
<1>3. CASE ProducerAcquires \/ ProducerPuts \/ ConsumerSubmits \/ WorkerBegins \/ WorkerEnds \/ SerialEnds
  BY <1>3, MoveRefines
<1>4. CASE SerialStops \/ PoolReturns
  <2>1. UNCHANGED <<command, concurrently, lower, upper, start, gen, chunks, phase>> /\ main = "working"
    BY <1>4 DEF SerialStops, PoolReturns, args, genVars
  <2>2. CASE main' = "returned"
    BY <2>1, <2>2, ReturnsEmpty DEF BarNext, BarReturn
  <2>3. CASE main' # "returned"
    <3>1. BarReturned' = BarReturned /\ At("running")' = At("running") /\ At("ended")' = At("ended")
      BY <2>1, <2>3 DEF BarReturned, At
    <3> QED
      BY <2>1, <3>1, Unseen DEF BarNext, BarStutter
  <2> QED
    BY <2>2, <2>3
<1>5. CASE \/ ProducerCloses \/ ProducerRaises \/ ConsumerAdds \/ ConsumerStops \/ ConsumerEnds
           \/ WorkerReleases \/ Over \/ UNCHANGED backfillVars
  <2>1. UNCHANGED <<command, concurrently, lower, upper, chunks, phase, main>>
    BY <1>5 DEF ProducerCloses, ProducerRaises, ConsumerAdds, ConsumerStops, ConsumerEnds,
                WorkerReleases, Over, backfillVars, args, genVars
  <2>2. BarReturned' = BarReturned /\ At("running")' = At("running") /\ At("ended")' = At("ended")
    BY <2>1 DEF BarReturned, At
  <2> QED
    BY <2>1, <2>2, Unseen DEF BarNext, BarStutter
<1> QED
  BY <1>2, <1>3, <1>4, <1>5 DEF BackfillNext

\* The cardinality of the abstract specification is the one of this module.
LEMMA SameCardinality == \A S : Abstract!Cardinality(S) = Cardinality(S)
BY DEF Abstract!Cardinality, Cardinality

\* Serial or in the pool, for every range, step, number of threads and permits,
\* `new` implements the abstract backfill: the range is published in disjoint
\* pieces, at most --concurrently at a time, and the command returns only when
\* nothing is left.
THEOREM RefinesPublishOnce == BackfillSpec => ImplementsPublishOnce
<1>1. BackfillInit => Abstract!OnceInit
  <2> SUFFICES ASSUME BackfillInit
               PROVE  Abstract!OnceInit
    OBVIOUS
  <2> USE BackfillAssumption
  <2>1. (IF concurrently > 0 THEN concurrently ELSE Workers) \in Nat \ {0}
    BY DEF BackfillInit
  <2>2. Visible("running") = {} /\ Visible("ended") = {}
    BY DEF BackfillInit, Visible, At
  <2>3. BarTodo = lower..upper /\ BarActive = {} /\ BarDone = {}
    BY <2>2 DEF BarTodo, BarActive, BarDone
  <2>4. lower \in 0..MaxTime /\ upper \in 0..MaxTime /\ main = "working"
    BY DEF BackfillInit
  <2>5. BarTodo \in {a..b : a \in 0..MaxTime, b \in 0..MaxTime}
    BY <2>3, <2>4
  <2> QED
    BY <2>1, <2>3, <2>4, <2>5 DEF Abstract!OnceInit, BarTodo, BarActive, BarDone
<1>2. RefineInv /\ RefineInv' /\ [BackfillNext]_backfillVars => [Abstract!OnceNext]_(Abstract!onceVars)
  <2> SUFFICES ASSUME BarNext
               PROVE  [Abstract!OnceNext]_(Abstract!onceVars)
    BY StepRefines
  <2>1. CASE \E piece : BarStart(piece)
    <3>1. PICK piece : BarStart(piece)
      BY <2>1
    <3>2. piece \in SUBSET BarTodo /\ Abstract!Start(piece)
      BY <3>1, SameCardinality DEF BarStart, Abstract!Start, BarTodo, BarActive, BarDone, BarBound, BarReturned
    <3> QED
      BY <3>2 DEF Abstract!OnceNext, BarTodo
  <2>2. CASE \E piece : BarEnd(piece)
    <3>1. PICK piece : BarEnd(piece)
      BY <2>2
    <3>2. piece \in BarActive /\ Abstract!End(piece)
      BY <3>1 DEF BarEnd, Abstract!End, BarTodo, BarActive, BarDone, BarBound, BarReturned
    <3> QED
      BY <3>2 DEF Abstract!OnceNext, BarActive
  <2>3. CASE BarReturn
    BY <2>3 DEF BarReturn, Abstract!OnceNext, Abstract!Return, BarTodo, BarActive, BarDone, BarBound, BarReturned
  <2>4. CASE BarStutter
    BY <2>4 DEF BarStutter, Abstract!onceVars, BarTodo, BarActive, BarDone, BarBound, BarReturned
  <2> QED
    BY <2>1, <2>2, <2>3, <2>4 DEF BarNext
<1> QED
  BY <1>1, <1>2, RefineInvariant, PTL DEF BackfillSpec, ImplementsPublishOnce, Abstract!OnceSpec
-----------------------------------------------------------------------------
(***************************************************************************)
(* Nobody waits for nobody: the half of CommandEnds that needs no          *)
(* fairness.  The guards of the actions, thread by thread, say who can go  *)
(* on; what GenIntervals bounds is left out.                               *)
(***************************************************************************)
GenReady == GenEnds \/ GenRaises \/ (gen = "active" /\ ~FromFile /\ step > 1)

SerialReady == Serial /\ main = "working" /\ (At("running") # {} \/ GenReady)

ProducerReady ==
  \/ producer = "next" /\ GenReady
  \/ producer = "acquire" /\ (concurrently > 0 => sem > 0)
  \/ producer = "put"

ConsumerReady ==
  \/ consumer = "get" /\ \E i \in At("queued") : Least(i, At("queued"))
  \/ consumer = "get" /\ closed /\ At("queued") = {}
  \/ consumer = "adding" /\ Submitted \ registered # {}
  \/ consumer = "waiting" /\ Submitted = At("ended")

WorkersReady ==
  \/ Busy < Workers /\ \E i \in At("submitted") : Least(i, At("submitted"))
  \/ ~Serial /\ At("running") # {}
  \/ Releasing # {}

ReturnReady ==
  /\ ~Serial /\ main = "working"
  /\ producer \in {"ended", "raised"} /\ consumer = "ended" /\ Releasing = {}

\* Producer, consumer, threads and command never all wait for each other, but
\* for a generator that raised in the pool (publish_all_parallel).
NeverStuck ==
  main = "working" /\ producer # "raised" =>
    SerialReady \/ ProducerReady \/ ConsumerReady \/ WorkersReady \/ ReturnReady

\* The consumer adds the callback of a future before it takes the next chunk,
\* so that at most one future has none; a producer that ended has put None.
Handing ==
  /\ registered \subseteq Submitted
  /\ ~Serial /\ consumer # "adding" => Submitted \subseteq registered
  /\ consumer = "adding" => \E i \in Submitted : Submitted \ registered = {i}
  /\ producer = "ended" => closed

\* The futures are the chunks of the last three phases.
LEMMA SubmittedFacts ==
  ASSUME Types
  PROVE  Submitted = {i \in 1..Len(phase) : phase[i] \in {"submitted", "running", "ended"}}
BY DEF Types, Submitted, At

\* Nothing has been handed over before the first interval is drawn.
LEMMA HandingInit ==
  ASSUME BackfillInit
  PROVE  Handing
<1>1. Submitted = {}
  BY DEF BackfillInit, Submitted, At
<1> QED
  BY <1>1 DEF BackfillInit, Handing

\* Every step keeps the hand-over of futures in order.
LEMMA StepHanding ==
  ASSUME Control, Control', Handing, [BackfillNext]_backfillVars
  PROVE  Handing'
<1>0. Types /\ Types' /\ Hand
  BY DEF Control
<1>c. UNCHANGED concurrently
  BY DEF BackfillNext, SerialBegins, SerialEnds, SerialStops, ProducerDraws, ProducerAcquires,
         ProducerPuts, ProducerCloses, ProducerRaises, ConsumerSubmits, ConsumerAdds,
         ConsumerStops, ConsumerEnds, WorkerBegins, WorkerEnds, WorkerReleases, PoolReturns,
         Over, backfillVars, args
<1>1. /\ Submitted = {i \in 1..Len(phase) : phase[i] \in {"submitted", "running", "ended"}}
      /\ Submitted' = {i \in 1..Len(phase') : phase'[i] \in {"submitted", "running", "ended"}}
      /\ Len(phase) \in Nat /\ Len(phase') \in Nat
  BY <1>0, SubmittedFacts DEF Types, Submitted, At
<1>2. ASSUME Submitted' = Submitted, UNCHANGED <<registered, consumer, producer, closed>>
      PROVE  Handing'
  BY <1>c, <1>2 DEF Handing
<1>3. CASE SerialBegins
  <2>1. Serial /\ registered = {} /\ consumer = "none" /\ producer = "none"
        /\ UNCHANGED <<registered, consumer, producer>>
    BY <1>3 DEF SerialBegins, Control, Modes, poolVars
  <2> QED
    BY <1>c, <2>1 DEF Handing
<1>4. CASE ProducerDraws
  <2>1. /\ Len(phase') = Len(phase) + 1 /\ phase'[Len(phase) + 1] = "drawn"
        /\ \A j \in 1..Len(phase) : phase'[j] = phase[j]
    <3>1. "drawn" \in Phases /\ phase \in Seq(Phases) /\ phase' = Append(phase, "drawn")
      BY <1>0, <1>4 DEF Phases, Types, ProducerDraws
    <3> QED
      BY <3>1, AppendFacts
  <2>2. Submitted' = Submitted
    BY <1>1, <2>1
  <2>3. UNCHANGED <<registered, consumer, closed>> /\ producer' = "acquire"
    BY <1>4 DEF ProducerDraws
  <2> QED
    BY <1>c, <2>2, <2>3 DEF Handing
<1>5. CASE ProducerAcquires \/ ProducerPuts
  <2>1. /\ Len(phase) \in 1..Len(phase) /\ Len(phase') = Len(phase)
        /\ phase[Len(phase)] \in {"drawn", "permitted"}
        /\ phase'[Len(phase)] \in {"permitted", "queued"}
        /\ \A j \in 1..Len(phase) : j # Len(phase) => phase'[j] = phase[j]
    BY <1>0, <1>5 DEF Hand, Types, ProducerAcquires, ProducerPuts
  <2>2. Submitted' = Submitted
    BY <1>1, <2>1
  <2>3. UNCHANGED <<registered, consumer, closed>> /\ producer' # "ended"
    BY <1>5 DEF ProducerAcquires, ProducerPuts
  <2> QED
    BY <1>c, <2>2, <2>3 DEF Handing
<1>6. CASE ProducerCloses \/ ProducerRaises
  BY <1>6, <1>c DEF ProducerCloses, ProducerRaises, Handing, Submitted, At
<1>7. CASE ConsumerSubmits
  <2>1. PICK i \in At("queued") : phase' = [phase EXCEPT ![i] = "submitted"]
    BY <1>7 DEF ConsumerSubmits
  <2>2. /\ i \in 1..Len(phase) /\ phase[i] = "queued" /\ phase'[i] = "submitted"
        /\ Len(phase') = Len(phase) /\ \A j \in 1..Len(phase) : j # i => phase'[j] = phase[j]
    BY <1>0, <2>1 DEF At, Types
  <2>3. Submitted' = Submitted \cup {i} /\ i \notin Submitted
    BY <1>1, <2>2
  <2>4. consumer = "get" /\ consumer' = "adding" /\ UNCHANGED <<registered, producer, closed>>
    BY <1>7 DEF ConsumerSubmits
  <2>5. ~Serial
    BY <2>4 DEF Control, Modes
  <2>6. Submitted = registered
    BY <2>4, <2>5 DEF Handing
  <2> QED
    BY <1>c, <2>3, <2>4, <2>5, <2>6 DEF Handing
<1>8. CASE ConsumerAdds
  <2>1. PICK i \in Submitted \ registered : registered' = registered \cup {i}
    BY <1>8 DEF ConsumerAdds
  <2>2. consumer = "adding" /\ consumer' = "get" /\ UNCHANGED <<phase, producer, closed>>
    BY <1>8 DEF ConsumerAdds
  <2>3. Submitted' = Submitted
    BY <1>1, <2>2
  <2> QED
    BY <1>c, <2>1, <2>2, <2>3 DEF Handing
<1>9. CASE ConsumerStops \/ ConsumerEnds
  <2>1. UNCHANGED <<phase, registered, producer, closed>>
        /\ consumer \in {"get", "waiting"} /\ consumer' \in {"waiting", "ended"}
    BY <1>9 DEF ConsumerStops, ConsumerEnds
  <2>2. Submitted' = Submitted
    BY <1>1, <2>1
  <2> QED
    BY <1>c, <2>1, <2>2 DEF Handing
<1>10. CASE WorkerBegins \/ WorkerEnds \/ SerialEnds
  <2>1. PICK i \in 1..Len(phase) :
          /\ phase[i] \in {"submitted", "running"}
          /\ phase' \in {[phase EXCEPT ![i] = "running"], [phase EXCEPT ![i] = "ended"]}
    <3>1. DOMAIN phase = 1..Len(phase)
      BY <1>0 DEF Types
    <3>2. CASE WorkerBegins
      BY <3>1, <3>2 DEF WorkerBegins, At
    <3>3. CASE WorkerEnds
      BY <3>1, <3>3 DEF WorkerEnds, At
    <3>4. CASE SerialEnds
      BY <3>1, <3>4 DEF SerialEnds, At
    <3> QED
      BY <1>10, <3>2, <3>3, <3>4
  <2>2. /\ phase'[i] \in {"running", "ended"} /\ Len(phase') = Len(phase)
        /\ \A j \in 1..Len(phase) : j # i => phase'[j] = phase[j]
    BY <1>0, <2>1 DEF Types
  <2>3. Submitted' = Submitted
    BY <1>1, <2>1, <2>2
  <2>4. UNCHANGED <<registered, consumer, producer, closed>>
    BY <1>10 DEF WorkerBegins, WorkerEnds, SerialEnds, poolVars
  <2> QED
    BY <1>2, <2>3, <2>4
<1>11. CASE WorkerReleases \/ SerialStops \/ PoolReturns \/ Over \/ UNCHANGED backfillVars
  <2>1. UNCHANGED <<phase, registered, consumer, producer, closed>>
    BY <1>11 DEF WorkerReleases, SerialStops, PoolReturns, Over, backfillVars, poolVars
  <2> QED
    BY <1>1, <1>2, <2>1
<1> QED
  BY <1>3, <1>4, <1>5, <1>6, <1>7, <1>8, <1>9, <1>10, <1>11 DEF BackfillNext

\* A nonempty set of chunks has a first one.
LEMMA FirstChunk ==
  ASSUME NEW T, T \subseteq Nat, T # {}
  PROVE  \E i \in T : Least(i, T)
<1>1. PICK i \in T : \A j \in T : ~(<<j, i>> \in OpToRel(<, Nat))
  BY NatLessThanWellFounded, WFMin
<1>2. \A j \in T : ~(j < i)
  BY <1>1 DEF OpToRel
<1> QED
  BY <1>2 DEF Least

\* The generator always has something to say: an interval, its end or an
\* exception.
LEMMA GenAlwaysReady ==
  ASSUME Types
  PROVE  GenReady
BY DEF Types, GenReady, GenEnds, GenRaises

\* A pool that has work has a thread for it: producer and consumer take two
\* of at least three.
LEMMA SomebodyWorks ==
  ASSUME Types, ~Serial, At("submitted") \cup At("running") # {}
  PROVE  WorkersReady
<1>1. CASE At("running") \cup Releasing # {}
  BY <1>1 DEF WorkersReady
<1>2. CASE At("running") \cup Releasing = {}
  <2>1. Cardinality(At("running") \cup Releasing) = 0
    BY <1>2, FS_EmptySet
  <2>2. Busy < Workers
    <3> DEFINE p == IF producer \in {"ended", "raised"} THEN 0 ELSE 1
               q == IF consumer = "ended" THEN 0 ELSE 1
    <3>1. Busy = 0 + p + q /\ p \in 0..1 /\ q \in 0..1
      BY <2>1 DEF Busy
    <3> QED
      BY <3>1, BackfillAssumption
  <2>3. At("submitted") # {} /\ At("submitted") \subseteq Nat
    BY <1>2 DEF At, Types
  <2> QED
    BY <2>2, <2>3, FirstChunk DEF WorkersReady
<1> QED
  BY <1>1, <1>2

\* A chunk that is in the queue or a future that has not given its permit back
\* has somebody who can take it further, as long as the consumer is there.
LEMMA HeldMoves ==
  ASSUME Control, Handing, ~Serial, producer # "put",
         NEW i \in Held
  PROVE  ConsumerReady \/ WorkersReady
<1>0. /\ i \in 1..Len(phase) /\ i \notin released /\ phase[i] \in Phases
      /\ phase[i] \notin {"drawn", "permitted"} /\ Types
  BY DEF Held, Control, Types, Hand
<1>1. CASE phase[i] = "queued"
  <2>1. At("queued") # {} /\ At("queued") \subseteq Nat
    BY <1>0, <1>1 DEF At, Types
  <2>2. consumer \in {"get", "adding"}
    BY <1>0, <1>1 DEF Control, Endings, Modes, Types
  <2>3. CASE consumer = "get"
    BY <2>1, <2>3, FirstChunk DEF ConsumerReady
  <2>4. CASE consumer = "adding"
    BY <2>4 DEF Handing, ConsumerReady
  <2> QED
    BY <2>2, <2>3, <2>4
<1>2. CASE phase[i] \in {"submitted", "running"}
  <2>1. At("submitted") \cup At("running") # {}
    BY <1>0, <1>2 DEF At, Types
  <2> QED
    BY <1>0, <2>1, SomebodyWorks
<1>3. CASE phase[i] = "ended"
  <2>1. i \in At("ended") /\ i \in Submitted
    BY <1>0, <1>3 DEF At, Submitted, Types
  <2>2. CASE i \in registered
    BY <1>0, <2>1, <2>2 DEF Releasing, WorkersReady
  <2>3. CASE i \notin registered
    BY <2>1, <2>3 DEF Handing, ConsumerReady
  <2> QED
    BY <2>2, <2>3
<1> QED
  BY <1>0, <1>1, <1>2, <1>3 DEF Phases

\* The invariant leaves no state in which everybody waits.
LEMMA InvNeverStuck ==
  ASSUME Control, Permits, Handing
  PROVE  NeverStuck
<1> SUFFICES ASSUME main = "working", producer # "raised"
             PROVE  SerialReady \/ ProducerReady \/ ConsumerReady \/ WorkersReady \/ ReturnReady
  BY DEF NeverStuck
<1>0. Types /\ GenReady
  BY GenAlwaysReady DEF Control
<1>1. CASE Serial
  BY <1>0, <1>1 DEF SerialReady
<1>2. CASE ~Serial /\ producer \in {"next", "put"}
  BY <1>0, <1>2 DEF ProducerReady
<1>3. CASE ~Serial /\ producer = "acquire"
  <2>1. CASE concurrently > 0 => sem > 0
    BY <1>3, <2>1 DEF ProducerReady
  <2>2. CASE concurrently > 0 /\ ~(sem > 0)
    <3>1. concurrently \in Nat /\ Cardinality(Held) \in Nat
      BY <1>0, HeldFinite, BackfillAssumption DEF Types
    <3>2. Cardinality(Held) # 0
      BY <1>3, <2>2, <3>1 DEF Permits, Limited
    <3>3. Held # {}
      BY <3>2, FS_EmptySet
    <3> QED
      BY <1>3, <3>3, HeldMoves
  <2> QED
    BY <2>1, <2>2
<1>4. CASE ~Serial /\ producer = "ended"
  <2>1. closed /\ consumer \in {"get", "adding", "waiting", "ended"}
    BY <1>0, <1>4 DEF Handing, Control, Modes, Types
  <2>2. CASE consumer = "get"
    <3>1. At("queued") \subseteq Nat
      BY <1>0 DEF At, Types
    <3> QED
      BY <2>1, <2>2, <3>1, FirstChunk DEF ConsumerReady
  <2>3. CASE consumer = "adding"
    BY <2>3 DEF Handing, ConsumerReady
  <2>4. CASE consumer = "waiting"
    <3>1. CASE At("submitted") \cup At("running") = {}
      BY <2>4, <3>1 DEF Submitted, ConsumerReady
    <3>2. CASE At("submitted") \cup At("running") # {}
      BY <1>0, <1>4, <3>2, SomebodyWorks
    <3> QED
      BY <3>1, <3>2
  <2>5. CASE consumer = "ended"
    BY <1>4, <2>5 DEF ReturnReady, WorkersReady
  <2> QED
    BY <2>1, <2>2, <2>3, <2>4, <2>5
<1> QED
  BY <1>0, <1>1, <1>2, <1>3, <1>4 DEF Types, Control, Modes

\* For every number of threads (three at least), permits, chunks and rows:
\* queue, semaphore, futures and callbacks never leave everybody waiting, unless
\* the generator of the intervals has raised in the pool.
THEOREM BackfillNeverStuck == BackfillSpec => []NeverStuck
<1>1. BackfillInit => Control /\ Permits /\ Handing
  BY ControlInit, InitPermits, HandingInit
<1>2. Control /\ Permits /\ Handing /\ [BackfillNext]_backfillVars
        => (Control /\ Permits /\ Handing)'
  BY StepControl, StepPermits, StepHanding
<1>3. Control /\ Permits /\ Handing => NeverStuck
  BY InvNeverStuck
<1> QED
  BY <1>1, <1>2, <1>3, PTL DEF BackfillSpec
=============================================================================
