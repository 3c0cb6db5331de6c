------------------------------ MODULE GpuProofs ------------------------------
(***************************************************************************)
(* What is said about GPUs.  nvml_monitor: its records are about their own    *)
(* interval, its metrics agree with them, and its cycles keep their pace, for *)
(* every number of devices, every intervals and delays.  shelper and the      *)
(* slurmprocessor: a measurement is attributed to a job that ran recently, for *)
(* any number of pipelines that share the cache.                            *)
(***************************************************************************)
EXTENDS NvmlMonitor, GpuAttribution, FiniteSetTheorems, WellFoundedInduction, TLAPS

---------------------------------------------------------------------------
(* Sets of numbers, and sums *)

\* Every set of numbers has a least one.
LEMMA LeastNumber ==
  ASSUME NEW T, T \subseteq Nat, T # {}
  PROVE  \E x \in T : \A y \in T : x <= y
<1> DEFINE R == OpToRel(<, Nat)
<1>1. \A x, y \in Nat : y < x => <<y, x>> \in R
  BY DEF OpToRel
<1>2. IsWellFoundedOn(R, Nat)
  BY NatLessThanWellFounded
<1> HIDE DEF R
<1>3. PICK x \in T : \A y \in T : ~ (<<y, x>> \in R)
  BY <1>2, WFMin
<1>4. \A y \in T : ~(y < x)
  BY <1>1, <1>3
<1>5. x \in Nat /\ \A y \in T : y \in Nat
  OBVIOUS
<1>6. \A y \in T : x <= y
  BY <1>4, <1>5
<1> QED
  BY <1>6

\* A set of numbers that has a bound has a greatest one.
LEMMA GreatestNumber ==
  ASSUME NEW n \in Nat, NEW S, S \subseteq 0..n, S # {}
  PROVE  Max(S) \in S /\ \A y \in S : y <= Max(S)
<1> DEFINE T == {n - i : i \in S}
<1>0. \A i \in S : i \in Nat /\ i <= n /\ n - i \in Nat
  OBVIOUS
<1>1. T \subseteq Nat /\ T # {}
  BY <1>0
<1>2. PICK x \in T : \A y \in T : x <= y
  BY <1>1, LeastNumber
<1>3. PICK i \in S : x = n - i
  BY <1>2
<1>4. \A y \in S : i >= y
  <2>1. \A y \in S : n - y \in T
    OBVIOUS
  <2>2. \A y \in S : n - i <= n - y
    BY <1>2, <1>3, <2>1
  <2> QED
    BY <1>0, <2>2
<1>5. Max(S) \in S /\ \A y \in S : Max(S) >= y
  BY <1>4, Zenon DEF Max
<1> QED
  BY <1>5

\* s is the sums of the first values of v, up to n of them.
Sums(s, v, n) ==
  /\ s \in [0..n -> Int] /\ s[0] = 0
  /\ \A d \in 1..n : s[d] = s[d - 1] + v[d]

\* Every sequence of numbers has partial sums.
LEMMA SumsExist ==
  ASSUME NEW n \in Nat, NEW v \in [1..n -> Int]
  PROVE  \E s : Sums(s, v, n)
<1> DEFINE T == {k \in Nat : k <= n /\ ~ \E s : Sums(s, v, k)}
<1>1. CASE T = {}
  <2>1. n \notin T
    BY <1>1
  <2> QED
    BY <2>1
<1>2. CASE T # {}
  <2>1. PICK k \in T : \A y \in T : k <= y
    BY <1>2, LeastNumber
  <2>2. CASE k = 0
    <3>1. Sums([d \in 0..0 |-> 0], v, 0)
      BY DEF Sums
    <3> QED
      BY <2>1, <2>2, <3>1
  <2>3. CASE k # 0
    <3>1. k - 1 \in Nat /\ k - 1 <= n /\ k - 1 \notin T /\ k \in 1..n
      BY <2>1, <2>3
    <3>2. PICK s : Sums(s, v, k - 1)
      BY <3>1
    <3> DEFINE r == [d \in 0..k |-> IF d = k THEN s[k - 1] + v[k] ELSE s[d]]
    <3>3. v[k] \in Int /\ \A d \in 0..(k - 1) : s[d] \in Int
      BY <3>1, <3>2 DEF Sums
    <3>4. r \in [0..k -> Int] /\ r[0] = 0
      BY <3>1, <3>2, <3>3 DEF Sums
    <3>5. ASSUME NEW d \in 1..k PROVE r[d] = r[d - 1] + v[d]
      <4>1. CASE d = k
        BY <3>1, <4>1
      <4>2. CASE d # k
        <5>1. d \in 1..(k - 1) /\ d \in 0..k /\ d - 1 \in 0..k /\ d - 1 # k
          BY <3>1, <4>2
        <5>2. s[d] = s[d - 1] + v[d]
          BY <3>2, <5>1 DEF Sums
        <5> QED
          BY <4>2, <5>1, <5>2
      <4> QED
        BY <4>1, <4>2
    <3>6. Sums(r, v, k)
      BY <3>4, <3>5 DEF Sums
    <3> QED
      BY <2>1, <3>6
  <2> QED
    BY <2>2, <2>3
<1> QED
  BY <1>1, <1>2

\* The recursive function has a value: it is the sum.
LEMMA TotalIsSum ==
  ASSUME NEW v \in [1..NumDevices -> Int]
  PROVE  \E s : Sums(s, v, NumDevices) /\ Total(v) = s[NumDevices]
<1> DEFINE F(g) == [d \in 0..NumDevices |-> IF d = 0 THEN 0 ELSE g[d - 1] + v[d]]
           t == CHOOSE g : g = F(g)
<1>1. PICK s : Sums(s, v, NumDevices)
  BY SumsExist, NvmlAssumption
<1>2. s = F(s)
  BY <1>1, NvmlAssumption DEF Sums
<1>3. t = F(t)
  BY <1>2
<1>4. Total(v) = t[NumDevices]
  BY DEF Total
<1> HIDE DEF t
<1> DEFINE T == {k \in Nat : k <= NumDevices /\ t[k] # s[k]}
<1>5. T = {}
  <2> SUFFICES ASSUME T # {} PROVE FALSE
    OBVIOUS
  <2>1. PICK k \in T : \A y \in T : k <= y
    BY LeastNumber
  <2>2. k \in 0..NumDevices /\ t[k] # s[k]
    BY <2>1, NvmlAssumption
  <2>3. k # 0
    BY <1>1, <1>3, <2>2 DEF Sums
  <2>4. k - 1 \in Nat /\ k - 1 <= NumDevices /\ k - 1 \notin T
    BY <2>1, <2>2, <2>3, NvmlAssumption
  <2>5. t[k - 1] = s[k - 1]
    BY <2>4
  <2>6. t[k] = t[k - 1] + v[k]
    BY <1>3, <2>2, <2>3
  <2>7. s[k] = s[k - 1] + v[k]
    BY <1>1, <2>2, <2>3 DEF Sums
  <2> QED
    BY <2>2, <2>5, <2>6, <2>7
<1>6. t[NumDevices] = s[NumDevices]
  BY <1>5, NvmlAssumption
<1> QED
  BY <1>1, <1>4, <1>6

\* Multiplication by one more.
LEMMA TimesNext == \A a, b \in Nat : a * (b + 1) = a * b + a /\ a * b \in Nat
OBVIOUS

\* A sum over the devices of B is between their number times the least and
\* times the greatest of its values.
LEMMA TotalBounds ==
  ASSUME NEW v \in [1..NumDevices -> Int], NEW B, B \subseteq 1..NumDevices,
         NEW lo \in Nat, NEW hi \in Nat,
         \A d \in 1..NumDevices : IF d \in B THEN lo <= v[d] /\ v[d] <= hi ELSE v[d] = 0
  PROVE  lo * Cardinality(B) <= Total(v) /\ Total(v) <= hi * Cardinality(B)
<1>1. PICK s : Sums(s, v, NumDevices) /\ Total(v) = s[NumDevices]
  BY TotalIsSum
<1> DEFINE C(k) == Cardinality({d \in B : d <= k})
           P(k) == lo * C(k) <= s[k] /\ s[k] <= hi * C(k)
           T == {k \in Nat : k <= NumDevices /\ ~ P(k)}
<1>0. \A d \in B : d \in Nat /\ 1 <= d /\ d <= NumDevices
  OBVIOUS
<1>2. ASSUME NEW k \in 0..NumDevices PROVE IsFiniteSet({d \in B : d <= k}) /\ C(k) \in Nat
  <2>1. IsFiniteSet(1..NumDevices)
    BY FS_Interval, NvmlAssumption
  <2>2. {d \in B : d <= k} \subseteq 1..NumDevices
    BY <1>0
  <2> QED
    BY <2>1, <2>2, FS_Subset, FS_CardinalityType
<1> HIDE DEF C, P
<1>3. T = {}
  <2> SUFFICES ASSUME T # {} PROVE FALSE
    OBVIOUS
  <2>1. PICK k \in T : \A y \in T : k <= y
    BY LeastNumber
  <2>2. k \in 0..NumDevices /\ ~ P(k)
    BY <2>1, NvmlAssumption
  <2>3. k # 0
    <3>0. \A d \in B : ~(d <= 0)
      BY <1>0
    <3>1. {d \in B : d <= 0} = {}
      BY <3>0
    <3>2. C(0) = 0 /\ s[0] = 0
      BY <1>1, <3>1, FS_EmptySet DEF Sums, C
    <3>3. P(0)
      BY <3>2 DEF P
    <3> QED
      BY <2>2, <3>3
  <2>4. k - 1 \in Nat /\ k - 1 <= NumDevices /\ k - 1 \notin T /\ k - 1 \in 0..NumDevices /\ k \in 1..NumDevices
    BY <2>1, <2>2, <2>3, NvmlAssumption
  <2>5. P(k - 1)
    BY <2>4
  <2>6. s[k] = s[k - 1] + v[k] /\ s[k - 1] \in Int /\ v[k] \in Int
    BY <1>1, <2>4 DEF Sums
  <2>7. CASE k \in B
    <3>0. \A d \in B : (d <= k <=> d <= k - 1 \/ d = k) /\ ~(k <= k - 1) /\ k <= k
      BY <1>0, <2>4
    <3>1. {d \in B : d <= k} = {d \in B : d <= k - 1} \cup {k} /\ k \notin {d \in B : d <= k - 1}
      BY <2>7, <3>0
    <3>2. C(k) = C(k - 1) + 1
      BY <1>2, <2>4, <3>1, FS_AddElement DEF C
    <3>3. C(k - 1) \in Nat /\ lo <= v[k] /\ v[k] <= hi
      BY <1>2, <2>4, <2>7
    <3>4. /\ lo * C(k) = lo * C(k - 1) + lo /\ hi * C(k) = hi * C(k - 1) + hi
          /\ lo * C(k - 1) \in Nat /\ hi * C(k - 1) \in Nat
      BY <3>2, <3>3, TimesNext
    <3>6. P(k)
      BY <2>5, <2>6, <3>3, <3>4 DEF P
    <3> QED
      BY <2>2, <3>6
  <2>8. CASE k \notin B
    <3>0. \A d \in B : (d <= k <=> d <= k - 1)
      BY <1>0, <2>4, <2>8
    <3>1. {d \in B : d <= k} = {d \in B : d <= k - 1}
      BY <3>0
    <3>2. C(k) = C(k - 1) /\ v[k] = 0
      BY <2>4, <2>8, <3>1 DEF C
    <3>3. P(k)
      BY <2>5, <2>6, <3>2 DEF P
    <3> QED
      BY <2>2, <3>3
  <2> QED
    BY <2>7, <2>8
<1>4. P(NumDevices)
  <2>1. NumDevices \in Nat /\ NumDevices <= NumDevices /\ NumDevices \notin T
    BY <1>3, NvmlAssumption
  <2> QED
    BY <2>1
<1>5. {d \in B : d <= NumDevices} = B
  BY <1>0
<1> QED
  BY <1>1, <1>4, <1>5 DEF P, C

---------------------------------------------------------------------------
(* Peaks *)

\* A bound of a set that is one of its members is its maximum.
LEMMA MaxIsBound ==
  ASSUME NEW S, S \subseteq Int, NEW m \in S, \A x \in S : x <= m
  PROVE  Max(S) = m
<1>1. \A y \in S : m >= y
  OBVIOUS
<1>2. Max(S) \in S /\ \A y \in S : Max(S) >= y
  BY <1>1, Zenon DEF Max
<1>3. m \in Int /\ Max(S) \in Int /\ Max(S) >= m /\ Max(S) <= m
  BY <1>2
<1> QED
  BY <1>3

\* v is the accumulated value of the samples h.
IsPeak(v, h) ==
  IF v = None THEN \A i \in DOMAIN h : h[i].util = None
  ELSE /\ \E i \in DOMAIN h : h[i].util = v
       /\ \A i \in DOMAIN h : h[i].util # None => h[i].util <= v

\* j is the job of the last of the samples h with a process, if there is one.
IsLastJob(j, h) ==
  \/ j = NoJob /\ \A i \in DOMAIN h : h[i].job = None
  \/ \E i \in DOMAIN h : /\ h[i].job = j /\ j # None
                         /\ \A k \in DOMAIN h : k > i => h[k].job = None

Sample   == [util: MaybeUtil, job: Jobs \cup {NoJob, None}]
Record   == [util: MaybeUtil, job: Jobs \cup {NoJob}]

\* The values of metrics are integers, and None is below all utilizations.
LEMMA UtilsAreInts == MaybeUtil \subseteq Int /\ \A u \in Utils : u # None
  BY NvmlAssumption DEF MaybeUtil, None

\* IsPeak determines the peak.
LEMMA PeakUnique ==
  ASSUME NEW h \in Seq(Sample), NEW v \in MaybeUtil, IsPeak(v, h)
  PROVE  Peak(h) = v
<1> DEFINE U == {h[i].util : i \in DOMAIN h} \ {None}
<1>0. \A i \in DOMAIN h : h[i] \in Sample
  OBVIOUS
<1>1. \A i \in DOMAIN h : h[i].util \in MaybeUtil
  BY <1>0 DEF Sample
<1>2. U \subseteq Int
  BY <1>1, UtilsAreInts
<1>3. CASE v = None
  <2>1. U = {}
    BY <1>3 DEF IsPeak
  <2> QED
    BY <1>3, <2>1 DEF Peak
<1>4. CASE v # None
  <2>1. v \in U /\ \A x \in U : x <= v
    BY <1>4 DEF IsPeak
  <2>2. Max(U) = v
    BY <1>2, <2>1, MaxIsBound
  <2> QED
    BY <2>1, <2>2 DEF Peak
<1> QED
  BY <1>3, <1>4

\* IsLastJob determines the job.
LEMMA LastJobUnique ==
  ASSUME NEW h \in Seq(Sample), NEW j, IsLastJob(j, h)
  PROVE  LastJob(h) = j
<1> DEFINE S == {i \in DOMAIN h : h[i].job # None}
<1>1. S \subseteq Int
  OBVIOUS
<1>2. CASE j = NoJob /\ \A i \in DOMAIN h : h[i].job = None
  BY <1>2 DEF LastJob
<1>3. CASE \E i \in DOMAIN h : /\ h[i].job = j /\ j # None
                               /\ \A k \in DOMAIN h : k > i => h[k].job = None
  <2>1. PICK i \in DOMAIN h : /\ h[i].job = j /\ j # None
                              /\ \A k \in DOMAIN h : k > i => h[k].job = None
    BY <1>3
  <2>2. i \in S /\ \A k \in S : k <= i
    BY <2>1
  <2>3. Max(S) = i
    BY <1>1, <2>2, MaxIsBound
  <2> QED
    BY <2>1, <2>2, <2>3 DEF LastJob
<1> QED
  BY <1>2, <1>3 DEF IsLastJob

\* One more sample: what Accumulator.tell makes of the peak.
LEMMA TellPeak ==
  ASSUME NEW h \in Seq(Sample), NEW v \in MaybeUtil, IsPeak(v, h), NEW s \in Sample
  PROVE  /\ max_op(v, s.util) \in MaybeUtil
         /\ IsPeak(max_op(v, s.util), Append(h, s))
         /\ h = <<>> => IsPeak(s.util, Append(h, s))
<1> DEFINE g == Append(h, s)
<1>1. /\ DOMAIN g = DOMAIN h \cup {Len(h) + 1} /\ Len(h) + 1 \in DOMAIN g
      /\ g[Len(h) + 1] = s
      /\ \A i \in DOMAIN h : g[i] = h[i] /\ i \in DOMAIN g
  OBVIOUS
<1>2. s.util \in MaybeUtil /\ s.util \in Int /\ v \in Int
  BY UtilsAreInts DEF Sample
<1>3. \A i \in DOMAIN h : h[i].util \in Int
  <2>1. \A i \in DOMAIN h : h[i] \in Sample
    OBVIOUS
  <2> QED
    BY <2>1, UtilsAreInts DEF Sample
<1>4. CASE v = None
  <2>1. max_op(v, s.util) = s.util
    BY <1>4 DEF max_op
  <2>2. \A i \in DOMAIN h : h[i].util = None
    BY <1>4 DEF IsPeak
  <2>3. IsPeak(s.util, g)
    BY <1>1, <1>2, <2>2 DEF IsPeak
  <2> QED
    BY <1>2, <2>1, <2>3
<1>5. CASE v # None
  <2>1. PICK i \in DOMAIN h : h[i].util = v
    BY <1>5 DEF IsPeak
  <2>2. h # <<>>
    BY <2>1
  <2>3. \A k \in DOMAIN h : h[k].util # None => h[k].util <= v
    BY <1>5 DEF IsPeak
  <2>4. CASE s.util = None
    <3>1. max_op(v, s.util) = v
      BY <1>5, <2>4 DEF max_op
    <3>2. IsPeak(v, g)
      BY <1>1, <1>5, <2>1, <2>3, <2>4 DEF IsPeak
    <3> QED
      BY <2>2, <3>1, <3>2
  <2>5. CASE s.util # None /\ v < s.util
    <3>1. max_op(v, s.util) = s.util
      BY <1>5, <2>5 DEF max_op
    <3>2. \A k \in DOMAIN g : g[k].util # None => g[k].util <= s.util
      BY <1>1, <1>2, <1>3, <2>3, <2>5
    <3>3. IsPeak(s.util, g)
      BY <1>1, <2>5, <3>2 DEF IsPeak
    <3> QED
      BY <1>2, <2>2, <3>1, <3>3
  <2>6. CASE s.util # None /\ ~(v < s.util)
    <3>1. max_op(v, s.util) = v
      BY <1>5, <2>6 DEF max_op
    <3>2. \A k \in DOMAIN g : g[k].util # None => g[k].util <= v
      BY <1>1, <1>2, <1>3, <2>3, <2>6
    <3>3. IsPeak(v, g)
      BY <1>1, <1>5, <2>1, <3>2 DEF IsPeak
    <3> QED
      BY <2>2, <3>1, <3>3
  <2> QED
    BY <2>4, <2>5, <2>6
<1> QED
  BY <1>4, <1>5

\* One more sample: the job that is remembered.
LEMMA RememberLastJob ==
  ASSUME NEW h \in Seq(Sample), NEW j, IsLastJob(j, h), NEW s \in Sample
  PROVE  IsLastJob(IF s.job = None THEN j ELSE s.job, Append(h, s))
<1> DEFINE g == Append(h, s)
<1>1. /\ DOMAIN g = DOMAIN h \cup {Len(h) + 1} /\ Len(h) + 1 \in DOMAIN g
      /\ g[Len(h) + 1] = s
      /\ \A i \in DOMAIN h : g[i] = h[i] /\ i \in DOMAIN g /\ i < Len(h) + 1
  OBVIOUS
<1>2. CASE s.job # None
  <2>1. \A k \in DOMAIN g : ~(k > Len(h) + 1)
    BY <1>1
  <2> QED
    BY <1>1, <1>2, <2>1 DEF IsLastJob
<1>3. CASE s.job = None /\ j = NoJob /\ \A i \in DOMAIN h : h[i].job = None
  BY <1>1, <1>3 DEF IsLastJob
<1>4. CASE s.job = None /\ \E i \in DOMAIN h : /\ h[i].job = j /\ j # None
                               /\ \A k \in DOMAIN h : k > i => h[k].job = None
  <2>1. PICK i \in DOMAIN h : /\ h[i].job = j /\ j # None
                              /\ \A k \in DOMAIN h : k > i => h[k].job = None
    BY <1>4
  <2>2. i \in DOMAIN g /\ g[i].job = j /\ \A k \in DOMAIN g : k > i => g[k].job = None
    BY <1>1, <1>4, <2>1
  <2> QED
    BY <1>4, <2>1, <2>2 DEF IsLastJob
<1> QED
  BY <1>2, <1>3, <1>4 DEF IsLastJob

---------------------------------------------------------------------------
(* The inductive invariant *)

\* What is accumulated of a device is what its samples amount to.
DeviceInv ==
  \A d \in Device :
    /\ acc[d].told <=> history[d] # <<>>
    /\ IsPeak(acc[d].value, history[d])
    /\ IsLastJob(job[d], history[d])

\* The log records of a cycle are written once it has been sampled.
LogsInv ==
  /\ Len(logs) <= NumDevices
  /\ phase \in {"sample", "sleep"} => logs = <<>>
  /\ phase = "publish" => Len(logs) = dev - 1
  /\ phase = "sleep" => dev = 1
  /\ \A d \in DOMAIN logs : /\ acc[d].told
                            /\ logs[d] = [util |-> acc[d].value, job |-> job[d]]

\* How much time has passed where.
PaceInv ==
  /\ phase \in {"sample", "sleep"} => elapsed < PushInterval
  /\ phase \in {"publish", "metrics", "rest"} =>
       elapsed <= PushInterval - 1 + MaxLag + CollectInterval
  /\ elapsed <= MaxElapsed
  /\ phase = "ended" => elapsed >= Interval

NvmlInv == NvmlTypeOK /\ DeviceInv /\ LogsInv /\ PaceInv

\* MaxElapsed is at least both of the times a cycle can take.
LEMMA MaxElapsedBounds ==
  /\ MaxElapsed \in Nat
  /\ MaxElapsed >= Interval
  /\ MaxElapsed >= PushInterval - 1 + MaxLag + CollectInterval + MaxLag
  BY NvmlAssumption DEF MaxElapsed

\* A cycle starts with nothing seen.
LEMMA NothingSeen ==
  ASSUME acc = [d \in Device |-> Untold], job = [d \in Device |-> NoJob],
         history = [d \in Device |-> <<>>], logs = <<>>
  PROVE  /\ acc \in [Device -> [told: BOOLEAN, value: MaybeUtil]]
         /\ job \in [Device -> Jobs \cup {NoJob}]
         /\ logs \in Seq(Record)
         /\ history \in [Device -> Seq(Sample)]
         /\ DeviceInv
         /\ Len(logs) = 0 /\ DOMAIN logs = {}
<1>1. None \in MaybeUtil
  BY DEF MaybeUtil
<1>2. DeviceInv
  BY DEF DeviceInv, Untold, IsPeak, IsLastJob
<1> QED
  BY <1>1, <1>2 DEF Untold

\* The invariant holds when the monitor starts.
LEMMA NvmlInitInv == Init => NvmlInv
<1> SUFFICES ASSUME Init PROVE NvmlInv
  OBVIOUS
<1>1. /\ 1 \in Device /\ 0 <= MaxElapsed /\ 0 <= NumDevices
  BY NvmlAssumption, MaxElapsedBounds DEF Device
<1>2. /\ acc \in [Device -> [told: BOOLEAN, value: MaybeUtil]]
      /\ job \in [Device -> Jobs \cup {NoJob}]
      /\ logs \in Seq(Record)
      /\ history \in [Device -> Seq(Sample)]
      /\ DeviceInv
      /\ Len(logs) = 0 /\ DOMAIN logs = {}
  BY NothingSeen DEF Init
<1>3. NvmlTypeOK
  BY <1>1, <1>2 DEF Init, NvmlTypeOK, Phases, Record, Sample
<1>4. LogsInv /\ PaceInv
  BY <1>1, <1>2 DEF Init, LogsInv, PaceInv
<1> QED
  BY <1>2, <1>3, <1>4 DEF NvmlInv

\* Nothing is seen at the head of the loop either.
LEMMA StartCycleInv == NvmlInv /\ StartCycle => NvmlInv'
<1> SUFFICES ASSUME NvmlInv, StartCycle PROVE NvmlInv'
  OBVIOUS
<1>1. 1 \in Device /\ 0 <= MaxElapsed /\ 0 <= NumDevices /\ 0 < PushInterval
  BY NvmlAssumption, MaxElapsedBounds DEF Device
<1>2. /\ acc' = [d \in Device |-> Untold] /\ job' = [d \in Device |-> NoJob]
      /\ history' = [d \in Device |-> <<>>] /\ logs' = <<>>
  BY DEF StartCycle
<1>3. None \in MaybeUtil
  BY DEF MaybeUtil
<1>4. DeviceInv'
  BY <1>2 DEF DeviceInv, Untold, IsPeak, IsLastJob
<1>5. NvmlTypeOK'
  BY <1>1, <1>2, <1>3 DEF NvmlInv, NvmlTypeOK, StartCycle, Phases, Untold
<1>6. LogsInv' /\ PaceInv'
  BY <1>1, <1>2 DEF StartCycle, LogsInv, PaceInv
<1> QED
  BY <1>4, <1>5, <1>6 DEF NvmlInv

\* A sample adds to the device whose turn it is, and to no other.
LEMMA SampleDeviceInv ==
  ASSUME NvmlInv, NEW u \in MaybeUtil, NEW j \in Jobs \cup {NoJob, None}, SampleDevice(u, j)
  PROVE  NvmlInv'
<1> DEFINE s == [util |-> u, job |-> j]
           h == history[dev]
<1>0. NvmlTypeOK /\ DeviceInv /\ LogsInv /\ PaceInv /\ phase = "sample" /\ logs = <<>>
  BY DEF NvmlInv, LogsInv, SampleDevice
<1>1. dev \in Device /\ h \in Seq(Sample) /\ s \in Sample /\ acc[dev].value \in MaybeUtil
  BY <1>0 DEF NvmlTypeOK, Sample
<1>2. /\ history' = [history EXCEPT ![dev] = Append(h, s)]
      /\ acc' = [acc EXCEPT ![dev] = tell(acc[dev], u)]
      /\ job' = [job EXCEPT ![dev] = IF j = None THEN job[dev] ELSE j]
  BY <1>0 DEF SampleDevice, NvmlTypeOK
<1>3. Append(h, s) \in Seq(Sample) /\ Append(h, s) # <<>>
  BY <1>1
<1>4. /\ max_op(acc[dev].value, u) \in MaybeUtil
      /\ IsPeak(max_op(acc[dev].value, u), Append(h, s))
      /\ h = <<>> => IsPeak(u, Append(h, s))
  BY <1>0, <1>1, TellPeak DEF DeviceInv
<1>5. IsLastJob(IF j = None THEN job[dev] ELSE j, Append(h, s))
  BY <1>0, <1>1, RememberLastJob DEF DeviceInv
<1>6. /\ tell(acc[dev], u).told /\ IsPeak(tell(acc[dev], u).value, Append(h, s))
      /\ tell(acc[dev], u) \in [told: BOOLEAN, value: MaybeUtil]
  BY <1>0, <1>1, <1>4 DEF tell, DeviceInv
<1>7. dev' \in Device /\ phase' \in {"sample", "sleep"} /\ (phase' = "sleep" => dev' = 1)
  BY <1>0, <1>1, NvmlAssumption DEF SampleDevice, NextDevice, Device
<1>8. NvmlTypeOK'
  <2>1. acc' \in [Device -> [told: BOOLEAN, value: MaybeUtil]]
    BY <1>0, <1>1, <1>2, <1>6 DEF NvmlTypeOK
  <2>2. job' \in [Device -> Jobs \cup {NoJob}]
    BY <1>0, <1>1, <1>2 DEF NvmlTypeOK
  <2>3. history' \in [Device -> Seq(Sample)]
    BY <1>0, <1>1, <1>2, <1>3 DEF NvmlTypeOK, Sample
  <2> QED
    BY <1>0, <1>7, <2>1, <2>2, <2>3 DEF NvmlTypeOK, SampleDevice, Phases, Sample
<1>9. DeviceInv'
  <2> SUFFICES ASSUME NEW d \in Device
               PROVE  /\ acc'[d].told <=> history'[d] # <<>>
                      /\ IsPeak(acc'[d].value, history'[d])
                      /\ IsLastJob(job'[d], history'[d])
    BY DEF DeviceInv
  <2>1. CASE d = dev
    <3>1. /\ acc'[d] = tell(acc[dev], u) /\ history'[d] = Append(h, s)
          /\ job'[d] = IF j = None THEN job[dev] ELSE j
      BY <1>0, <1>1, <1>2, <2>1 DEF NvmlTypeOK
    <3> QED
      BY <1>3, <1>5, <1>6, <3>1
  <2>2. CASE d # dev
    <3>1. acc'[d] = acc[d] /\ history'[d] = history[d] /\ job'[d] = job[d]
      BY <1>0, <1>1, <1>2, <2>2 DEF NvmlTypeOK
    <3> QED
      BY <1>0, <3>1 DEF DeviceInv
  <2> QED
    BY <2>1, <2>2
<1>10. LogsInv' /\ PaceInv'
  BY <1>0, <1>7, NvmlAssumption DEF LogsInv, PaceInv, SampleDevice, NvmlTypeOK
<1> QED
  BY <1>8, <1>9, <1>10 DEF NvmlInv

\* The steps that leave what was collected and published alone.
LEMMA DataUnchangedInv ==
  ASSUME NvmlInv, UNCHANGED <<once, data>>, dev' \in Device, phase' \in Phases,
         elapsed' \in Nat, PaceInv',
         phase' \in {"sample", "sleep"} => logs = <<>>,
         phase' = "publish" => Len(logs) = dev' - 1,
         phase' = "sleep" => dev' = 1
  PROVE  NvmlInv'
<1>1. NvmlTypeOK'
  BY DEF NvmlInv, NvmlTypeOK, data
<1>2. DeviceInv' /\ LogsInv'
  BY DEF NvmlInv, DeviceInv, LogsInv, data
<1> QED
  BY <1>1, <1>2 DEF NvmlInv

\* A record is written for a device that was seen, in the order of the devices.
LEMMA WriteDeviceInv == NvmlInv /\ WriteDevice => NvmlInv'
<1> SUFFICES ASSUME NvmlInv, WriteDevice PROVE NvmlInv'
  OBVIOUS
<1> DEFINE r == [util |-> acc[dev].value, job |-> job[dev]]
<1>0. /\ NvmlTypeOK /\ DeviceInv /\ LogsInv /\ PaceInv
      /\ phase = "publish" /\ acc[dev].told /\ Len(logs) = dev - 1
  BY DEF NvmlInv, LogsInv, WriteDevice
<1>1. dev \in Device /\ dev \in 1..NumDevices /\ r \in Record /\ logs \in Seq(Record)
  BY <1>0 DEF NvmlTypeOK, Record, Device
<1>2. logs' = Append(logs, r) /\ UNCHANGED <<once, elapsed, acc, job, history>>
  BY DEF WriteDevice
<1>3. /\ dev' \in Device
      /\ \/ phase' = "publish" /\ dev' = dev + 1
         \/ phase' = "metrics"
  BY <1>0, <1>1, NvmlAssumption DEF WriteDevice, Device
<1>4. NvmlTypeOK'
  <2>1. logs' \in Seq(Record)
    BY <1>1, <1>2
  <2>2. phase' \in Phases
    BY <1>3 DEF Phases
  <2> QED
    BY <1>0, <1>2, <1>3, <2>1, <2>2 DEF NvmlTypeOK, Record
<1>5. DeviceInv'
  BY <1>0, <1>2 DEF DeviceInv
<1>6. /\ Len(logs') = dev /\ logs'[dev] = r
      /\ DOMAIN logs' = DOMAIN logs \cup {dev}
      /\ \A d \in DOMAIN logs : logs'[d] = logs[d]
  BY <1>0, <1>1, <1>2
<1>7. LogsInv'
  BY <1>0, <1>1, <1>2, <1>3, <1>6, NvmlAssumption DEF LogsInv
<1>8. PaceInv'
  BY <1>0, <1>2, <1>3 DEF PaceInv
<1> QED
  BY <1>4, <1>5, <1>7, <1>8 DEF NvmlInv

\* The invariant is inductive.
LEMMA NvmlNextInv == NvmlInv /\ [Next]_vars => NvmlInv'
<1> SUFFICES ASSUME NvmlInv, [Next]_vars PROVE NvmlInv'
  OBVIOUS
<1>0. /\ NvmlTypeOK /\ LogsInv /\ PaceInv
      /\ dev \in Device /\ 1 \in Device /\ elapsed \in Nat
  <2>1. NvmlTypeOK /\ LogsInv /\ PaceInv
    BY DEF NvmlInv
  <2>2. dev \in Device /\ elapsed \in Nat
    BY <2>1 DEF NvmlTypeOK
  <2>3. 1 \in Device
    BY NvmlAssumption DEF Device
  <2> QED
    BY <2>1, <2>2, <2>3
<1>1. CASE StartCycle
  BY <1>1, StartCycleInv
<1>2. ASSUME NEW u \in MaybeUtil, NEW j \in Jobs \cup {NoJob, None}, SampleDevice(u, j)
      PROVE  NvmlInv'
  BY <1>2, SampleDeviceInv
<1>3. CASE NoHandle
  <2>1. /\ dev' \in Device /\ phase' \in {"sample", "sleep"} /\ logs = <<>>
        /\ phase' = "sleep" => dev' = 1
    BY <1>0, <1>3, NvmlAssumption DEF NoHandle, NextDevice, Device, LogsInv
  <2>2. PaceInv'
    BY <1>0, <1>3, <2>1 DEF NoHandle, PaceInv
  <2> QED
    BY <1>0, <1>3, <2>1, <2>2, DataUnchangedInv DEF NoHandle, Phases
<1>4. CASE SampleRaises \/ WriteDeviceRaises \/ WriteMetricsRaises
  <2>1. phase' = "crashed" /\ UNCHANGED <<once, elapsed, dev, data>>
    BY <1>4 DEF SampleRaises, WriteDeviceRaises, WriteMetricsRaises
  <2>2. PaceInv'
    BY <1>0, <2>1 DEF PaceInv
  <2> QED
    BY <1>0, <2>1, <2>2, DataUnchangedInv DEF Phases
<1>5. CASE CollectSleep
  <2>1. PICK l \in 0..MaxLag : elapsed' = elapsed + l + CollectInterval
    BY <1>5 DEF CollectSleep
  <2>2. elapsed < PushInterval /\ logs = <<>>
    BY <1>0, <1>5 DEF CollectSleep, PaceInv, LogsInv
  <2>3. /\ elapsed' \in Nat
        /\ elapsed' <= PushInterval - 1 + MaxLag + CollectInterval
        /\ elapsed' <= MaxElapsed
    BY <1>0, <2>1, <2>2, NvmlAssumption, MaxElapsedBounds
  <2>4. \/ phase' = "sample" /\ elapsed' < PushInterval
        \/ phase' = "publish"
    BY <1>5 DEF CollectSleep
  <2>5. PaceInv'
    BY <2>3, <2>4 DEF PaceInv
  <2>6. dev = 1
    BY <1>0, <1>5 DEF CollectSleep, NvmlInv, LogsInv
  <2> QED
    BY <1>0, <1>5, <2>2, <2>3, <2>4, <2>5, <2>6, DataUnchangedInv DEF CollectSleep, Phases
<1>6. CASE WriteDevice
  BY <1>6, WriteDeviceInv
<1>7. CASE WriteMetrics
  <2>1. phase' = "rest" /\ UNCHANGED <<once, elapsed, dev, acc, job, logs, history>>
    BY <1>7 DEF WriteMetrics
  <2>2. NvmlTypeOK' /\ DeviceInv' /\ LogsInv'
    BY <1>0, <2>1 DEF NvmlInv, NvmlTypeOK, DeviceInv, LogsInv, Phases
  <2>3. PaceInv'
    BY <1>0, <1>7, <2>1 DEF WriteMetrics, PaceInv
  <2> QED
    BY <2>2, <2>3 DEF NvmlInv
<1>8. CASE Rest
  <2>1. PICK l \in 0..MaxLag :
          elapsed' = IF elapsed + l < Interval THEN Interval ELSE elapsed + l
    BY <1>8 DEF Rest
  <2>2. elapsed <= PushInterval - 1 + MaxLag + CollectInterval
    BY <1>0, <1>8 DEF Rest, PaceInv
  <2>3. elapsed' \in Nat /\ elapsed' <= MaxElapsed /\ elapsed' >= Interval
    BY <1>0, <2>1, <2>2, NvmlAssumption, MaxElapsedBounds
  <2>4. phase' \in {"start", "ended"} /\ UNCHANGED <<once, dev, data>>
    BY <1>8 DEF Rest
  <2>5. PaceInv'
    BY <2>3, <2>4 DEF PaceInv
  <2> QED
    BY <1>0, <2>3, <2>4, <2>5, DataUnchangedInv DEF Phases
<1>9. CASE UNCHANGED vars
  <2>1. UNCHANGED <<once, phase, elapsed, dev, acc, job, logs, batch, history>>
    BY <1>9 DEF vars, data
  <2> QED
    BY <2>1 DEF NvmlInv, NvmlTypeOK, DeviceInv, LogsInv, PaceInv
<1> QED
  BY <1>1, <1>2, <1>3, <1>4, <1>5, <1>6, <1>7, <1>8, <1>9 DEF Next

\* Every state of the monitor satisfies the inductive invariant.
THEOREM NvmlInvariant == Spec => []NvmlInv
  BY NvmlInitInv, NvmlNextInv, PTL DEF Spec

---------------------------------------------------------------------------

\* Every state of nvml_monitor has its type.
THEOREM NvmlTypeCorrect == Spec => []NvmlTypeOK
<1>1. NvmlInv => NvmlTypeOK
  BY DEF NvmlInv
<1> QED
  BY <1>1, NvmlInvariant, PTL

\* A log record is the peak and the last job of the samples of its own interval,
\* however many devices and samples there are and however many of them fail.
THEOREM RecordsAreOfInterval == Spec => []RecordsOfInterval
<1>1. NvmlInv => RecordsOfInterval
  <2> SUFFICES ASSUME NvmlInv, NEW d \in DOMAIN logs
               PROVE  /\ history[d] # <<>>
                      /\ logs[d] = [util |-> Peak(history[d]), job |-> LastJob(history[d])]
    BY DEF RecordsOfInterval
  <2>1. d \in Device
    BY NvmlAssumption DEF NvmlInv, NvmlTypeOK, LogsInv, Device
  <2>2. /\ history[d] \in Seq(Sample) /\ acc[d].value \in MaybeUtil
        /\ acc[d].told /\ logs[d] = [util |-> acc[d].value, job |-> job[d]]
    BY <2>1 DEF NvmlInv, NvmlTypeOK, LogsInv, Sample
  <2>3. /\ history[d] # <<>> /\ IsPeak(acc[d].value, history[d])
        /\ IsLastJob(job[d], history[d])
    BY <2>1, <2>2 DEF NvmlInv, DeviceInv
  <2>4. Peak(history[d]) = acc[d].value /\ LastJob(history[d]) = job[d]
    BY <2>2, <2>3, PeakUnique, LastJobUnique
  <2> QED
    BY <2>2, <2>3, <2>4
<1> QED
  BY <1>1, NvmlInvariant, PTL

\* A cycle takes the interval, or as long as sampling and publishing take, for
\* every choice of the three intervals.
THEOREM PaceIsKept == Spec => []CyclesKeepPace
<1>1. NvmlInv => CyclesKeepPace
  BY DEF NvmlInv, PaceInv, CyclesKeepPace
<1> QED
  BY <1>1, NvmlInvariant, PTL

---------------------------------------------------------------------------
(* The metrics of the host *)

\* The metrics are computed from what the log records of all devices say.
BatchInv ==
  /\ phase \in {"metrics", "rest"} => Len(logs) = NumDevices
  /\ phase = "rest" => batch = compute_host_level_metrics(acc)

\* The invariant about the batch of metrics holds always.
LEMMA BatchInvariant == Spec => []BatchInv
<1>1. Init => BatchInv
  BY DEF Init, BatchInv
<1>2. NvmlInv /\ BatchInv /\ [Next]_vars => BatchInv'
  <2> SUFFICES ASSUME NvmlInv, BatchInv, [Next]_vars PROVE BatchInv'
    OBVIOUS
  <2>1. CASE WriteDevice
    <3>1. /\ phase = "publish" /\ phase' # "rest" /\ dev \in 1..NumDevices
          /\ Len(logs) = dev - 1
          /\ phase' = "metrics" => ~(dev < NumDevices)
      BY <2>1 DEF WriteDevice, NvmlInv, NvmlTypeOK, LogsInv, Device
    <3>2. Len(logs') = Len(logs) + 1
      BY <2>1 DEF WriteDevice, NvmlInv, NvmlTypeOK
    <3> QED
      BY <3>1, <3>2, NvmlAssumption DEF BatchInv
  <2>2. CASE WriteMetrics
    BY <2>2 DEF WriteMetrics, BatchInv
  <2>3. CASE UNCHANGED vars
    BY <2>3 DEF vars, data, BatchInv
  <2>4. CASE \/ StartCycle \/ NoHandle \/ SampleRaises \/ CollectSleep \/ WriteDeviceRaises
             \/ WriteMetricsRaises \/ Rest
             \/ \E u \in MaybeUtil, j \in Jobs \cup {NoJob, None} : SampleDevice(u, j)
    <3>1. phase' \notin {"metrics", "rest"}
      BY <2>4 DEF StartCycle, NoHandle, SampleRaises, CollectSleep, WriteDeviceRaises,
                  WriteMetricsRaises, Rest, SampleDevice, NextDevice
    <3> QED
      BY <3>1 DEF BatchInv
  <2> QED
    BY <2>1, <2>2, <2>3, <2>4 DEF Next
<1> QED
  BY <1>1, <1>2, NvmlInvariant, PTL DEF Spec

\* Finitely many numbers have a bound.
LEMMA ValuesBounded ==
  ASSUME NEW v \in [Device -> Int]
  PROVE  \E b \in Nat : \A d \in Device : v[d] <= b
<1> DEFINE P(k) == \E b \in Nat : \A d \in Device : d <= k => v[d] <= b
           T == {k \in Nat : ~ P(k)}
<1>0. \A d \in Device : d \in Nat /\ 1 <= d /\ d <= NumDevices /\ v[d] \in Int
  BY NvmlAssumption DEF Device
<1>1. P(0)
  <2>1. \A d \in Device : ~(d <= 0)
    BY <1>0
  <2>2. 0 \in Nat
    OBVIOUS
  <2> QED
    BY <2>1, <2>2
<1>2. ASSUME NEW k \in Nat, P(k) PROVE P(k + 1)
  <2>1. PICK b \in Nat : \A d \in Device : d <= k => v[d] <= b
    BY <1>2
  <2>2. CASE k + 1 \notin Device
    <3>1. \A d \in Device : d <= k + 1 => d <= k
      BY <1>0, <2>2
    <3> QED
      BY <2>1, <3>1
  <2>3. CASE k + 1 \in Device
    <3> DEFINE c == IF v[k + 1] <= b THEN b ELSE v[k + 1]
    <3>1. c \in Nat /\ b <= c /\ v[k + 1] <= c
      BY <1>0, <2>1, <2>3
    <3> HIDE DEF c
    <3>2. ASSUME NEW d \in Device, d <= k + 1 PROVE v[d] <= c
      <4>1. d = k + 1 \/ d <= k
        BY <1>0, <3>2
      <4> QED
        BY <1>0, <2>1, <3>1, <4>1
    <3> QED
      BY <3>1, <3>2
  <2> QED
    BY <2>2, <2>3
<1> HIDE DEF P
<1>3. T = {}
  <2> SUFFICES ASSUME T # {} PROVE FALSE
    OBVIOUS
  <2>1. PICK k \in T : \A y \in T : k <= y
    BY LeastNumber
  <2>2. k \in Nat /\ ~ P(k) /\ k # 0
    BY <1>1, <2>1
  <2>3. k - 1 \in Nat /\ k - 1 \notin T /\ (k - 1) + 1 = k
    BY <2>1, <2>2
  <2>4. P(k - 1)
    BY <2>3
  <2> QED
    BY <1>2, <2>2, <2>3, <2>4
<1>4. P(NumDevices)
  BY <1>3, NvmlAssumption
<1> QED
  BY <1>0, <1>4 DEF P

\* The metrics of a host agree with each other and with what they are made of.
LEMMA MetricsAgree ==
  ASSUME NEW a \in [Device -> [told: BOOLEAN, value: MaybeUtil]]
  PROVE  LET b == compute_host_level_metrics(a)
             S == {a[d].value : d \in Busy(a)} IN
         /\ \A d \in Device : b.devices[d] = a[d].value /\ a[d].value <= b.max
         /\ \A u \in S : b.min <= u
         /\ IF S = {} THEN b.min = 0 /\ b.max = 0 ELSE b.min \in S /\ b.max \in S
         /\ b.max \in Nat /\ b.count = Cardinality(Busy(a))
         /\ b.sum = Total([d \in Device |-> IF d \in Busy(a) THEN a[d].value ELSE 0])
         /\ b.min * b.count <= b.sum /\ b.sum <= b.max * b.count
         /\ \A d \in Device : a[d].value \in Int /\ (d \in Busy(a) <=> a[d].value > 0)
<1> DEFINE b == compute_host_level_metrics(a)
           S == {a[d].value : d \in Busy(a)}
           hi == IF S = {} THEN 0 ELSE Max(S)
           lo == IF S = {} THEN 0 ELSE Min(S)
           v == [d \in Device |-> IF d \in Busy(a) THEN a[d].value ELSE 0]
<1>1. /\ b.devices = [d \in Device |-> a[d].value] /\ b.max = hi /\ b.min = lo
      /\ b.sum = Total(v) /\ b.count = Cardinality(Busy(a))
  BY DEF compute_host_level_metrics
<1>2. \A d \in Device : /\ a[d].value \in Int
                        /\ d \in Busy(a) => a[d].value \in Nat
                        /\ d \notin Busy(a) => a[d].value \in {-2, 0}
                        /\ d \in Busy(a) <=> a[d].value > 0
  <2> TAKE d \in Device
  <2>1. a[d].value \in Utils \cup {-2} /\ Utils \subseteq Nat
    BY NvmlAssumption DEF MaybeUtil, None
  <2>2. d \in Busy(a) <=> a[d].value \notin {-2, 0}
    BY DEF Busy, None
  <2> DEFINE u == a[d].value
  <2>3. u \in Utils \cup {-2} /\ Utils \subseteq Nat /\ (d \in Busy(a) <=> u \notin {-2, 0})
    BY <2>1, <2>2
  <2> HIDE DEF u
  <2>4. u \in Int /\ (u \notin {-2, 0} => u \in Nat) /\ (u \notin {-2, 0} <=> u > 0)
    BY <2>3
  <2>5. /\ u \in Int
        /\ d \in Busy(a) => u \in Nat
        /\ d \notin Busy(a) => u \in {-2, 0}
        /\ d \in Busy(a) <=> u > 0
    BY <2>3, <2>4
  <2> QED
    BY <2>5 DEF u
<1>3. Busy(a) \subseteq Device
  BY DEF Busy
<1>4. v \in [Device -> Int] /\ \A d \in Busy(a) : v[d] = a[d].value
  BY <1>2, <1>3
<1>5. /\ lo \in Nat /\ hi \in Nat
      /\ \A d \in Busy(a) : lo <= a[d].value /\ a[d].value <= hi
      /\ IF S = {} THEN lo = 0 /\ hi = 0 ELSE lo \in S /\ hi \in S
  <2>1. CASE S = {}
    <3>1. Busy(a) = {}
      BY <2>1
    <3> QED
      BY <2>1, <3>1
  <2>2. CASE S # {}
    <3>1. PICK c \in Nat : \A d \in Device : v[d] <= c
      BY <1>4, ValuesBounded
    <3>2. S \subseteq Nat /\ S \subseteq 0..c
      BY <1>2, <1>3, <1>4, <3>1
    <3> HIDE DEF S
    <3>3. Max(S) \in S /\ \A y \in S : y <= Max(S)
      BY <2>2, <3>2, GreatestNumber
    <3>4. PICK x \in S : \A y \in S : x <= y
      BY <2>2, <3>2, LeastNumber
    <3>5. Min(S) \in S /\ \A y \in S : Min(S) <= y
      BY <3>4, Zenon DEF Min
    <3>6. \A d \in Busy(a) : a[d].value \in S
      BY DEF S
    <3> QED
      BY <2>2, <3>2, <3>3, <3>5, <3>6
  <2> QED
    BY <2>1, <2>2
<1>6. \A u \in S : lo <= u
  BY <1>5
<1> HIDE DEF b, hi, lo
<1>7. lo * Cardinality(Busy(a)) <= Total(v) /\ Total(v) <= hi * Cardinality(Busy(a))
  <2>1. v \in [1..NumDevices -> Int] /\ Busy(a) \subseteq 1..NumDevices
    BY <1>3, <1>4 DEF Device
  <2>2. \A d \in 1..NumDevices : IF d \in Busy(a) THEN lo <= v[d] /\ v[d] <= hi ELSE v[d] = 0
    BY <1>4, <1>5 DEF Device
  <2> HIDE DEF v
  <2> QED
    BY <1>5, <2>1, <2>2, TotalBounds
<1>8. \A d \in Device : a[d].value <= hi
  BY <1>2, <1>5
<1> HIDE DEF S, v
<1>9. /\ \A d \in Device : b.devices[d] = a[d].value /\ a[d].value <= b.max
      /\ \A u \in S : b.min <= u
      /\ IF S = {} THEN b.min = 0 /\ b.max = 0 ELSE b.min \in S /\ b.max \in S
      /\ b.max \in Nat /\ b.count = Cardinality(Busy(a)) /\ b.sum = Total(v)
      /\ b.min * b.count <= b.sum /\ b.sum <= b.max * b.count
  BY <1>1, <1>5, <1>6, <1>7, <1>8
<1>10. \A d \in Device : a[d].value \in Int /\ (d \in Busy(a) <=> a[d].value > 0)
  BY <1>2
<1> QED
  BY <1>9, <1>10, Zenon DEF b, S, v

\* The batch of metrics comes after the log records of all devices and agrees
\* with them exactly, for any number of devices and samples and any utilizations:
\* the maximum is the greatest of all samples of the interval, minimum and average
\* are over the peaks of the devices that were not idle, and the average is
\* between the two (compute_host_level_metrics).
THEOREM BatchAlwaysAgrees == Spec => []BatchAgreesWithLogs
<1>1. NvmlInv /\ BatchInv => BatchAgreesWithLogs
  <2> SUFFICES ASSUME NvmlInv, BatchInv, phase = "rest" PROVE BatchAgreesWithLogs
    BY DEF BatchAgreesWithLogs
  <2> DEFINE S == {acc[d].value : d \in Busy(acc)}
             v == [d \in Device |-> IF d \in Busy(acc) THEN acc[d].value ELSE 0]
  <2>1. Len(logs) = NumDevices /\ batch = compute_host_level_metrics(acc)
    BY DEF BatchInv
  <2>2. acc \in [Device -> [told: BOOLEAN, value: MaybeUtil]]
    BY DEF NvmlInv, NvmlTypeOK
  <2>3. DOMAIN logs = Device
    BY <2>1, NvmlAssumption DEF NvmlInv, NvmlTypeOK, Device
  <2>4. \A d \in Device : logs[d].util = acc[d].value
    BY <2>3 DEF NvmlInv, LogsInv
  <2>5. /\ \A d \in Device : batch.devices[d] = acc[d].value /\ acc[d].value <= batch.max
        /\ \A u \in S : batch.min <= u
        /\ IF S = {} THEN batch.min = 0 /\ batch.max = 0 ELSE batch.min \in S /\ batch.max \in S
        /\ batch.max \in Nat /\ batch.count = Cardinality(Busy(acc)) /\ batch.sum = Total(v)
        /\ batch.min * batch.count <= batch.sum /\ batch.sum <= batch.max * batch.count
        /\ \A d \in Device : acc[d].value \in Int /\ (d \in Busy(acc) <=> acc[d].value > 0)
    BY <2>1, <2>2, MetricsAgree, Zenon
  <2>6. BusyInLogs = Busy(acc)
    <3>1. \A d \in Device : d \in BusyInLogs <=> d \in Busy(acc)
      BY <2>4, <2>5 DEF BusyInLogs
    <3> QED
      BY <3>1 DEF BusyInLogs, Busy
  <2>7. {logs[d].util : d \in BusyInLogs} = S
    BY <2>4, <2>6 DEF Busy
  <2>8. [d \in Device |-> IF d \in BusyInLogs THEN logs[d].util ELSE 0] = v
    BY <2>4, <2>6
  <2>9. ASSUME NEW d \in Device, NEW i \in DOMAIN history[d]
        PROVE  history[d][i].util <= batch.max
    <3> DEFINE u == history[d][i].util
               w == acc[d].value
    <3>1. history[d] \in Seq(Sample)
      BY DEF NvmlInv, NvmlTypeOK, Sample
    <3>2. u \in MaybeUtil
      <4>1. history[d][i] \in Sample
        BY <3>1
      <4> QED
        BY <4>1 DEF Sample
    <3>3. w \in MaybeUtil /\ w <= batch.max /\ w \in Int /\ batch.max \in Nat /\ u \in Int
      BY <2>2, <2>5, <3>2, UtilsAreInts
    <3>4. u = None \/ (u <= w)
      <4>1. IsPeak(acc[d].value, history[d])
        BY DEF NvmlInv, DeviceInv
      <4> QED
        BY <4>1 DEF IsPeak
    <3> HIDE DEF u, w
    <3>5. u <= batch.max
      BY <3>3, <3>4 DEF None
    <3> QED
      BY <3>5 DEF u
  <2> HIDE DEF S, v
  <2> QED
    BY <2>1, <2>4, <2>5, <2>6, <2>7, <2>8, <2>9 DEF BatchAgreesWithLogs
<1> QED
  BY <1>1, NvmlInvariant, BatchInvariant, PTL

---------------------------------------------------------------------------
(***************************************************************************)
(* Which jobs a map may name and which it must.  The operators take what     *)
(* became of the jobs (f), a map (m) and an age (n): how long ago the first   *)
(* of its entries may have been made.                                       *)
(***************************************************************************)
\* j has been running within the last n ticks.
Seen(f, j, n) ==
  j \in OnHost /\ f[j].st # "new" /\ (f[j].st = "ended" => f[j].t <= n)

\* j has been running for more than n ticks.
Old(f, j, n) == j \in OnHost /\ f[j].st = "running" /\ f[j].t > n

\* The owners in m are jobs that the source src had on these GPUs.
Recent(f, src, m, n) ==
  \A g \in Gpu : m[g] # NoOwner => Seen(f, m[g], n) /\ g \in Indices(src, m[g])

\* m gives g to j, or to a job that has the index g on another host.
Given(m, g, j) == m[g] = j \/ (m[g] # NoOwner /\ g \in OtherGpus[m[g]])

\* Every GPU of an old job that is not in t has an owner.
Complete(f, t, m, n) ==
  \A j \in Job \ t : Old(f, j, n) => \A g \in OwnGpus[j] : Given(m, g, j)

\* A GPU with an owner had no other job n ticks ago.
Unshared(f, m, n) ==
  \A g \in Gpu : m[g] # NoOwner =>
    \A k \in Job \ {m[g]} : Old(f, k, n) => g \notin Uses[k]

\* nvidia-smi pmon has listed the old jobs.
Listing(f, l, n) ==
  \A g \in Gpu : /\ l[g] \subseteq {j \in OnHost : g \in Uses[j]}
                 /\ \A k \in Job : Old(f, k, n) /\ g \in Uses[k] => k \in l[g]

---------------------------------------------------------------------------
(* The inductive invariant *)

AttrTypeOK ==
  /\ fate \in [OnHost -> [st: {"new", "running", "ended"}, t: 0..Horizon]]
  /\ source \in {"slurmctld", "slurmd", "nvml"}
  /\ cache \in [st: {"absent", "empty", "corrupt", "map"}, map: Maps, age: Nat]
  /\ pc \in [Pipeline -> {"idle", "stat", "read", "query", "write", "environ", "pids", "label"}]
  /\ lag \in [Pipeline -> 0..CallLag]
  /\ todo \in [Pipeline -> SUBSET (OnHost \cup Gpu)]
  /\ listed \in [Pipeline -> [Gpu -> SUBSET OnHost]]
  /\ map \in [Pipeline -> Maps]
  /\ err \in [Pipeline -> BOOLEAN]

\* No two jobs have a GPU at the same time.
Exclusive(f) ==
  \A j, k \in OnHost : f[j].st = "running" /\ f[k].st = "running" /\ j # k =>
                         OwnGpus[j] \cap OwnGpus[k] = {}

\* The cache c is there; the map in it, if it has one, was made at most n ticks ago.
Fresh(f, c, n) ==
  /\ c.st # "absent"
  /\ c.st = "map" => Recent(f, "slurmctld", c.map, n) /\ Complete(f, {}, c.map, n)

\* A call at a, for l ticks now, with its todo t, listing ls, map m and error e.
CallOK(f, src, c, a, l, t, ls, m, e) ==
  /\ a = "idle" => l = 0
  /\ a \in {"idle", "stat", "read"} => m = EmptyMap
  /\ a \in {"stat", "read", "query", "write"} => src = "slurmctld"
  /\ a = "environ" => src = "slurmd"
  /\ a = "read" => Fresh(f, c, CallLag + CacheDuration + l)
  /\ a \in {"query", "write", "environ", "pids"} => Recent(f, src, m, l)
  /\ a \in {"stat", "read", "query"} => Complete(f, t, m, l)
  /\ a = "write" => Complete(f, {}, m, l)
  /\ a = "pids" => src = "nvml" /\ Listing(f, ls, l) /\ Unshared(f, m, l)
  /\ a = "label" =>
       /\ Recent(f, src, m, CallLag + CacheDuration + l)
       /\ ~e /\ src = "slurmctld" =>
            Complete(f, {}, m, CallLag + CacheDuration + l)
       /\ src = "nvml" => Unshared(f, m, l)

CallsOK ==
  \A p \in Pipeline :
    CallOK(fate, source, cache, pc[p], lag[p], todo[p], listed[p], map[p], err[p])

AttrInv ==
  /\ AttrTypeOK
  /\ Exclusive(fate)
  /\ cache.st # "absent" /\ cache.age <= CacheDuration => Fresh(fate, cache, CallLag + cache.age)
  /\ CallsOK

---------------------------------------------------------------------------
(* Time passes *)

\* What holds at age n of the jobs f holds at age i of the jobs h.
Weaker(f, n, h, i) ==
  \A j \in Job : (Seen(f, j, n) => Seen(h, j, i)) /\ (Old(h, j, i) => Old(f, j, n))

Fates == [OnHost -> [st: {"new", "running", "ended"}, t: 0..Horizon]]

\* h is what becomes of the jobs f in d ticks.
Ages(f, h, d) == \A n \in Nat : Weaker(f, n, h, n + d)

\* A map of some age is a map of any greater age.
LEMMA OlderIsWeaker ==
  ASSUME NEW f \in Fates, NEW n \in Nat, NEW i \in Nat, n <= i
  PROVE  Weaker(f, n, f, i)
<1>1. \A j \in OnHost : f[j].t \in Int
  BY AttributionAssumption DEF Fates, Horizon, Bound
<1> QED
  BY <1>1 DEF Weaker, Seen, Old

\* What a map of age n is good for, it is good for at any weaker age.
LEMMA WeakerMap ==
  ASSUME NEW f, NEW n, NEW h, NEW i, Weaker(f, n, h, i), NEW m \in Maps, NEW t, NEW src
  PROVE  /\ Recent(f, src, m, n) => Recent(h, src, m, i)
         /\ Complete(f, t, m, n) => Complete(h, t, m, i)
         /\ Unshared(f, m, n) => Unshared(h, m, i)
<1>1. \A g \in Gpu : m[g] # NoOwner => m[g] \in Job
  BY DEF Maps
<1>2. Recent(f, src, m, n) => Recent(h, src, m, i)
  BY <1>1 DEF Recent, Weaker
<1>3. Complete(f, t, m, n) => Complete(h, t, m, i)
  BY DEF Complete, Weaker
<1>4. Unshared(f, m, n) => Unshared(h, m, i)
  BY DEF Unshared, Weaker
<1> QED
  BY <1>2, <1>3, <1>4

\* The same for the map in the cache.
LEMMA WeakerCache ==
  ASSUME NEW f, NEW n, NEW h, NEW i, Weaker(f, n, h, i), NEW c, NEW e, c.map \in Maps,
         e.st = c.st, e.map = c.map, Fresh(f, c, n)
  PROVE  Fresh(h, e, i)
BY WeakerMap DEF Fresh

\* A call goes on while the jobs grow older.
LEMMA AgedCall ==
  ASSUME NEW f, NEW h, NEW d \in Nat, Ages(f, h, d), NEW src, NEW c, NEW k, NEW a,
         NEW l \in Nat, NEW i \in Nat, NEW t, NEW s, NEW m \in Maps, NEW e,
         c.map \in Maps, k.st = c.st, k.map = c.map,
         CallOK(f, src, c, a, l, t, s, m, e),
         IF a = "idle" THEN i = 0 ELSE i = l + d
  PROVE  CallOK(h, src, k, a, i, t, s, m, e)
<1>1. CASE a = "idle"
  BY <1>1 DEF CallOK
<1>2. CASE a # "idle"
  <2>1. Weaker(f, l, h, i)
    BY <1>2 DEF Ages
  <2>2. Weaker(f, CallLag + CacheDuration + l, h, CallLag + CacheDuration + i)
    <3>1. CallLag + CacheDuration + l \in Nat
          /\ (CallLag + CacheDuration + l) + d = CallLag + CacheDuration + i
      BY <1>2, AttributionAssumption
    <3> QED
      BY <3>1 DEF Ages
  <2>3. /\ Recent(f, src, m, l) => Recent(h, src, m, i)
        /\ Complete(f, t, m, l) => Complete(h, t, m, i)
        /\ Complete(f, {}, m, l) => Complete(h, {}, m, i)
        /\ Unshared(f, m, l) => Unshared(h, m, i)
    BY <2>1, WeakerMap
  <2>4. /\ Recent(f, src, m, CallLag + CacheDuration + l) =>
             Recent(h, src, m, CallLag + CacheDuration + i)
        /\ Complete(f, {}, m, CallLag + CacheDuration + l) =>
             Complete(h, {}, m, CallLag + CacheDuration + i)
    BY <2>2, WeakerMap
  <2>5. Fresh(f, c, CallLag + CacheDuration + l) => Fresh(h, k, CallLag + CacheDuration + i)
    BY <2>2, WeakerCache
  <2>6. Listing(f, s, l) => Listing(h, s, i)
    BY <2>1 DEF Listing, Weaker
  <2> QED
    BY <1>2, <2>3, <2>4, <2>5, <2>6 DEF CallOK
<1> QED
  BY <1>1, <1>2

\* Ticks, and jobs that start and end.
LEMMA WorldAges ==
  ASSUME fate \in Fates
  PROVE  /\ Tick => fate' \in Fates /\ Ages(fate, fate', 1)
         /\ \A j \in OnHost : JobStarts(j) \/ JobEnds(j) => fate' \in Fates /\ Ages(fate, fate', 0)
<1>0. Horizon \in Nat /\ Bound \in Nat
  BY AttributionAssumption DEF Horizon, Bound
<1>1. ASSUME Tick PROVE fate' \in Fates /\ Ages(fate, fate', 1)
  <2>1. fate' = [j \in OnHost |-> IF fate[j].st = "new" THEN fate[j]
                                  ELSE [fate[j] EXCEPT !.t = Later(@, Horizon)]]
    BY <1>1 DEF Tick
  <2>2. \A j \in OnHost : /\ fate[j].t \in 0..Horizon /\ fate[j].st \in {"new", "running", "ended"}
                          /\ fate[j] \in [st: {"new", "running", "ended"}, t: 0..Horizon]
    BY DEF Fates
  <2>3. \A j \in OnHost : /\ fate'[j].st = fate[j].st
                          /\ fate'[j] \in [st: {"new", "running", "ended"}, t: 0..Horizon]
                          /\ fate[j].st # "new" => fate'[j].t = Later(fate[j].t, Horizon)
    BY <1>0, <2>1, <2>2 DEF Later
  <2>4. fate' \in Fates
    BY <2>1, <2>3 DEF Fates
  <2>5. \A n \in Nat : \A j \in OnHost : fate[j].st # "new" =>
          /\ fate[j].t <= n => fate'[j].t <= n + 1
          /\ fate'[j].t > n + 1 => fate[j].t > n
    BY <1>0, <2>2, <2>3 DEF Later
  <2>6. \A n \in Nat : Weaker(fate, n, fate', n + 1)
    BY <2>3, <2>5 DEF Weaker, Seen, Old
  <2> QED
    BY <2>4, <2>6 DEF Ages
<1>2. ASSUME NEW j \in OnHost, JobStarts(j) \/ JobEnds(j)
      PROVE  fate' \in Fates /\ Ages(fate, fate', 0)
  <2>1. /\ fate[j].st \in {"new", "running"}
        /\ \/ fate' = [fate EXCEPT ![j] = [st |-> "running", t |-> 0]] /\ fate[j].st = "new"
           \/ fate' = [fate EXCEPT ![j] = [st |-> "ended", t |-> 0]] /\ fate[j].st = "running"
    BY <1>2 DEF JobStarts, JobEnds
  <2>2. fate' \in Fates
    BY <1>0, <2>1 DEF Fates
  <2>3. /\ \A k \in OnHost \ {j} : fate'[k] = fate[k]
        /\ fate'[j].t = 0
        /\ \/ fate'[j].st = "running" /\ fate[j].st = "new"
           \/ fate'[j].st = "ended" /\ fate[j].st = "running"
    BY <2>1 DEF Fates
  <2>4. \A n \in Nat : Weaker(fate, n, fate', n)
    BY <2>3 DEF Weaker, Seen, Old
  <2>5. \A n \in Nat : n + 0 = n
    OBVIOUS
  <2> QED
    BY <2>2, <2>4, <2>5 DEF Ages
<1> QED
  BY <1>1, <1>2

---------------------------------------------------------------------------
(* The steps of a call *)

\* A call is made of its own parts and the cache: a step of one of them keeps
\* the invariant of the others, if what it leaves in the cache is fresh.
LEMMA OneCall ==
  ASSUME AttrInv, NEW p \in Pipeline, UNCHANGED world, AttrTypeOK',
         \A q \in Pipeline \ {p} :
           /\ pc'[q] = pc[q] /\ lag'[q] = lag[q] /\ todo'[q] = todo[q]
           /\ listed'[q] = listed[q] /\ map'[q] = map[q] /\ err'[q] = err[q],
         cache' = cache \/ Fresh(fate, cache', CallLag),
         CallOK(fate, source, cache', pc'[p], lag'[p], todo'[p], listed'[p], map'[p], err'[p])
  PROVE  AttrInv'
<1>0. /\ fate' = fate /\ source' = source /\ fate \in Fates /\ cache'.map \in Maps
      /\ cache'.age \in Nat /\ lag \in [Pipeline -> 0..CallLag]
  BY DEF world, AttrInv, AttrTypeOK, Fates
<1>1. ASSUME NEW n \in Nat, Fresh(fate, cache', CallLag)
      PROVE  Fresh(fate, cache', CallLag + n)
  <2>1. Weaker(fate, CallLag, fate, CallLag + n)
    BY <1>0, <1>1, OlderIsWeaker, AttributionAssumption
  <2> QED
    BY <1>0, <1>1, <2>1, WeakerCache
<1>2. cache'.st # "absent" /\ cache'.age <= CacheDuration => Fresh(fate, cache', CallLag + cache'.age)
  BY <1>0, <1>1 DEF AttrInv
<1>3. ASSUME NEW q \in Pipeline
      PROVE  CallOK(fate, source, cache', pc'[q], lag'[q], todo'[q], listed'[q], map'[q], err'[q])
  <2>1. CASE q = p
    BY <2>1
  <2>2. CASE q # p
    <3>1. CallOK(fate, source, cache, pc[q], lag[q], todo[q], listed[q], map[q], err[q])
      BY DEF AttrInv, CallsOK
    <3>2. Fresh(fate, cache', CallLag) => Fresh(fate, cache', CallLag + CacheDuration + lag[q])
      <4>1. /\ CacheDuration + lag[q] \in Nat
            /\ CallLag + (CacheDuration + lag[q]) = CallLag + CacheDuration + lag[q]
        BY <1>0, AttributionAssumption
      <4> QED
        BY <1>1, <4>1
    <3>3. CallOK(fate, source, cache', pc[q], lag[q], todo[q], listed[q], map[q], err[q])
      BY <3>1, <3>2 DEF CallOK
    <3> QED
      BY <2>2, <3>3
  <2> QED
    BY <2>1, <2>2
<1>4. CallsOK'
  BY <1>0, <1>3 DEF CallsOK
<1>5. Exclusive(fate')
  BY <1>0 DEF AttrInv
<1> QED
  BY <1>0, <1>2, <1>4, <1>5 DEF AttrInv

\* The call returns, in some step that leaves a fresh map in the cache or none.
LEMMA ReturnInv ==
  ASSUME AttrInv, NEW p \in Pipeline, NEW m \in Maps, NEW e \in BOOLEAN, Return(p, m, e),
         UNCHANGED <<world, lag>>,
         cache' \in [st: {"absent", "empty", "corrupt", "map"}, map: Maps, age: Nat],
         cache' = cache \/ Fresh(fate, cache', CallLag),
         Recent(fate, source, m, CallLag + CacheDuration + lag[p]),
         ~e /\ source = "slurmctld" =>
           Complete(fate, {}, m, CallLag + CacheDuration + lag[p]),
         source = "nvml" => Unshared(fate, m, lag[p])
  PROVE  AttrInv'
<1>0. AttrTypeOK
  BY DEF AttrInv
<1>1. AttrTypeOK'
  BY <1>0 DEF AttrTypeOK, Return, Goto, NoList, world
<1>2. /\ pc'[p] = "label" /\ map'[p] = m /\ err'[p] = e /\ lag'[p] = lag[p]
      /\ \A q \in Pipeline \ {p} :
           /\ pc'[q] = pc[q] /\ lag'[q] = lag[q] /\ todo'[q] = todo[q]
           /\ listed'[q] = listed[q] /\ map'[q] = map[q] /\ err'[q] = err[q]
  BY <1>0 DEF AttrTypeOK, Return, Goto
<1>3. CallOK(fate, source, cache', pc'[p], lag'[p], todo'[p], listed'[p], map'[p], err'[p])
  BY <1>2 DEF CallOK
<1> QED
  BY <1>1, <1>2, <1>3, OneCall

\* The same for a map that the call has made itself.
LEMMA OwnMapReturned ==
  ASSUME AttrInv, NEW p \in Pipeline, NEW m \in Maps, NEW e \in BOOLEAN, Return(p, m, e),
         UNCHANGED <<world, lag>>,
         cache' \in [st: {"absent", "empty", "corrupt", "map"}, map: Maps, age: Nat],
         cache' = cache \/ Fresh(fate, cache', CallLag),
         Recent(fate, source, m, lag[p]),
         ~e /\ source = "slurmctld" =>
           Complete(fate, {}, m, lag[p]),
         source = "nvml" => Unshared(fate, m, lag[p])
  PROVE  AttrInv'
<1>1. /\ fate \in Fates /\ lag[p] \in Nat /\ CallLag + CacheDuration + lag[p] \in Nat
      /\ lag[p] <= CallLag + CacheDuration + lag[p]
  BY AttributionAssumption DEF AttrInv, AttrTypeOK, Fates
<1>2. Weaker(fate, lag[p], fate, CallLag + CacheDuration + lag[p])
  BY <1>1, OlderIsWeaker
<1>3. /\ Recent(fate, source, m, CallLag + CacheDuration + lag[p])
      /\ Complete(fate, {}, m, lag[p]) => Complete(fate, {}, m, CallLag + CacheDuration + lag[p])
  BY <1>2, WeakerMap
<1> QED
  BY <1>3, ReturnInv

\* An empty map names no job.
LEMMA EmptyMapFacts ==
  /\ EmptyMap \in Maps
  /\ \A f, src, n : Recent(f, src, EmptyMap, n) /\ Unshared(f, EmptyMap, n)
BY DEF EmptyMap, Maps, Recent, Unshared

\* A call that fails before it knows anything returns the empty map.
LEMMA FailsEmpty ==
  ASSUME AttrInv, NEW p \in Pipeline, Return(p, EmptyMap, TRUE), UNCHANGED <<world, cache, lag>>
  PROVE  AttrInv'
<1>1. cache \in [st: {"absent", "empty", "corrupt", "map"}, map: Maps, age: Nat]
  BY DEF AttrInv, AttrTypeOK
<1> QED
  BY <1>1, EmptyMapFacts, OwnMapReturned

\* What the invariant says of the call of p, and the types of its parts.
LEMMA CallFacts ==
  ASSUME AttrInv, NEW p \in Pipeline
  PROVE  /\ CallOK(fate, source, cache, pc[p], lag[p], todo[p], listed[p], map[p], err[p])
         /\ fate \in Fates /\ lag[p] \in 0..CallLag /\ lag[p] \in Nat
         /\ map[p] \in Maps /\ todo[p] \subseteq OnHost \cup Gpu
         /\ listed[p] \in [Gpu -> SUBSET OnHost]
         /\ cache \in [st: {"absent", "empty", "corrupt", "map"}, map: Maps, age: Nat]
         /\ Running \subseteq OnHost
BY AttributionAssumption DEF AttrInv, CallsOK, AttrTypeOK, Fates, Running

\* The call begins: all the jobs that run are still to be asked for.
LEMMA GetJob2PidInv ==
  ASSUME AttrInv, NEW p \in Pipeline, GetJob2Pid(p)
  PROVE  AttrInv'
<1>0. AttrTypeOK /\ pc[p] = "idle" /\ source \in {"slurmctld", "slurmd"}
  BY DEF AttrInv, GetJob2Pid
<1>1. lag[p] = 0 /\ map[p] = EmptyMap
  BY <1>0, CallFacts DEF CallOK
<1>2. /\ todo' = [todo EXCEPT ![p] = Running] /\ UNCHANGED <<world, cache, lag, listed, map, err>>
      /\ pc' = [pc EXCEPT ![p] = IF source = "slurmctld" THEN "stat" ELSE "environ"]
  BY DEF GetJob2Pid, Goto
<1>3. AttrTypeOK'
  BY <1>0, <1>2, CallFacts DEF AttrTypeOK, world
<1>4. /\ todo'[p] = Running /\ pc'[p] = (IF source = "slurmctld" THEN "stat" ELSE "environ")
      /\ \A q \in Pipeline \ {p} : pc'[q] = pc[q] /\ todo'[q] = todo[q]
  BY <1>0, <1>2 DEF AttrTypeOK
<1>5. Complete(fate, Running, EmptyMap, 0)
  BY DEF Complete, Old, Running
<1>6. CallOK(fate, source, cache, pc'[p], 0, Running, listed[p], EmptyMap, err[p])
  <2>1. CASE source = "slurmctld"
    BY <1>4, <1>5, <2>1 DEF CallOK
  <2>2. CASE source = "slurmd"
    BY <1>4, <1>5, <2>2, CallFacts, EmptyMapFacts DEF CallOK
  <2> QED
    BY <1>0, <2>1, <2>2
<1> QED
  BY <1>1, <1>2, <1>3, <1>4, <1>6, OneCall

\* A step of p that leaves all but its pc alone.
LEMMA GotoInv ==
  ASSUME AttrInv, NEW p \in Pipeline,
         NEW a \in {"idle", "stat", "read", "query", "write", "environ", "pids", "label"},
         Goto(p, a), UNCHANGED <<world, cache, lag, todo, listed, map, err>>,
         CallOK(fate, source, cache, a, lag[p], todo[p], listed[p], map[p], err[p])
  PROVE  AttrInv'
<1>0. AttrTypeOK
  BY DEF AttrInv
<1>1. AttrTypeOK'
  BY <1>0 DEF AttrTypeOK, Goto, world
<1>2. pc'[p] = a /\ \A q \in Pipeline \ {p} : pc'[q] = pc[q]
  BY <1>0 DEF AttrTypeOK, Goto
<1> QED
  BY <1>1, <1>2, OneCall

\* The cache is read only if it was fresh a moment ago.
LEMMA StatCacheInv ==
  ASSUME AttrInv, NEW p \in Pipeline, StatCache(p)
  PROVE  AttrInv'
<1>0. pc[p] = "stat" /\ UNCHANGED <<world, cache, lag, todo, listed, map, err>>
  BY DEF StatCache
<1>1. map[p] = EmptyMap /\ source = "slurmctld" /\ Complete(fate, todo[p], EmptyMap, lag[p])
  BY <1>0, CallFacts DEF CallOK
<1>2. CASE Goto(p, "query")
  <2>1. CallOK(fate, source, cache, "query", lag[p], todo[p], listed[p], map[p], err[p])
    BY <1>1, EmptyMapFacts DEF CallOK
  <2> QED
    BY <1>0, <1>2, <2>1, GotoInv
<1>3. CASE Goto(p, "read") /\ cache.st # "absent" /\ ~(cache.age > CacheDuration)
  <2>1. cache.age \in Nat /\ cache.age <= CacheDuration /\ cache.map \in Maps
    BY <1>3, CallFacts, AttributionAssumption
  <2>2. Fresh(fate, cache, CallLag + cache.age)
    BY <1>3, <2>1 DEF AttrInv
  <2>3. Weaker(fate, CallLag + cache.age, fate, CallLag + CacheDuration + lag[p])
    <3>1. /\ CallLag + cache.age \in Nat /\ CallLag + CacheDuration + lag[p] \in Nat
          /\ CallLag + cache.age <= CallLag + CacheDuration + lag[p]
      BY <2>1, CallFacts, AttributionAssumption
    <3> QED
      BY <3>1, OlderIsWeaker, CallFacts
  <2>4. Fresh(fate, cache, CallLag + CacheDuration + lag[p])
    BY <2>1, <2>2, <2>3, WeakerCache
  <2>5. CallOK(fate, source, cache, "read", lag[p], todo[p], listed[p], map[p], err[p])
    BY <1>1, <2>4 DEF CallOK
  <2> QED
    BY <1>0, <1>3, <2>5, GotoInv
<1> QED
  BY <1>2, <1>3 DEF StatCache

\* A cached map is returned as it is; a file that is empty is as good as none.
LEMMA ReadCacheInv ==
  ASSUME AttrInv, NEW p \in Pipeline, ReadCache(p)
  PROVE  AttrInv'
<1>0. pc[p] = "read" /\ UNCHANGED <<world, cache, lag>>
  BY DEF ReadCache
<1>1. /\ map[p] = EmptyMap /\ source = "slurmctld" /\ Complete(fate, todo[p], EmptyMap, lag[p])
      /\ Fresh(fate, cache, CallLag + CacheDuration + lag[p])
  BY <1>0, CallFacts DEF CallOK
<1>2. CASE cache.st = "empty" /\ Goto(p, "query") /\ UNCHANGED <<todo, listed, map, err>>
  <2>1. CallOK(fate, source, cache, "query", lag[p], todo[p], listed[p], map[p], err[p])
    BY <1>1, EmptyMapFacts DEF CallOK
  <2> QED
    BY <1>0, <1>2, <2>1, GotoInv
<1>3. CASE Return(p, EmptyMap, TRUE)
  BY <1>0, <1>3, FailsEmpty
<1>4. CASE cache.st \notin {"empty", "corrupt"} /\ Return(p, cache.map, FALSE)
  <2>1. CASE cache.st = "map"
    <3>1. /\ Recent(fate, "slurmctld", cache.map, CallLag + CacheDuration + lag[p])
          /\ Complete(fate, {}, cache.map, CallLag + CacheDuration + lag[p])
      BY <1>1, <2>1 DEF Fresh
    <3>2. cache.map \in Maps /\ FALSE \in BOOLEAN
      BY CallFacts
    <3> QED
      BY <1>0, <1>1, <1>4, <3>1, <3>2, ReturnInv, CallFacts
  <2>2. cache.st # "absent"
    BY <1>1 DEF Fresh
  <2> QED
    BY <1>4, <2>1, <2>2, CallFacts
<1> QED
  BY <1>2, <1>3, <1>4 DEF ReadCache

\* Attribution: every GPU keeps its owner or gets a running job that has it.
LEMMA AttributionFacts ==
  ASSUME NEW blocks \in Seq(Job), NEW m \in Maps
  PROVE  /\ AttributeGPU2SlurmMetadata(blocks, m) \in Maps
         /\ \A g \in Gpu :
              LET b == AttributeGPU2SlurmMetadata(blocks, m)[g] IN
              \/ /\ b = m[g]
                 /\ \A i \in DOMAIN blocks : blocks[i] \in Running => g \notin OwnGpus[blocks[i]]
              \/ b \in Running /\ b \in Job /\ g \in OwnGpus[b] \cup OtherGpus[b]
<1> DEFINE about(g) == {i \in DOMAIN blocks : HostnameInList(blocks[i]) /\ g \in GRES(blocks[i])}
           r == AttributeGPU2SlurmMetadata(blocks, m)
<1>1. r = [g \in Gpu |-> IF about(g) = {} THEN m[g] ELSE blocks[Max(about(g))]]
  BY DEF AttributeGPU2SlurmMetadata
<1>2. ASSUME NEW g \in Gpu, about(g) # {} PROVE Max(about(g)) \in about(g)
  <2>1. Len(blocks) \in Nat /\ about(g) \subseteq 0..Len(blocks)
    OBVIOUS
  <2> QED
    BY <1>2, <2>1, GreatestNumber
<1>3. ASSUME NEW g \in Gpu
      PROVE  /\ r[g] \in Job \cup {NoOwner}
             /\ \/ r[g] = m[g] /\ \A i \in DOMAIN blocks :
                                    blocks[i] \in Running => g \notin OwnGpus[blocks[i]]
                \/ r[g] \in Running /\ r[g] \in Job /\ g \in OwnGpus[r[g]] \cup OtherGpus[r[g]]
  <2>1. CASE about(g) = {}
    <3>1. r[g] = m[g]
      BY <1>1, <2>1
    <3>2. \A i \in DOMAIN blocks : blocks[i] \in Running => g \notin OwnGpus[blocks[i]]
      BY <2>1 DEF HostnameInList, GRES, Running
    <3> QED
      BY <3>1, <3>2 DEF Maps
  <2>2. CASE about(g) # {}
    <3>1. r[g] = blocks[Max(about(g))] /\ Max(about(g)) \in about(g)
      BY <1>1, <1>2, <2>2
    <3>2. Max(about(g)) \in DOMAIN blocks /\ HostnameInList(r[g]) /\ g \in GRES(r[g])
      BY <3>1
    <3> QED
      BY <3>1, <3>2 DEF HostnameInList, GRES
  <2> QED
    BY <2>1, <2>2
<1>4. r \in Maps
  BY <1>1, <1>3 DEF Maps
<1> HIDE DEF r
<1>5. \A g \in Gpu :
        \/ r[g] = m[g] /\ \A i \in DOMAIN blocks :
                            blocks[i] \in Running => g \notin OwnGpus[blocks[i]]
        \/ r[g] \in Running /\ r[g] \in Job /\ g \in OwnGpus[r[g]] \cup OtherGpus[r[g]]
  BY <1>3
<1> QED
  BY <1>4, <1>5 DEF r

\* A running job on a GPU of another is there by an index of another host.
LEMMA RunningOwner ==
  ASSUME AttrInv, NEW r, NEW j \in Running, NEW g \in OwnGpus[j], r[g] \in Running,
         r[g] # NoOwner, g \in OwnGpus[r[g]] \cup OtherGpus[r[g]]
  PROVE  Given(r, g, j)
<1>1. r[g] # j => OwnGpus[r[g]] \cap OwnGpus[j] = {}
  BY DEF AttrInv, Exclusive, Running
<1> QED
  BY <1>1 DEF Given

\* New owners that run, on GPUs that they have here or elsewhere, keep a map complete.
LEMMA NewOwners ==
  ASSUME AttrInv, NEW m \in Maps, NEW r \in Maps, NEW n \in Nat, NEW t,
         Complete(fate, t, m, n),
         \A g \in Gpu : \/ r[g] = m[g]
                        \/ r[g] \in Running /\ g \in OwnGpus[r[g]] \cup OtherGpus[r[g]]
  PROVE  Complete(fate, t, r, n)
<1> SUFFICES ASSUME NEW j \in Job \ t, Old(fate, j, n), NEW g \in OwnGpus[j]
             PROVE  Given(r, g, j)
  BY DEF Complete
<1>1. Given(m, g, j) /\ g \in Gpu /\ j \in Running
  BY AttributionAssumption DEF Complete, Old, Running
<1>2. CASE r[g] \in Running /\ g \in OwnGpus[r[g]] \cup OtherGpus[r[g]]
  <2>1. r[g] # NoOwner
    BY <1>2, AttributionAssumption DEF Running
  <2> QED
    BY <1>1, <1>2, <2>1, RunningOwner
<1>3. CASE r[g] = m[g]
  BY <1>1, <1>3 DEF Given
<1> QED
  BY <1>1, <1>2, <1>3

\* New owners that the source has on their GPUs keep a map recent.
LEMMA NewOwnersRecent ==
  ASSUME NEW m, NEW r, NEW n \in Nat, Recent(fate, source, m, n),
         \A g \in Gpu : r[g] = m[g] \/ (r[g] \in Running /\ g \in Indices(source, r[g]))
  PROVE  Recent(fate, source, r, n)
BY DEF Recent, Running, Seen

\* One job less to ask for.
LEMMA GetJobMetadataInv ==
  ASSUME AttrInv, NEW p \in Pipeline, NEW j \in OnHost, GetJobMetadata(p, j)
  PROVE  AttrInv'
<1> DEFINE r == AttributeGPU2SlurmMetadata(Blocks[j], map[p])
           t == todo[p] \ {j}
<1>0. /\ AttrTypeOK /\ pc[p] = "query" /\ UNCHANGED <<world, cache, pc, lag, listed, err>>
      /\ map' = [map EXCEPT ![p] = r] /\ todo' = [todo EXCEPT ![p] = t]
      /\ map[p] \in Maps /\ Blocks[j] \in Seq(Job)
  BY CallFacts, AttributionAssumption DEF AttrInv, GetJobMetadata
<1>1. r \in Maps
  BY <1>0, AttributionFacts
<1>2. AttrTypeOK'
  BY <1>0, <1>1, CallFacts DEF AttrTypeOK, world
<1>3. /\ source = "slurmctld" /\ Recent(fate, source, map[p], lag[p])
      /\ Complete(fate, todo[p], map[p], lag[p])
  BY <1>0, CallFacts DEF CallOK
<1>4. \A g \in Gpu : \/ r[g] = map[p][g]
                     \/ r[g] \in Running /\ g \in OwnGpus[r[g]] \cup OtherGpus[r[g]]
  BY <1>0, AttributionFacts
<1>5. j \in Running => \A g \in OwnGpus[j] : Given(r, g, j)
  <2> SUFFICES ASSUME j \in Running, NEW g \in OwnGpus[j] PROVE Given(r, g, j)
    OBVIOUS
  <2>1. g \in Gpu /\ \E i \in DOMAIN Blocks[j] : Blocks[j][i] = j
    BY AttributionAssumption
  <2>2. r[g] \in Running /\ r[g] \in Job /\ g \in OwnGpus[r[g]] \cup OtherGpus[r[g]]
    BY <1>0, <2>1, AttributionFacts
  <2> QED
    BY <2>2, RunningOwner, AttributionAssumption
<1> HIDE DEF r
<1>6. Recent(fate, source, r, lag[p]) /\ Complete(fate, todo[p], r, lag[p])
  <2>1. Complete(fate, todo[p], r, lag[p])
    BY <1>0, <1>1, <1>3, <1>4, NewOwners, CallFacts
  <2>2. Recent(fate, source, r, lag[p])
    BY <1>3, <1>4, NewOwnersRecent, CallFacts DEF Indices
  <2> QED
    BY <2>1, <2>2
<1>7. Complete(fate, t, r, lag[p])
  BY <1>5, <1>6 DEF Complete, Old, Running
<1>8. /\ map'[p] = r /\ todo'[p] = t
      /\ \A q \in Pipeline \ {p} : map'[q] = map[q] /\ todo'[q] = todo[q]
  BY <1>0 DEF AttrTypeOK
<1>9. CallOK(fate, source, cache, pc[p], lag[p], t, listed[p], r, err[p])
  BY <1>0, <1>3, <1>6, <1>7 DEF CallOK
<1> QED
  BY <1>0, <1>2, <1>8, <1>9, OneCall

\* A call that fails half way returns its map so far, with an error.
LEMMA FailsHalfway ==
  ASSUME AttrInv, NEW p \in Pipeline, Return(p, map[p], TRUE), UNCHANGED <<world, cache, lag>>,
         pc[p] \in {"query", "write", "environ"}
  PROVE  AttrInv'
<1>1. Recent(fate, source, map[p], lag[p]) /\ source # "nvml" /\ TRUE \in BOOLEAN
  BY CallFacts DEF CallOK
<1> QED
  BY <1>1, OwnMapReturned, CallFacts

\* An empty file is no answer to anybody.
LEMMA TruncateCacheInv ==
  ASSUME AttrInv, NEW p \in Pipeline, TruncateCache(p)
  PROVE  AttrInv'
<1>0. /\ AttrTypeOK /\ pc[p] = "query" /\ todo[p] = {} /\ pc' = [pc EXCEPT ![p] = "write"]
      /\ cache' = [st |-> "empty", map |-> EmptyMap, age |-> 0]
      /\ UNCHANGED <<world, lag, todo, listed, map, err>>
  BY DEF AttrInv, TruncateCache, Goto
<1>1. AttrTypeOK' /\ Fresh(fate, cache', CallLag)
  BY <1>0, EmptyMapFacts DEF AttrTypeOK, world, Fresh
<1>2. pc'[p] = "write" /\ \A q \in Pipeline \ {p} : pc'[q] = pc[q]
  BY <1>0 DEF AttrTypeOK
<1>3. /\ source = "slurmctld" /\ Recent(fate, source, map[p], lag[p])
      /\ Complete(fate, {}, map[p], lag[p])
  BY <1>0, CallFacts DEF CallOK
<1>4. CallOK(fate, source, cache', "write", lag[p], todo[p], listed[p], map[p], err[p])
  BY <1>3 DEF CallOK
<1> QED
  BY <1>0, <1>1, <1>2, <1>4, OneCall

\* Only a complete map gets into the cache.
LEMMA WriteCacheInv ==
  ASSUME AttrInv, NEW p \in Pipeline, WriteCache(p)
  PROVE  AttrInv'
<1>0. /\ pc[p] = "write" /\ Return(p, map[p], FALSE) /\ UNCHANGED <<world, lag>>
      /\ \/ cache' = [st |-> "map", map |-> map[p], age |-> 0]
         \/ cache' = [st |-> "corrupt", map |-> EmptyMap, age |-> 0]
  BY DEF WriteCache
<1>1. /\ source = "slurmctld" /\ Recent(fate, source, map[p], lag[p])
      /\ Complete(fate, {}, map[p], lag[p])
  BY <1>0, CallFacts DEF CallOK
<1>2. lag[p] \in Nat /\ lag[p] <= CallLag /\ CallLag \in Nat /\ fate \in Fates /\ map[p] \in Maps
  BY CallFacts, AttributionAssumption
<1>3. Weaker(fate, lag[p], fate, CallLag)
  BY <1>2, OlderIsWeaker
<1>4. Recent(fate, source, map[p], CallLag) /\ Complete(fate, {}, map[p], CallLag)
  BY <1>1, <1>2, <1>3, WeakerMap
<1>5. Fresh(fate, cache', CallLag)
  BY <1>0, <1>1, <1>4 DEF Fresh
<1>6. cache' \in [st: {"absent", "empty", "corrupt", "map"}, map: Maps, age: Nat]
  BY <1>0, <1>2, EmptyMapFacts
<1>7. FALSE \in BOOLEAN
  OBVIOUS
<1> QED
  BY <1>0, <1>1, <1>2, <1>5, <1>6, <1>7, OwnMapReturned

\* The processes of one more job.
LEMMA GetGPU2SlurmFromPIDsInv ==
  ASSUME AttrInv, NEW p \in Pipeline, NEW j \in OnHost, GetGPU2SlurmFromPIDs(p, j)
  PROVE  AttrInv'
<1> DEFINE r == [g \in Gpu |-> IF g \in OwnGpus[j] THEN j ELSE map[p][g]]
           t == todo[p] \ {j}
<1>0. /\ AttrTypeOK /\ pc[p] = "environ" /\ j \in Running
      /\ UNCHANGED <<world, cache, lag>> /\ map[p] \in Maps /\ j \in Job
  BY CallFacts, AttributionAssumption DEF AttrInv, GetGPU2SlurmFromPIDs
<1>1. source = "slurmd" /\ Recent(fate, source, map[p], lag[p])
  BY <1>0, CallFacts DEF CallOK
<1>2. r \in Maps /\ \A g \in Gpu : r[g] = map[p][g] \/ (r[g] = j /\ g \in OwnGpus[j])
  BY <1>0 DEF Maps
<1> HIDE DEF r
<1>3. Recent(fate, source, r, lag[p])
  BY <1>0, <1>1, <1>2, NewOwnersRecent, CallFacts DEF Indices
<1>4. CASE todo[p] # {j}
  <2>1. /\ map' = [map EXCEPT ![p] = r] /\ todo' = [todo EXCEPT ![p] = t]
        /\ UNCHANGED <<pc, listed, err>>
    BY <1>4 DEF GetGPU2SlurmFromPIDs, r
  <2>2. AttrTypeOK'
    BY <1>0, <1>2, <2>1, CallFacts DEF AttrTypeOK, world
  <2>3. /\ map'[p] = r /\ todo'[p] = t
        /\ \A q \in Pipeline \ {p} : map'[q] = map[q] /\ todo'[q] = todo[q]
    BY <1>0, <2>1 DEF AttrTypeOK
  <2>4. CallOK(fate, source, cache, pc[p], lag[p], t, listed[p], r, err[p])
    BY <1>0, <1>1, <1>3 DEF CallOK
  <2> QED
    BY <1>0, <2>1, <2>2, <2>3, <2>4, OneCall
<1>5. CASE todo[p] = {j}
  <2>1. Return(p, r, FALSE) /\ FALSE \in BOOLEAN
    BY <1>5 DEF GetGPU2SlurmFromPIDs, r
  <2> QED
    BY <1>0, <1>1, <1>2, <1>3, <2>1, OwnMapReturned, CallFacts
<1> QED
  BY <1>4, <1>5

\* A process without SLURM_JOB_GPUS: the map so far is returned.
LEMMA NoGPUsInEnvInv ==
  ASSUME AttrInv, NEW p \in Pipeline, NEW j \in OnHost, NoGPUsInEnv(p, j)
  PROVE  AttrInv'
<1> DEFINE t == todo[p] \ {j}
<1>0. /\ AttrTypeOK /\ pc[p] = "environ" /\ pc' = [pc EXCEPT ![p] = "label"]
      /\ todo' = [todo EXCEPT ![p] = t] /\ UNCHANGED <<world, cache, lag, listed, map, err>>
  BY DEF AttrInv, NoGPUsInEnv, Goto
<1>1. source = "slurmd" /\ Recent(fate, source, map[p], lag[p]) /\ map[p] \in Maps
  BY <1>0, CallFacts DEF CallOK
<1>2. AttrTypeOK'
  BY <1>0, CallFacts DEF AttrTypeOK, world
<1>3. /\ pc'[p] = "label" /\ todo'[p] = t
      /\ \A q \in Pipeline \ {p} : pc'[q] = pc[q] /\ todo'[q] = todo[q]
  BY <1>0 DEF AttrTypeOK
<1>4. /\ fate \in Fates /\ lag[p] \in Nat /\ CallLag + CacheDuration + lag[p] \in Nat
      /\ lag[p] <= CallLag + CacheDuration + lag[p]
  BY CallFacts, AttributionAssumption
<1>5. Recent(fate, source, map[p], CallLag + CacheDuration + lag[p])
  <2>1. Weaker(fate, lag[p], fate, CallLag + CacheDuration + lag[p])
    BY <1>4, OlderIsWeaker
  <2> QED
    BY <1>1, <2>1, WeakerMap
<1>6. CallOK(fate, source, cache, "label", lag[p], t, listed[p], map[p], err[p])
  BY <1>1, <1>5 DEF CallOK
<1> QED
  BY <1>0, <1>2, <1>3, <1>6, OneCall

\* No job to ask for: an empty map.
LEMMA GetGPU2SlurmFromNoPIDsInv ==
  ASSUME AttrInv, NEW p \in Pipeline, GetGPU2SlurmFromNoPIDs(p)
  PROVE  AttrInv'
<1>0. /\ pc[p] = "environ" /\ Return(p, EmptyMap, FALSE)
      /\ UNCHANGED <<world, cache, lag>> /\ FALSE \in BOOLEAN
  BY DEF GetGPU2SlurmFromNoPIDs
<1>1. source = "slurmd"
  BY <1>0, CallFacts DEF CallOK
<1> QED
  BY <1>0, <1>1, EmptyMapFacts, OwnMapReturned, CallFacts

\* nvidia-smi pmon lists the jobs that run on each GPU.
LEMMA ExecuteGpuPidsCommandInv ==
  ASSUME AttrInv, NEW p \in Pipeline, ExecuteGpuPidsCommand(p)
  PROVE  AttrInv'
<1> DEFINE l == [g \in Gpu |-> {j \in Running : g \in Uses[j]}]
           t == {g \in Gpu : \E j \in Running : g \in Uses[j]}
<1>0. /\ AttrTypeOK /\ pc[p] = "idle" /\ source = "nvml"
      /\ UNCHANGED <<world, cache, lag, map, err>>
      /\ listed' = [listed EXCEPT ![p] = l] /\ todo' = [todo EXCEPT ![p] = t]
      /\ pc' = [pc EXCEPT ![p] = "pids"]
  BY DEF AttrInv, ExecuteGpuPidsCommand, Goto
<1>1. map[p] = EmptyMap /\ l \in [Gpu -> SUBSET OnHost] /\ t \subseteq Gpu
  BY <1>0, CallFacts DEF CallOK
<1>2. AttrTypeOK'
  BY <1>0, <1>1 DEF AttrTypeOK, world
<1>3. Listing(fate, l, lag[p])
  BY DEF Listing, Old, Running
<1> HIDE DEF l, t
<1>4. /\ listed'[p] = l /\ todo'[p] = t /\ pc'[p] = "pids"
      /\ \A q \in Pipeline \ {p} : listed'[q] = listed[q] /\ todo'[q] = todo[q] /\ pc'[q] = pc[q]
  BY <1>0 DEF AttrTypeOK
<1>5. CallOK(fate, source, cache, "pids", lag[p], t, l, EmptyMap, err[p])
  BY <1>0, <1>3, EmptyMapFacts DEF CallOK
<1> QED
  BY <1>0, <1>1, <1>2, <1>4, <1>5, OneCall

\* The driver could not be asked: an empty map.
LEMMA GpuPidsCommandFailsInv ==
  ASSUME AttrInv, NEW p \in Pipeline, GpuPidsCommandFails(p)
  PROVE  AttrInv'
<1>0. source = "nvml" /\ Return(p, EmptyMap, FALSE) /\ UNCHANGED <<world, cache, lag>>
      /\ FALSE \in BOOLEAN
  BY DEF GpuPidsCommandFails
<1> QED
  BY <1>0, EmptyMapFacts, OwnMapReturned, CallFacts

\* A GPU has an owner only if its processes are all of one job.
LEMMA OwnerIsAlone ==
  ASSUME NEW S \in SUBSET OnHost, metadataForGPU(S) # NoOwner
  PROVE  S = {metadataForGPU(S)} /\ S \subseteq Running
<1>1. S \subseteq Running /\ Cardinality(S) = 1 /\ metadataForGPU(S) = CHOOSE j \in S : TRUE
  BY DEF metadataForGPU
<1>2. IsFiniteSet(S)
  BY AttributionAssumption, FS_Subset
<1>3. \E x : S = {x}
  BY <1>1, <1>2, FS_Singleton
<1> QED
  BY <1>1, <1>3

\* One GPU more.
LEMMA ReadGpuInv ==
  ASSUME AttrInv, NEW p \in Pipeline, NEW g \in Gpu, ReadGpu(p, g)
  PROVE  AttrInv'
<1>0. /\ AttrTypeOK /\ pc[p] = "pids" /\ UNCHANGED <<world, cache, pc, lag, listed, err>>
      /\ todo' = [todo EXCEPT ![p] = todo[p] \ {g}]
  BY DEF AttrInv, ReadGpu
<1>1. PICK j \in {metadataForGPU(listed[p][g]), NoOwner} : map' = [map EXCEPT ![p][g] = j]
  BY DEF ReadGpu
<1>2. /\ source = "nvml" /\ Listing(fate, listed[p], lag[p])
      /\ Unshared(fate, map[p], lag[p]) /\ Recent(fate, source, map[p], lag[p])
  BY <1>0, CallFacts DEF CallOK
<1>3. listed[p][g] \in SUBSET OnHost
  BY CallFacts
<1>4. j # NoOwner => listed[p][g] = {j} /\ j \in Running /\ j \in OnHost
  BY <1>1, <1>3, OwnerIsAlone
<1>5. j # NoOwner => /\ Seen(fate, j, lag[p]) /\ g \in Uses[j]
                     /\ \A k \in Job \ {j} : Old(fate, k, lag[p]) => g \notin Uses[k]
  BY <1>2, <1>4 DEF Listing, Seen, Running
<1> DEFINE r == [map[p] EXCEPT ![g] = j]
<1>6. map[p] \in Maps /\ r \in Maps /\ r[g] = j /\ \A h \in Gpu \ {g} : r[h] = map[p][h]
  BY <1>4, CallFacts, AttributionAssumption DEF Maps
<1>7. map' = [map EXCEPT ![p] = r]
  BY <1>0, <1>1 DEF AttrTypeOK
<1> HIDE DEF r
<1>8. Recent(fate, source, r, lag[p]) /\ Unshared(fate, r, lag[p])
  BY <1>2, <1>5, <1>6 DEF Recent, Unshared, Indices
<1>9. AttrTypeOK'
  BY <1>0, <1>6, <1>7, CallFacts DEF AttrTypeOK, world
<1>10. /\ map'[p] = r
       /\ \A q \in Pipeline \ {p} : map'[q] = map[q] /\ todo'[q] = todo[q]
  BY <1>0, <1>7 DEF AttrTypeOK
<1>11. CallOK(fate, source, cache, pc[p], lag[p], todo'[p], listed[p], r, err[p])
  BY <1>0, <1>2, <1>8 DEF CallOK
<1> QED
  BY <1>0, <1>9, <1>10, <1>11, OneCall

\* A call of the driver path that has asked every GPU keeps the invariant.
LEMMA AllGpusReadInv ==
  ASSUME AttrInv, NEW p \in Pipeline, AllGpusRead(p)
  PROVE  AttrInv'
<1>0. pc[p] = "pids" /\ Return(p, map[p], FALSE) /\ UNCHANGED <<world, cache, lag>>
      /\ FALSE \in BOOLEAN
  BY DEF AllGpusRead
<1>1. source = "nvml" /\ Unshared(fate, map[p], lag[p]) /\ Recent(fate, source, map[p], lag[p])
  BY <1>0, CallFacts DEF CallOK
<1> QED
  BY <1>0, <1>1, OwnMapReturned, CallFacts

\* The batch is labelled and the map forgotten.
LEMMA ProcessMetricsInv ==
  ASSUME AttrInv, NEW p \in Pipeline, ProcessMetrics(p)
  PROVE  AttrInv'
<1>0. /\ AttrTypeOK /\ pc' = [pc EXCEPT ![p] = "idle"] /\ lag' = [lag EXCEPT ![p] = 0]
      /\ map' = [map EXCEPT ![p] = EmptyMap] /\ err' = [err EXCEPT ![p] = FALSE]
      /\ todo' = [todo EXCEPT ![p] = {}] /\ UNCHANGED <<world, cache, listed>>
  BY DEF AttrInv, ProcessMetrics, Goto
<1>1. AttrTypeOK'
  BY <1>0, EmptyMapFacts, AttributionAssumption DEF AttrTypeOK, world
<1>2. /\ pc'[p] = "idle" /\ lag'[p] = 0 /\ map'[p] = EmptyMap
      /\ \A q \in Pipeline \ {p} :
           /\ pc'[q] = pc[q] /\ lag'[q] = lag[q] /\ map'[q] = map[q] /\ err'[q] = err[q]
           /\ todo'[q] = todo[q]
  BY <1>0 DEF AttrTypeOK
<1>3. CallOK(fate, source, cache', pc'[p], lag'[p], todo'[p], listed'[p], map'[p], err'[p])
  BY <1>2 DEF CallOK
<1> QED
  BY <1>0, <1>1, <1>2, <1>3, OneCall

---------------------------------------------------------------------------
(* The whole *)

\* Nothing is known at first.
LEMMA AttrInitInv == AttrInit => AttrInv
<1> SUFFICES ASSUME AttrInit PROVE AttrInv
  OBVIOUS
<1>1. AttrTypeOK
  BY EmptyMapFacts, AttributionAssumption DEF AttrInit, AttrTypeOK, NoList, Horizon, Bound
<1>2. CallsOK
  BY DEF AttrInit, CallsOK, CallOK
<1>3. Exclusive(fate)
  BY DEF AttrInit, Exclusive
<1> QED
  BY <1>1, <1>2, <1>3 DEF AttrInv, AttrInit

\* The jobs grow older, and with them the cache and the calls.
LEMMA TickInv == AttrInv /\ Tick => AttrInv'
<1> SUFFICES ASSUME AttrInv, Tick PROVE AttrInv'
  OBVIOUS
<1>0. AttrTypeOK /\ fate \in Fates /\ cache.map \in Maps /\ cache.age \in Nat
  BY DEF AttrInv, AttrTypeOK, Fates
<1>1. fate' \in Fates /\ Ages(fate, fate', 1)
  BY <1>0, WorldAges
<1>2. /\ \A p \in Pipeline : pc[p] # "idle" => lag[p] < CallLag
      /\ lag' = [p \in Pipeline |-> IF pc[p] = "idle" THEN 0 ELSE lag[p] + 1]
      /\ cache' = [cache EXCEPT !.age = IF cache.st = "absent" THEN 0
                                        ELSE Later(cache.age, CacheDuration + 1)]
      /\ UNCHANGED <<source, pc, todo, listed, map, err>>
  BY DEF Tick
<1>3. /\ cache'.st = cache.st /\ cache'.map = cache.map
      /\ cache.st # "absent" => cache'.age = Later(cache.age, CacheDuration + 1)
      /\ cache' \in [st: {"absent", "empty", "corrupt", "map"}, map: Maps, age: Nat]
  <2> DEFINE a == IF cache.st = "absent" THEN 0 ELSE Later(cache.age, CacheDuration + 1)
  <2>1. a \in Nat
    BY <1>0, AttributionAssumption DEF Later
  <2>2. cache' = [cache EXCEPT !.age = a]
    BY <1>2
  <2> HIDE DEF a
  <2>3. cache' \in [st: {"absent", "empty", "corrupt", "map"}, map: Maps, age: Nat]
        /\ cache'.st = cache.st /\ cache'.map = cache.map /\ cache'.age = a
    BY <1>0, <2>1, <2>2 DEF AttrTypeOK
  <2> QED
    BY <2>3 DEF a
<1>4. lag' \in [Pipeline -> 0..CallLag]
  BY <1>0, <1>2, AttributionAssumption DEF AttrTypeOK
<1>5. AttrTypeOK'
  BY <1>0, <1>1, <1>2, <1>3, <1>4 DEF AttrTypeOK, Fates
<1>6. Exclusive(fate')
  <2>1. \A j \in OnHost : fate'[j].st = fate[j].st
    BY <1>0 DEF Tick, Fates
  <2> QED
    BY <2>1 DEF AttrInv, Exclusive
<1>7. cache'.st # "absent" /\ cache'.age <= CacheDuration => Fresh(fate', cache', CallLag + cache'.age)
  <2> SUFFICES ASSUME cache'.st # "absent", cache'.age <= CacheDuration
               PROVE  Fresh(fate', cache', CallLag + cache'.age)
    OBVIOUS
  <2>1. cache.age <= CacheDuration /\ cache'.age = cache.age + 1
    BY <1>0, <1>3, AttributionAssumption DEF Later
  <2>2. Fresh(fate, cache, CallLag + cache.age)
    BY <1>3, <2>1 DEF AttrInv
  <2>3. CallLag + cache.age \in Nat /\ (CallLag + cache.age) + 1 = CallLag + cache'.age
    <3> DEFINE b == cache.age
               c == cache'.age
    <3>1. b \in Nat /\ c = b + 1 /\ CallLag \in Nat
      BY <1>0, <2>1, AttributionAssumption
    <3> HIDE DEF b, c
    <3>2. CallLag + b \in Nat /\ (CallLag + b) + 1 = CallLag + c
      BY <3>1
    <3> QED
      BY <3>2 DEF b, c
  <2>4. Weaker(fate, CallLag + cache.age, fate', CallLag + cache'.age)
    BY <1>1, <2>3 DEF Ages
  <2> QED
    BY <1>0, <1>3, <2>2, <2>4, WeakerCache
<1>8. CallsOK'
  <2> SUFFICES ASSUME NEW p \in Pipeline
               PROVE  CallOK(fate', source', cache', pc'[p], lag'[p], todo'[p], listed'[p],
                             map'[p], err'[p])
    BY DEF CallsOK
  <2>1. /\ CallOK(fate, source, cache, pc[p], lag[p], todo[p], listed[p], map[p], err[p])
        /\ lag[p] \in Nat /\ lag'[p] \in Nat /\ map[p] \in Maps
        /\ IF pc[p] = "idle" THEN lag'[p] = 0 ELSE lag'[p] = lag[p] + 1
    BY <1>2, <1>4, CallFacts, AttributionAssumption
  <2>2. CallOK(fate', source, cache', pc[p], lag'[p], todo[p], listed[p], map[p], err[p])
    BY <1>0, <1>1, <1>3, <2>1, AgedCall
  <2> QED
    BY <1>2, <2>2
<1> QED
  BY <1>5, <1>6, <1>7, <1>8 DEF AttrInv

\* A job takes GPUs that no other has.
LEMMA JobInv ==
  ASSUME AttrInv, NEW j \in OnHost, JobStarts(j) \/ JobEnds(j)
  PROVE  AttrInv'
<1>0. AttrTypeOK /\ fate \in Fates /\ cache.map \in Maps /\ cache.age \in Nat
  BY DEF AttrInv, AttrTypeOK, Fates
<1>1. fate' \in Fates /\ Ages(fate, fate', 0)
  BY <1>0, WorldAges
<1>2. UNCHANGED <<source, cache, pc, lag, todo, listed, map, err>>
  BY DEF JobStarts, JobEnds, callVars
<1>3. AttrTypeOK'
  BY <1>0, <1>1, <1>2 DEF AttrTypeOK, Fates
<1>4. Exclusive(fate')
  <2>1. \A k \in OnHost \ {j} : fate'[k] = fate[k]
    BY <1>0 DEF JobStarts, JobEnds, Fates
  <2>2. CASE JobStarts(j)
    <3>1. \A k \in OnHost : fate[k].st = "running" => OwnGpus[j] \cap OwnGpus[k] = {}
      BY <2>2 DEF JobStarts, Running
    <3> QED
      BY <2>1, <3>1 DEF AttrInv, Exclusive
  <2>3. CASE JobEnds(j)
    <3>1. fate'[j].st = "ended"
      BY <1>0, <2>3 DEF JobEnds, Fates
    <3> QED
      BY <2>1, <3>1 DEF AttrInv, Exclusive
  <2> QED
    BY <2>2, <2>3
<1>5. cache'.st # "absent" /\ cache'.age <= CacheDuration => Fresh(fate', cache', CallLag + cache'.age)
  <2> SUFFICES ASSUME cache.st # "absent", cache.age <= CacheDuration
               PROVE  Fresh(fate', cache, CallLag + cache.age)
    BY <1>2
  <2>1. CallLag + cache.age \in Nat /\ (CallLag + cache.age) + 0 = CallLag + cache.age
    BY <1>0, AttributionAssumption
  <2>2. Weaker(fate, CallLag + cache.age, fate', CallLag + cache.age)
    BY <1>1, <2>1 DEF Ages
  <2>3. Fresh(fate, cache, CallLag + cache.age)
    BY DEF AttrInv
  <2> QED
    BY <1>0, <2>2, <2>3, WeakerCache
<1>6. CallsOK'
  <2> SUFFICES ASSUME NEW p \in Pipeline
               PROVE  CallOK(fate', source, cache, pc[p], lag[p], todo[p], listed[p], map[p], err[p])
    BY <1>2 DEF CallsOK
  <2>1. /\ CallOK(fate, source, cache, pc[p], lag[p], todo[p], listed[p], map[p], err[p])
        /\ lag[p] \in Nat /\ map[p] \in Maps
        /\ IF pc[p] = "idle" THEN lag[p] = 0 ELSE lag[p] = lag[p] + 0
    <3>1. CallOK(fate, source, cache, pc[p], lag[p], todo[p], listed[p], map[p], err[p])
          /\ lag[p] \in Nat /\ map[p] \in Maps
      BY CallFacts
    <3>2. pc[p] = "idle" => lag[p] = 0
      BY <3>1 DEF CallOK
    <3> QED
      BY <3>1, <3>2
  <2> QED
    BY <1>0, <1>1, <2>1, AgedCall
<1> QED
  BY <1>3, <1>4, <1>5, <1>6 DEF AttrInv

\* Every step of a call keeps the invariant.
LEMMA CallStepInv ==
  ASSUME AttrInv, NEW p \in Pipeline, CallStep(p)
  PROVE  AttrInv'
<1>1. CASE GetJob2PidFails(p) \/ ReadCacheFails(p)
  BY <1>1, FailsEmpty DEF GetJob2PidFails, ReadCacheFails
<1>2. CASE SaveFails(p)
  BY <1>2, FailsHalfway DEF SaveFails
<1>3. ASSUME NEW j \in OnHost, GetJobMetadataFails(p, j) \/ GetProcEnvStrFails(p, j)
      PROVE  AttrInv'
  BY <1>3, FailsHalfway DEF GetJobMetadataFails, GetProcEnvStrFails
<1>4. CASE GetJob2Pid(p) \/ StatCache(p) \/ ReadCache(p)
  BY <1>4, GetJob2PidInv, StatCacheInv, ReadCacheInv
<1>5. ASSUME NEW j \in OnHost,
             GetJobMetadata(p, j) \/ GetGPU2SlurmFromPIDs(p, j) \/ NoGPUsInEnv(p, j)
      PROVE  AttrInv'
  BY <1>5, GetJobMetadataInv, GetGPU2SlurmFromPIDsInv, NoGPUsInEnvInv
<1>6. CASE TruncateCache(p) \/ WriteCache(p) \/ GetGPU2SlurmFromNoPIDs(p)
  BY <1>6, TruncateCacheInv, WriteCacheInv, GetGPU2SlurmFromNoPIDsInv
<1>7. CASE ExecuteGpuPidsCommand(p) \/ GpuPidsCommandFails(p) \/ AllGpusRead(p)
  BY <1>7, ExecuteGpuPidsCommandInv, GpuPidsCommandFailsInv, AllGpusReadInv
<1>8. ASSUME NEW g \in Gpu, ReadGpu(p, g) PROVE AttrInv'
  BY <1>8, ReadGpuInv
<1>9. CASE ProcessMetrics(p)
  BY <1>9, ProcessMetricsInv
<1> QED
  BY <1>1, <1>2, <1>3, <1>4, <1>5, <1>6, <1>7, <1>8, <1>9 DEF CallStep

\* The invariant holds in every state.
LEMMA AttrInvariant == AttrSpec => []AttrInv
<1>1. AttrInv /\ [AttrNext]_attrVars => AttrInv'
  <2> SUFFICES ASSUME AttrInv, [AttrNext]_attrVars PROVE AttrInv'
    OBVIOUS
  <2>1. CASE UNCHANGED attrVars
    BY <2>1 DEF attrVars, world, callVars, AttrInv, AttrTypeOK, CallsOK
  <2> QED
    BY <2>1, TickInv, JobInv, CallStepInv DEF AttrNext
<1> QED
  BY <1>1, AttrInitInv, PTL DEF AttrSpec

\* The misattribution the cache causes is bounded, for any number of pipelines,
\* GPUs and jobs, any cache duration and duration of a call: a data point is
\* labelled only with a job that ran on the host within the bound, and one of a
\* GPU only with a job that the source had on this index, of whichever of its
\* hosts (shelper: GetSlurmMetadataCache, SaveSlurmToJSON,
\* AttributeGPU2SlurmMetadata; slurmprocessor: processMetrics).
THEOREM LabelsAreRecent == AttrSpec => []LabelsRecent
<1>1. AttrInv => LabelsRecent
  <2> SUFFICES ASSUME AttrInv, NEW p \in Pipeline, pc[p] = "label"
               PROVE  /\ \A j \in Labels(p, NoGpu) : j \in OnHost /\ fate[j].st # "new"
                                   /\ (fate[j].st = "ended" => fate[j].t <= Bound)
                      /\ \A g \in Gpu : \A j \in Labels(p, g) : g \in Indices(source, j)
    BY DEF LabelsRecent
  <2>1. Recent(fate, source, map[p], CallLag + CacheDuration + lag[p])
    BY CallFacts DEF CallOK
  <2>2. CallLag + CacheDuration + lag[p] <= Bound /\ \A j \in OnHost : fate[j].t \in Int
        /\ CallLag + CacheDuration + lag[p] \in Int /\ Bound \in Int
    BY CallFacts, AttributionAssumption DEF Bound, Fates, Horizon
  <2>3. ASSUME NEW g \in Gpu, map[p][g] # NoOwner
        PROVE  LET j == map[p][g] IN
               /\ j \in OnHost /\ fate[j].st # "new" /\ (fate[j].st = "ended" => fate[j].t <= Bound)
               /\ g \in Indices(source, j)
    BY <2>1, <2>2, <2>3 DEF Recent, Seen
  <2>4. ASSUME NEW j \in Labels(p, NoGpu)
        PROVE  j \in OnHost /\ fate[j].st # "new" /\ (fate[j].st = "ended" => fate[j].t <= Bound)
    <3>1. PICK g \in Gpu : j = map[p][g] /\ j # NoOwner
      BY <2>4 DEF Labels, aggregateSlurmTo, GetGPUData
    <3> QED
      BY <2>3, <3>1
  <2>5. ASSUME NEW g \in Gpu, NEW j \in Labels(p, g) PROVE g \in Indices(source, j)
    <3>1. g # NoGpu
      BY AttributionAssumption
    <3>2. j = map[p][g] /\ j # NoOwner
      BY <2>5, <3>1 DEF Labels, aggregateSlurmTo
    <3> QED
      BY <2>3, <3>2
  <2> QED
    BY <2>4, <2>5
<1> QED
  BY <1>1, AttrInvariant, PTL

\* The GPUs of a job that has been running for longer than the bound have a label
\* in every answer of slurmctld without an error, whatever the pipelines do to the
\* cache between them: the job, or one that has the index on another host
\* (GetGPU2Slurm returns before it saves if a query fails).
THEOREM LongRunningAreLabelled == AttrSpec => []LongRunningLabelled
<1>1. AttrInv => LongRunningLabelled
  <2> SUFFICES ASSUME AttrInv, NEW p \in Pipeline, pc[p] = "label", ~err[p],
                      source = "slurmctld",
                      NEW j \in Running, fate[j].t > Bound, NEW g \in OwnGpus[j]
               PROVE  \E k \in Labels(p, g) : k = j \/ g \in OtherGpus[k]
    BY DEF LongRunningLabelled
  <2>1. Complete(fate, {}, map[p], CallLag + CacheDuration + lag[p])
    BY CallFacts DEF CallOK
  <2>2. j \in OnHost /\ j \in Job /\ g \in Gpu /\ g # NoGpu /\ j # NoOwner
    BY CallFacts, AttributionAssumption
  <2>3. CallLag + CacheDuration + lag[p] <= Bound /\ fate[j].t \in Int
        /\ CallLag + CacheDuration + lag[p] \in Int /\ Bound \in Int
    BY <2>2, CallFacts, AttributionAssumption DEF Bound, Fates, Horizon
  <2>4. Old(fate, j, CallLag + CacheDuration + lag[p])
    BY <2>2, <2>3 DEF Old, Running
  <2>5. Given(map[p], g, j)
    BY <2>1, <2>2, <2>4 DEF Complete
  <2>6. map[p][g] # NoOwner /\ (map[p][g] = j \/ g \in OtherGpus[map[p][g]])
    BY <2>2, <2>5 DEF Given
  <2>7. map[p][g] \in Labels(p, g)
    BY <2>2, <2>6 DEF Labels, aggregateSlurmTo
  <2> QED
    BY <2>6, <2>7
<1> QED
  BY <1>1, AttrInvariant, PTL

\* The driver's map gives no GPU to one of several jobs that share it since
\* before the call, for any number of processes and jobs (metadataForGPU).
THEOREM NoOwnerIsArbitrary == AttrSpec => []NoArbitraryOwner
<1>1. AttrInv => NoArbitraryOwner
  <2> SUFFICES ASSUME AttrInv, NEW p \in Pipeline, pc[p] = "label", source = "nvml",
                      NEW g \in Gpu, NEW j \in Labels(p, g), NEW k \in Running \ {j}, g \in Uses[k]
               PROVE  fate[k].t <= CallLag
    BY DEF NoArbitraryOwner
  <2>1. Unshared(fate, map[p], lag[p])
    BY CallFacts DEF CallOK
  <2>2. g # NoGpu /\ k \in OnHost /\ k \in Job
    BY CallFacts, AttributionAssumption
  <2>3. j = map[p][g] /\ j # NoOwner
    BY <2>2 DEF Labels, aggregateSlurmTo
  <2>4. ~ Old(fate, k, lag[p])
    BY <2>1, <2>2, <2>3 DEF Unshared
  <2>5. fate[k].t \in Int /\ lag[p] \in Int /\ lag[p] <= CallLag /\ CallLag \in Int
    BY <2>2, CallFacts, AttributionAssumption DEF Fates, Horizon, Bound
  <2> QED
    BY <2>2, <2>4, <2>5 DEF Old, Running
<1> QED
  BY <1>1, AttrInvariant, PTL
=============================================================================
