---------------------------- MODULE SlurmMonitor ----------------------------
(***************************************************************************)
(* gcm slurm_monitor (gcm/monitoring/cli/slurm_monitor.py): the loop of    *)
(* DataCollection with two tasks that share one sdiag scrape.              *)
(*                                                                         *)
(* collect_slurm scrapes sinfo and sdiag, leaves the sdiag in              *)
(* obj.last_sdiag and yields metrics; collect_sdiag publishes what it      *)
(* finds in obj.last_sdiag.  Both are generators: their bodies run only    *)
(* when, and if, somebody asks for their records.                          *)
(***************************************************************************)
EXTENDS DataCollection

SlurmTask == 1    \* collect_slurm, METRIC
SdiagTask == 2    \* collect_sdiag, LOG

\* data_collection_tasks of main; both get_data only create a generator.
ASSUME TwoLazyTasks == NTasks = 2 /\ Eager = {}

VARIABLES
  last_sdiag,  \* number of the scrape in obj.last_sdiag, 0 for None
  scrapedIn    \* history: scrapedIn[n] is the cycle of the n-th successful scrape

smVars == <<vars, last_sdiag, scrapedIn>>

SMTypeOK ==
  /\ TypeOK
  /\ scrapedIn \in Seq(Nat)
  /\ last_sdiag \in 0..Len(scrapedIn)

SMInit ==
  /\ LoopInit
  /\ last_sdiag = 0
  /\ scrapedIn = <<>>

-----------------------------------------------------------------------------
\* Mutant of InvalidateCache: the previous scrape stays until it is replaced.
KeepCache == last_sdiag' = last_sdiag

\* `obj.last_sdiag = None`, before anything that can fail.
InvalidateCache == last_sdiag' = 0

\* collect_slurm up to its first yield: both scrapes succeed.
CollectSlurmStarts ==
  /\ task = SlurmTask
  /\ GenStarts
  /\ scrapedIn' = Append(scrapedIn, cycle)
  /\ last_sdiag' = Len(scrapedIn')
  /\ UNCHANGED loopVars

\* get_slurm_log yields a metrics record that embeds the scraped sdiag; the
\* scrape is a local variable of collect_slurm, the last one made.
CollectSlurmYields(size) ==
  /\ task = SlurmTask
  /\ YieldRecord(Len(scrapedIn), size)
  /\ UNCHANGED <<last_sdiag, scrapedIn>>

\* The cluster-wide record always comes: the generator ends after one at least.
CollectSlurmEnds ==
  /\ task = SlurmTask
  /\ produced # <<>>
  /\ GenEnds
  /\ UNCHANGED <<loopVars, last_sdiag, scrapedIn>>

\* An exception in collect_slurm: at a scrape, after the cache was
\* invalidated, or later, while the metrics are computed.
CollectSlurmRaises ==
  /\ task = SlurmTask
  /\ GenRaises \/ \E k \in 0..Len(chunk) : ReadFails(k)
  /\ IF gen = "fresh" THEN InvalidateCache ELSE UNCHANGED last_sdiag
  /\ UNCHANGED <<loopVars, scrapedIn>>

\* Mutant of CollectSdiagStarts: it scrapes sdiag a second time.
CollectSdiagScrapes ==
  /\ task = SdiagTask
  /\ GenStarts
  /\ scrapedIn' = Append(scrapedIn, cycle)
  /\ last_sdiag' = Len(scrapedIn')
  /\ UNCHANGED loopVars

\* collect_sdiag reads the cache; without a scrape it yields nothing (the
\* generator ends at once).
CollectSdiagStarts ==
  /\ task = SdiagTask
  /\ GenStarts
  /\ UNCHANGED <<loopVars, last_sdiag, scrapedIn>>

CollectSdiagYields(size) ==
  /\ task = SdiagTask
  /\ last_sdiag # 0
  /\ produced = <<>>
  /\ YieldRecord(last_sdiag, size)
  /\ UNCHANGED <<last_sdiag, scrapedIn>>

CollectSdiagEnds ==
  /\ task = SdiagTask
  /\ last_sdiag # 0 => produced # <<>>
  /\ GenEnds
  /\ UNCHANGED <<loopVars, last_sdiag, scrapedIn>>

\* chunk_size 0: the sink fails on the Sdiag record it has read.
CollectSdiagReadFails ==
  /\ task = SdiagTask
  /\ produced # <<>>
  /\ \E k \in 0..Len(chunk) : ReadFails(k)
  /\ UNCHANGED <<loopVars, last_sdiag, scrapedIn>>

SMCollectorStep ==
  \/ CollectSlurmStarts
  \/ \E n \in Sizes : CollectSlurmYields(n)
  \/ CollectSlurmEnds
  \/ CollectSlurmRaises
  \/ CollectSdiagStarts
  \/ \E n \in Sizes : CollectSdiagYields(n)
  \/ CollectSdiagEnds
  \/ CollectSdiagReadFails

\* Neither get_data returns None or raises: calling a generator function runs
\* none of its body.
SMLoopStep ==
  /\ StartCycle \/ GetData \/ TaskDone \/ TaskRaised \/ Sleep \/ WriteStep \/ Ended
  /\ UNCHANGED <<last_sdiag, scrapedIn>>

SMNext == SMLoopStep \/ SMCollectorStep

SMSpec == SMInit /\ [][SMNext]_smVars /\ WF_smVars(SMNext)

-----------------------------------------------------------------------------
IsSdiag(r) == r.task = SdiagTask

\* An Sdiag row is published only in the cycle in which it was scraped: a
\* failed scrape never lets the row of an earlier cycle out again as a fresh
\* one (slurm_monitor.py:304-306).
NoStaleSdiag ==
  \A i \in DOMAIN delivered :
    IsSdiag(delivered[i]) =>
      /\ delivered[i].src \in DOMAIN scrapedIn
      /\ scrapedIn[delivered[i].src] = delivered[i].cycle

\* At most one Sdiag row reaches the sink per cycle, also when the sink fails
\* halfway and asks for a retry (slurm_monitor.py:362-364).
OneSdiagPerCycle ==
  \A i, j \in DOMAIN delivered :
    /\ IsSdiag(delivered[i]) /\ IsSdiag(delivered[j])
    /\ delivered[i].cycle = delivered[j].cycle
    => i = j

\* Metrics and Sdiag row of one cycle come from the same scrape
\* (slurm_monitor.py:271-273, "no double-scrape, no reset race").
SharedScrape ==
  \A i, j \in DOMAIN delivered :
    delivered[i].cycle = delivered[j].cycle => delivered[i].src = delivered[j].src

\* What a cycle publishes is one snapshot of Slurm: at most one Sdiag row, and
\* no row or metric of another scrape, whichever of the writes failed
\* (collect_slurm, collect_sdiag).
CycleIsOneScrape == OneSdiagPerCycle /\ SharedScrape
=============================================================================
