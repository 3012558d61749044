---------------------------- MODULE RsiMeasured ----------------------------
(***************************************************************************)
(* The measurements that decide in RsiCycle.  Every verdict rests on three *)
(* runs of a benchmark, on the training tasks and on the holdout tasks, of *)
(* the commit a cycle started from and of a candidate on top of it.  The   *)
(* machine is noisy: each time, three runs may give any of the Outcomes.   *)
(*                                                                         *)
(* Abstractions.  Times and memory are natural numbers of some small unit. *)
(* A result that is malformed, infinite or not positive raises or rejects, *)
(* which RsiCycle has.  The score is 100 / (100 + p50), so it orders as the *)
(* p50 does.  The volume of work, constants of the benchmark, is left out, *)
(* and of a change that is generated twice the later measurement counts.   *)
(* `evidence` is a history variable: what `admitted` rests on.             *)
(***************************************************************************)
EXTENDS RsiCycle, FiniteSetsExt

CONSTANTS
  Outcomes,  \* what three runs of the benchmark can give
  MinGain    \* one millisecond

Repeats == 1..3
Cohorts == {"train", "holdout"}

\* What one run reports: median and tail latency, CPU time, peak memory.
Sample == [p50 : Nat, p95 : Nat, cpu : Nat, rss : Nat]

ASSUME OutcomesAssumption == Outcomes \subseteq [Repeats -> Sample] /\ MinGain \in Nat \ {0}

Nothing == <<>>
ASSUME NothingAssumption == Nothing \notin Outcomes /\ Nothing \notin [Cohorts -> Outcomes]

VARIABLES
  base,     \* the outcomes of the baselines of this cycle, by cohort
  found,    \* found[c]: the outcome of candidate c on the training cohort
  evidence  \* what admitted a change

measured == <<base, found, evidence>>

-----------------------------------------------------------------------------
\* Verdicts

Median(x) == x[CHOOSE j \in Repeats :
                 \E i, k \in Repeats \ {j} : i # k /\ x[i] <= x[j] /\ x[j] <= x[k]]

P50(o) == Median([i \in Repeats |-> o[i].p50])
P95(o) == Median([i \in Repeats |-> o[i].p95])
Cpu(o) == Median([i \in Repeats |-> o[i].cpu])
Rss(o) == Max({o[i].rss : i \in Repeats})

Faster(before, after) == after + MinGain <= before /\ 100 * after <= 98 * before
Within(percent, before, after) == 100 * after <= percent * before

\* MUTANT of MaterialGain: one lucky run is enough.
LuckyGain(before, after) ==
  /\ \E i \in Repeats : Faster(P50(before), after[i].p50)
  /\ Within(110, P95(before), P95(after))

MaterialGain(before, after) ==
  /\ Faster(P50(before), P50(after))
  /\ Within(110, P95(before), P95(after))

ResourceGuard(before, after) ==
  /\ Within(105, Cpu(before), Cpu(after))
  /\ Within(110, Rss(before), Rss(after))

Passes(before, after) == MaterialGain(before, after) /\ ResourceGuard(before, after)

\* The key candidates are sorted by.
Ahead(o, p) ==
  \/ P50(o) < P50(p)
  \/ P50(o) = P50(p) /\ P95(o) < P95(p)

\* MUTANT of First: the best score is sorted to the end.
Worst(c) == c \in pool /\ \A d \in pool : ~Ahead(found[c], found[d])

\* No candidate in the pool is ahead of c; which of equals comes first is the
\* order they were generated in.
First(c) == c \in pool /\ \A d \in pool : ~Ahead(found[d], found[c])

-----------------------------------------------------------------------------
\* The measuring steps of run_rsi

\* MUTANT of MeasureBaselines: only the training cohort is measured.
MeasureTrainBaseline ==
  /\ Baseline
  /\ base' \in [{"train"} -> Outcomes]
  /\ UNCHANGED <<found, evidence>>

MeasureBaselines ==
  /\ Baseline
  /\ base' \in [Cohorts -> Outcomes]
  /\ UNCHANGED <<found, evidence>>

\* A candidate that is good enough for the pool.
MeasureTrain(c) ==
  /\ Admissible(c)
  /\ \E o \in Outcomes :
       /\ Passes(base["train"], o)
       /\ found' = [found EXCEPT ![c] = o]
  /\ UNCHANGED <<base, evidence>>

Evidence(c, o) ==
  [change |-> c, under |-> Here, measured |-> baseline, before |-> base,
   after |-> [cohort \in Cohorts |-> IF cohort = "train" THEN found[c] ELSE o]]

\* MUTANT of MeasureHoldout: held against the training baseline.
MeasureHoldoutCrossed(c) ==
  /\ First(c)
  /\ \/ HoldoutRejected(c) /\ UNCHANGED evidence
     \/ /\ Admit(c)
        /\ \E o \in Outcomes :
             /\ Passes(base["train"], o)
             /\ evidence' = evidence \cup {Evidence(c, o)}
  /\ UNCHANGED <<base, found>>

\* The best candidate left is measured on the holdout cohort; it may fail its
\* tests there whatever it measures.
MeasureHoldout(c) ==
  /\ First(c)
  /\ \/ HoldoutRejected(c) /\ UNCHANGED evidence
     \/ /\ Admit(c)
        /\ \E o \in Outcomes :
             /\ Passes(base["holdout"], o)
             /\ evidence' = evidence \cup {Evidence(c, o)}
  /\ UNCHANGED <<base, found>>

\* The measurements are locals of the process.
Forget ==
  /\ Exit \/ Kill
  /\ base' = Nothing /\ found' = [c \in Changes |-> Nothing]
  /\ UNCHANGED evidence

\* Every other step of RsiCycle.
Unmeasured ==
  /\ \/ \E g \in Generators : Start(g)
     \/ StopBudget \/ CheckoutParent \/ Converged \/ RulesApply \/ CreateBranch
     \/ RaiseAtOnce \/ Rejected \/ EndGenerating \/ EndHoldout \/ Commit
     \/ CommitUnreported \/ RaiseInTry \/ Restore \/ Prune
     \/ \E b \in Branches : TidyUp(b)
  /\ UNCHANGED measured

MeasuredInit ==
  /\ Init
  /\ base = Nothing /\ found = [c \in Changes |-> Nothing] /\ evidence = {}

MeasuredNext ==
  \/ MeasureBaselines
  \/ \E c \in Changes : MeasureTrain(c) \/ MeasureHoldout(c)
  \/ Forget
  \/ Unmeasured

MeasuredSpec == MeasuredInit /\ [][MeasuredNext]_<<vars, measured>>

-----------------------------------------------------------------------------
\* Properties

EvidenceType ==
  [change : Changes, under : SUBSET Changes, measured : SUBSET Changes,
   before : [Cohorts -> Outcomes], after : [Cohorts -> Outcomes]]

\* What is measured keeps its type; within a trial both baselines are there, and
\* so is the training outcome of every candidate in the pool.
MeasurementsOK ==
  /\ base \in {Nothing} \cup [Cohorts -> Outcomes]
  /\ found \in [Changes -> {Nothing} \cup Outcomes]
  /\ evidence \subseteq EvidenceType
  /\ pc \in {"generate", "holdout", "commit"} =>
       base # Nothing /\ \A c \in pool : found[c] # Nothing

\* Every variable keeps its type, and no verdict misses a measurement.
MeasuredOK == TypeOK /\ MeasurementsOK

\* The runs but one: what holds of these is not brought about by a single run.
AllButOne == {Repeats \ {i} : i \in Repeats}

\* All runs but one are faster than all but one before, by the gain asked for, and
\* tail, CPU time and memory got worse by no more than is allowed (docs/rsi.md:43,
\* :49).
Improves(before, after) ==
  /\ \E b, a \in AllButOne : \A k \in b, l \in a : Faster(before[k].p50, after[l].p50)
  /\ \E b, a \in AllButOne : \A k \in b, l \in a : Within(110, before[k].p95, after[l].p95)
  /\ \E b, a \in AllButOne : \A k \in b, l \in a : Within(105, before[k].cpu, after[l].cpu)
  /\ \E k \in Repeats : \A l \in Repeats : Within(110, before[k].rss, after[l].rss)

\* Every commit on any branch was faster than the very sources it was put on top
\* of, on the training tasks and on the holdout tasks, and no outlier among the
\* runs of either decided that.
EveryCommitImproves ==
  \A b \in Branches : tips[b] \notin {Absent, {}} =>
    \E e \in evidence :
      /\ tips[b] = e.under \cup {e.change}
      /\ e.under = e.measured
      /\ \A cohort \in Cohorts : Improves(e.before[cohort], e.after[cohort])

\* What is about to be committed was at least as fast in training as every
\* candidate that will now never be tried on the holdout cohort.
UntriedAreSlower ==
  pc = "commit" =>
    \A c \in tree \ Here, d \in pool :
      \E b, a \in AllButOne : \A k \in b, l \in a : found[c][k].p50 <= found[d][l].p50
=============================================================================
