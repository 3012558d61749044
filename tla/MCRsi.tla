------------------------------- MODULE MCRsi -------------------------------
(***************************************************************************)
(* Values for the constants of RsiMeasured: two changes of one file, one   *)
(* of which the rules generator derives, and a noisy machine.              *)
(***************************************************************************)
EXTENDS RsiMeasured

MCFileOf == [c \in Changes |-> "planner"]

Slow == [p50 |-> 100, p95 |-> 120, cpu |-> 95, rss |-> 50]
Quick == [p50 |-> 90, p95 |-> 125, cpu |-> 90, rss |-> 52]
Heavy == [p50 |-> 80, p95 |-> 118, cpu |-> 97, rss |-> 54]

\* A slow outcome and two quick ones, each with a run that says otherwise; the
\* last is the quickest, at a price in CPU time that is too high for the other.
MCOutcomes == {<<Slow, Quick, Slow>>, <<Quick, Slow, Quick>>, <<Heavy, Heavy, Quick>>}

\* Bounds of the runs: nothing is pursued beyond a third admission, nor beyond a
\* third candidate in a cycle of the last run.
FewAdmissions == Cardinality(evidence) <= 2 /\ (run = MaxRuns => tried < Candidates)
=============================================================================
