----------------------------- MODULE MCHarness -----------------------------
(***************************************************************************)
(* Values for the constants of HarnessStore: a task that may be retried    *)
(* once and one that may not, a free resource and one that costs money.    *)
(***************************************************************************)
EXTENDS HarnessStore, TLC

CONSTANTS t1, t2, r1, r2, l1, l2, l3

MCTaskSpecs ==
  {[caps |-> {"python"}, mutation |-> 1, budget |-> 1, retries |-> n] : n \in 0..1}

MCResourceSpecs ==
  {[caps |-> {"python"}, mutation |-> 1, zeroSpend |-> free, limit |-> NoLimit] :
     free \in BOOLEAN}

HarnessSymmetry == Permutations(Tasks) \cup Permutations(Resources) \cup Permutations(Leases)
=============================================================================
