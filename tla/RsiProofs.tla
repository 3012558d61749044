----------------------------- MODULE RsiProofs -----------------------------
(***************************************************************************)
(* Proofs about RsiCycle, for any changes, files, generators and branches, *)
(* any number of cycles and runs, and failures and kills anywhere.         *)
(*                                                                         *)
(* The invariant follows a run through its cycles: which branch is checked *)
(* out where, whether the working tree is clean there, and which branches  *)
(* of the run exist.  A tree that is not clean is only ever left behind by *)
(* a run that has raised, and no cycle begins on one.                      *)
(***************************************************************************)
EXTENDS RsiMeasured, FiniteSetTheorems, TLAPS

Runs == 1..MaxRuns
CycleIds == 1..Cycles

\* The branch of cycle n of run r.
Of(r, n) == <<r, n>>

Before == {"cycle", "rules", "create"}
After == {"restore", "prune"}

\* The branch the cycle at hand builds on.
Last == IF cycle = 1 THEN origin ELSE Of(run, cycle - 1)

\* Branches that exist hold finitely many changes, accepted ones exist, and
\* those of later runs do not.
BranchesOK ==
  /\ \A b \in Branches : tips[b] # Absent => IsFiniteSet(tips[b])
  /\ \A b \in kept : tips[b] # Absent
  /\ \A r \in Runs, n \in CycleIds : r > run => tips[Of(r, n)] = Absent

\* A run works from a branch that is not its own.
RunOK ==
  pc # "idle" =>
    /\ run \in Runs
    /\ tips[origin] # Absent
    /\ \A n \in CycleIds : origin # Of(run, n)

\* Every cycle before this one was accepted, and none behind it has begun.
CycleOK ==
  pc \in Before \cup InTry \cup After =>
    /\ \A n \in CycleIds : n < cycle => Of(run, n) \in kept
    /\ \A n \in CycleIds : n > cycle => tips[Of(run, n)] = Absent
    /\ pc \in Before => tips[Of(run, cycle)] = Absent
    /\ pc \in InTry => ~keep
    /\ pc \notin Before => (Of(run, cycle) \in kept <=> keep)
    /\ pc \in After /\ ~keep => stop \/ raised
    /\ parent = IF pc \in After /\ keep THEN Of(run, cycle) ELSE Last

\* What is checked out.
HeadOK ==
  /\ pc \in {"cycle", "prune"} => head = origin
  /\ pc \in {"rules", "create"} => head = parent
  /\ pc \in InTry \cup {"restore"} => head = Of(run, cycle)

\* Where the working tree is clean.
CleanOK ==
  /\ pc \in Before \cup {"baseline", "generate", "holdout"} => tree = tips[head]
  /\ pc \in After /\ ~raised => tree = tips[head]

\* What is measured and committed builds on the last accepted branch, and a cycle
\* that ends without an error or a commit adds nothing to it.
TrialOK ==
  /\ pc \in InTry => tips[head] = tips[parent]
  /\ pc \in {"generate", "holdout"} => baseline = tips[head]
  /\ pc \in After /\ ~keep /\ ~raised => tips[Of(run, cycle)] = tips[parent]
  /\ pc = "commit" => \E a \in admitted :
       /\ a.under = tips[head] /\ a.baseline = tips[head]
       /\ a.change \notin tips[head] /\ tree = tips[head] \cup {a.change}

\* How a run ends.
DoneOK ==
  /\ pc = "rules" => generator = "rules"
  /\ pc = "done" =>
       /\ \A n \in CycleIds :
            tips[Of(run, n)] # Absent /\ Of(run, n) \notin kept => tips[Of(run, n)] = tips[parent]
       /\ generator = "llm" => head = origin /\ tree = tips[head]

Cumulative ==
  \A r \in Runs, n, m \in CycleIds : Of(r, n) \in kept /\ Of(r, m) \in kept /\ n < m =>
    /\ tips[Of(r, n)] \subseteq tips[Of(r, m)]
    /\ Cardinality(tips[Of(r, m)] \ tips[Of(r, n)]) = m - n

RsiInv ==
  /\ TypeOK /\ BranchesOK /\ RunOK /\ CycleOK /\ HeadOK /\ CleanOK /\ TrialOK /\ DoneOK
  /\ EveryCommitAdmitted /\ Cumulative

USE RsiAssumption

-----------------------------------------------------------------------------
\* Branches, and what a step leaves alone

\* Every cycle of every run has a branch of its own.
LEMMA BranchNames ==
  /\ Main \in Branches
  /\ \A r \in Runs, n \in CycleIds : Of(r, n) \in Branches /\ Of(r, n) # Main
  /\ \A r, n, s, m : Of(r, n) = Of(s, m) => r = s /\ n = m
  /\ \A b \in Branches : b # Main => \E r \in Runs, n \in CycleIds : b = Of(r, n)
  /\ \A r \in Runs, n \in CycleIds : Of(r, n)[1] = r /\ Of(r, n)[2] = n
  /\ Branch = Of(run, cycle)
  BY DEF Branches, Of, Branch, Runs, CycleIds

\* Where branches, accepted branches and admitted changes stay, so does what
\* is said of them.
LEMMA SameBranches ==
  ASSUME TypeOK, BranchesOK, Cumulative, UNCHANGED <<tips, kept>>, run' \in 0..MaxRuns, run <= run'
  PROVE  BranchesOK' /\ Cumulative'
<1>1. BranchesOK'
  BY DEF BranchesOK, TypeOK, Runs
<1>2. Cumulative'
  BY DEF Cumulative
<1> QED
  BY <1>1, <1>2

\* What was admitted stays admitted.
LEMMA SameCommits ==
  ASSUME EveryCommitAdmitted, UNCHANGED tips, admitted \subseteq admitted'
  PROVE  EveryCommitAdmitted'
  BY DEF EveryCommitAdmitted

\* A checkout from a clean tree gives a clean tree.
LEMMA CleanCheckout ==
  ASSUME TypeOK, NEW b \in Branches, tips[b] # Absent, tree = tips[head], Checkout(b)
  PROVE  head' = b /\ tree' = tips[b] /\ UNCHANGED tips
<1>1. tips[b] \in SUBSET Changes
  BY DEF TypeOK
<1>2. tree' = UNION {In(f, tips[b]) : f \in Files}
  BY DEF Checkout, Here
<1>3. UNION {In(f, tips[b]) : f \in Files} = tips[b]
  BY <1>1 DEF In
<1> QED
  BY <1>2, <1>3 DEF Checkout

\* Any checkout keeps to the changes there are.
LEMMA AnyCheckout ==
  ASSUME TypeOK, NEW b \in Branches, tips[b] # Absent, Checkout(b)
  PROVE  head' = b /\ tree' \in SUBSET Changes /\ UNCHANGED tips
<1>1. tips[b] \in SUBSET Changes /\ tree \in SUBSET Changes
  BY DEF TypeOK
<1> QED
  BY <1>1 DEF Checkout, In

-----------------------------------------------------------------------------
\* The steps

\* Nothing has run yet.
LEMMA RsiInit == Init => RsiInv
<1> SUFFICES ASSUME Init PROVE RsiInv
  OBVIOUS
<1>1. tips = [b \in Branches |-> IF b = Main THEN {} ELSE Absent]
  BY DEF Init
<1>2. Main \in Branches /\ tips[Main] = {} /\ \A b \in Branches \ {Main} : tips[b] = Absent
  BY <1>1 DEF Branches
<1>3. {} # Absent
  OBVIOUS
<1>4. TypeOK
  <2>1. tips \in [Branches -> {Absent} \cup SUBSET Changes]
    BY <1>1
  <2>2. head \in Branches /\ tips[head] # Absent
    BY <1>2, <1>3 DEF Init
  <2>3. pc \in PC /\ run \in 0..MaxRuns /\ cycle \in 1..Cycles /\ tried \in 0..Candidates
    BY DEF Init, PC, Candidates
  <2>4. {origin, parent} \subseteq Branches /\ {keep, stop, raised} \subseteq BOOLEAN
    BY <1>2 DEF Init
  <2> QED
    BY <2>1, <2>2, <2>3, <2>4 DEF Init, TypeOK
<1>5. BranchesOK
  BY <1>2, BranchNames, FS_EmptySet DEF Init, BranchesOK
<1>6. RunOK /\ CycleOK /\ HeadOK /\ CleanOK /\ TrialOK /\ DoneOK
  BY DEF Init, RunOK, CycleOK, HeadOK, CleanOK, TrialOK, DoneOK, Before, InTry, After
<1>7. EveryCommitAdmitted
  BY <1>2 DEF EveryCommitAdmitted
<1>8. Cumulative
  BY DEF Init, Cumulative
<1> QED
  BY <1>4, <1>5, <1>6, <1>7, <1>8 DEF RsiInv

\* Steps that leave the repository and the names of the run alone.
Deciding ==
  \/ StopBudget \/ Converged \/ RulesApply \/ RaiseAtOnce \/ Baseline \/ Rejected
  \/ \E c \in Changes : Admissible(c) \/ HoldoutRejected(c)
  \/ EndGenerating \/ EndHoldout \/ RaiseInTry

\* None of them disturbs the invariant.
LEMMA DecidingKeeps ==
  ASSUME RsiInv, Deciding
  PROVE  RsiInv'
<1> USE DEF RsiInv
<1>1. UNCHANGED <<tips, head, tree, run, generator, origin, parent, cycle, keep, admitted, kept>>
  BY DEF Deciding, StopBudget, Converged, RulesApply, RaiseAtOnce, Baseline, Rejected, Admissible,
     HoldoutRejected, EndGenerating, EndHoldout, RaiseInTry, repo, locals, who, place, flags,
     trial, history
<1>2. TypeOK'
  <2>1. pc' \in PC /\ {stop', raised'} \subseteq BOOLEAN
    BY DEF TypeOK, PC, Deciding, StopBudget, Converged, RulesApply, RaiseAtOnce, Baseline, Rejected, Admissible,
     HoldoutRejected, EndGenerating, EndHoldout, RaiseInTry, locals, flags, InTry
  <2>2. baseline' \in SUBSET Changes /\ pool' \in SUBSET Changes /\ tried' \in 0..Candidates
    BY DEF TypeOK, Candidates, Here, Deciding, StopBudget, Converged, RulesApply, RaiseAtOnce, Baseline, Rejected, Admissible,
     HoldoutRejected, EndGenerating, EndHoldout, RaiseInTry, locals, trial
  <2> QED
    BY <1>1, <2>1, <2>2 DEF TypeOK
<1>3. BranchesOK' /\ Cumulative' /\ EveryCommitAdmitted'
  BY <1>1, SameBranches, SameCommits DEF TypeOK
<1>4. /\ pc' \in {"idle", "done", "raised", "create", "generate", "holdout", "restore"}
      /\ pc # "idle"
      /\ pc' = "done" => pc = "cycle" \/ (pc = "rules" /\ generator = "rules")
      /\ pc' = "create" => pc = "rules"
      /\ pc' = "generate" => (pc = "baseline" /\ baseline' = tips[head])
                              \/ (pc = "generate" /\ baseline' = baseline)
      /\ pc' = "holdout" => pc \in {"generate", "holdout"} /\ baseline' = baseline
      /\ pc' = "restore" => /\ pc \in InTry
                            /\ stop' \/ raised'
                            /\ pc = "commit" => raised'
  BY DEF DoneOK, Here, Deciding, StopBudget, Converged, RulesApply, RaiseAtOnce, Baseline, Rejected, Admissible,
     HoldoutRejected, EndGenerating, EndHoldout, RaiseInTry, locals, trial, InTry
<1>5. RunOK'
  BY <1>1, <1>4 DEF RunOK
<1>6. CycleOK'
  BY <1>1, <1>4 DEF CycleOK, Last, Before, InTry, After
<1>7. HeadOK'
  BY <1>1, <1>4 DEF HeadOK, InTry
<1>8. CleanOK'
  BY <1>1, <1>4 DEF CleanOK, Before, InTry, After
<1>9. TrialOK'
  BY <1>1, <1>4 DEF TrialOK, HeadOK, InTry, After
<1>10. DoneOK'
  <2>1. CASE pc' = "done" /\ pc = "cycle"
    <3>1. \A n \in CycleIds : n < cycle \/ n = cycle \/ n > cycle
      BY DEF TypeOK, CycleIds
    <3> QED
      BY <2>1, <3>1, <1>1 DEF DoneOK, CycleOK, Before, HeadOK, CleanOK
  <2>2. CASE pc' = "done" /\ pc = "rules"
    <3>1. \A n \in CycleIds : n < cycle \/ n = cycle \/ n > cycle
      BY DEF TypeOK, CycleIds
    <3> QED
      BY <2>2, <3>1, <1>1 DEF DoneOK, CycleOK, Before
  <2> QED
    BY <2>1, <2>2, <1>4 DEF DoneOK
<1> QED
  BY <1>2, <1>3, <1>5, <1>6, <1>7, <1>8, <1>9, <1>10

\* A run begins on a clean tree, and its branches do not exist yet.
LEMMA StartKeeps ==
  ASSUME RsiInv, NEW g \in Generators, Start(g)
  PROVE  RsiInv'
<1> USE DEF RsiInv
<1>1. /\ UNCHANGED <<tips, head, tree, admitted, kept>>
      /\ pc' = "cycle" /\ run' = run + 1 /\ run < MaxRuns /\ generator' = g
      /\ origin' = head /\ parent' = head /\ cycle' = 1
      /\ keep' = FALSE /\ stop' = FALSE /\ raised' = FALSE
      /\ baseline' = {} /\ tried' = 0 /\ pool' = {} /\ tree = tips[head]
  BY DEF Start, repo, history, Clean, Here
<1>2. run' \in 0..MaxRuns /\ run' \in Runs /\ run <= run' /\ run' > run
  BY <1>1 DEF TypeOK, Runs
<1>3. TypeOK'
  <2>1. pc' \in PC /\ cycle' \in 1..Cycles /\ tried' \in 0..Candidates
    BY <1>1 DEF PC, Candidates
  <2>2. {origin', parent'} \subseteq Branches /\ {keep', stop', raised'} \subseteq BOOLEAN
    BY <1>1 DEF TypeOK
  <2> QED
    BY <2>1, <2>2, <1>1, <1>2 DEF TypeOK
<1>4. BranchesOK' /\ Cumulative' /\ EveryCommitAdmitted'
  BY <1>1, <1>2, SameBranches, SameCommits
<1>5. \A n \in CycleIds : tips[Of(run', n)] = Absent
  BY <1>2 DEF BranchesOK
<1>6. tips[head] # Absent
  BY DEF TypeOK
<1>7. RunOK'
  BY <1>1, <1>2, <1>5, <1>6 DEF RunOK
<1>8. CycleOK'
  <2>1. 1 \in CycleIds /\ \A n \in CycleIds : ~(n < 1)
    BY DEF CycleIds
  <2> QED
    BY <1>1, <1>5, <2>1 DEF CycleOK, Last, Before, InTry, After
<1>9. HeadOK' /\ CleanOK' /\ TrialOK' /\ DoneOK'
  BY <1>1 DEF HeadOK, CleanOK, TrialOK, DoneOK, Before, InTry, After
<1> QED
  BY <1>3, <1>4, <1>7, <1>8, <1>9

\* The parent exists, and is checked out clean.
LEMMA CheckoutKeeps ==
  ASSUME RsiInv, CheckoutParent
  PROVE  RsiInv'
<1> USE DEF RsiInv
<1>1. /\ pc = "cycle" /\ Checkout(parent)
      /\ pc' = IF generator = "rules" THEN "rules" ELSE "create"
      /\ UNCHANGED <<run, generator, origin, parent, cycle, keep, stop, raised, baseline, tried,
                     pool, admitted, kept>>
  BY DEF CheckoutParent, locals, history, who, place, flags, trial
<1>2. parent \in Branches /\ tips[parent] # Absent
  <2>1. parent = Last
    BY <1>1 DEF CycleOK, Before, After
  <2>2. CASE cycle = 1
    BY <1>1, <2>1, <2>2 DEF Last, RunOK, TypeOK
  <2>3. CASE cycle # 1
    <3>1. cycle - 1 \in CycleIds /\ cycle - 1 < cycle
      BY <2>3 DEF TypeOK, CycleIds
    <3>2. Of(run, cycle - 1) \in kept
      BY <1>1, <3>1 DEF CycleOK, Before
    <3> QED
      BY <2>1, <2>3, <3>2 DEF Last, TypeOK, BranchesOK
  <2> QED
    BY <2>2, <2>3
<1>3. tree = tips[head]
  BY <1>1 DEF CleanOK, Before
<1>4. head' = parent /\ tree' = tips[parent] /\ UNCHANGED tips
  BY <1>1, <1>2, <1>3, CleanCheckout
<1>5. TypeOK'
  BY <1>1, <1>2, <1>4 DEF TypeOK, PC
<1>6. BranchesOK' /\ Cumulative' /\ EveryCommitAdmitted'
  BY <1>1, <1>4, SameBranches, SameCommits DEF TypeOK
<1>7. RunOK'
  BY <1>1, <1>4 DEF RunOK
<1>8. CycleOK'
  BY <1>1, <1>4 DEF CycleOK, Last, Before, InTry, After
<1>9. HeadOK' /\ CleanOK' /\ TrialOK' /\ DoneOK'
  BY <1>1, <1>4 DEF HeadOK, CleanOK, TrialOK, DoneOK, Before, InTry, After
<1> QED
  BY <1>5, <1>6, <1>7, <1>8, <1>9

\* A new branch holds what its parent holds.
LEMMA CreateKeeps ==
  ASSUME RsiInv, CreateBranch
  PROVE  RsiInv'
<1> USE DEF RsiInv
<1> DEFINE b == Of(run, cycle)
<1>1. /\ pc = "create" /\ pc' = "baseline" /\ keep' = FALSE
      /\ tips[b] = Absent /\ tips' = [tips EXCEPT ![b] = tips[head]] /\ head' = b
      /\ UNCHANGED <<tree, run, generator, origin, parent, cycle, stop, raised, baseline, tried,
                     pool, admitted, kept>>
  BY BranchNames DEF CreateBranch, Here, who, place, trial, history
<1>2. /\ run \in Runs /\ cycle \in CycleIds /\ b \in Branches /\ b # Main /\ b \notin kept
      /\ head = parent /\ tree = tips[head] /\ head # b
      /\ head \in Branches /\ tips[head] # Absent /\ tips[head] \in SUBSET Changes
  BY <1>1, BranchNames DEF RunOK, TypeOK, CycleIds, BranchesOK, HeadOK, CleanOK, Before
<1>3. /\ tips'[b] = tips[head] /\ \A d \in Branches \ {b} : tips'[d] = tips[d]
      /\ tips' \in [Branches -> {Absent} \cup SUBSET Changes]
  BY <1>1, <1>2 DEF TypeOK
<1>4. TypeOK'
  BY <1>1, <1>2, <1>3 DEF TypeOK, PC
<1>5. \A r \in Runs, n \in CycleIds : Of(r, n) # b => tips'[Of(r, n)] = tips[Of(r, n)]
  BY <1>3, BranchNames
<1>6. BranchesOK'
  <2>1. \A r \in Runs, n \in CycleIds : r > run => Of(r, n) # b
    BY <1>2, BranchNames DEF Runs
  <2> QED
    BY <1>1, <1>2, <1>3, <1>5, <2>1 DEF BranchesOK, TypeOK
<1>7. \A d \in kept : tips'[d] = tips[d]
  BY <1>2, <1>3 DEF TypeOK
<1>8. Cumulative'
  BY <1>1, <1>7 DEF Cumulative
<1>9. EveryCommitAdmitted'
  BY <1>1, <1>2, <1>3 DEF EveryCommitAdmitted
<1>10. RunOK'
  <2>1. origin # b /\ origin \in Branches
    BY <1>1, <1>2 DEF RunOK, TypeOK
  <2> QED
    BY <2>1, <1>1, <1>3 DEF RunOK
<1>11. CycleOK'
  <2>1. \A n \in CycleIds : n > cycle => Of(run, n) # b
    BY <1>2, BranchNames DEF CycleIds
  <2> HIDE DEF b
  <2>2. b' = b
    BY <1>1 DEF b
  <2> QED
    BY <2>1, <2>2, <1>1, <1>2, <1>5 DEF CycleOK, Last, Before, InTry, After, b
<1>12. HeadOK' /\ CleanOK' /\ DoneOK'
  BY <1>1, <1>2, <1>3 DEF HeadOK, CleanOK, DoneOK, Before, InTry, After
<1>13. TrialOK'
  BY <1>1, <1>2, <1>3 DEF TrialOK, After
<1> QED
  BY <1>4, <1>6, <1>8, <1>9, <1>10, <1>11, <1>12, <1>13

\* An admitted change is applied to the sources its baselines were measured on.
LEMMA AdmitKeeps ==
  ASSUME RsiInv, NEW c \in Changes, Admit(c)
  PROVE  RsiInv'
<1> USE DEF RsiInv
<1> DEFINE new == [change |-> c, under |-> tips[head], baseline |-> baseline]
<1>1. /\ pc = "holdout" /\ pool' = pool \ {c} /\ admitted' = admitted \cup {new}
      /\ \/ c \notin tree /\ tree' = tree \cup {c} /\ pc' = "commit"
         \/ UNCHANGED <<tree, pc>>
      /\ UNCHANGED <<tips, head, run, generator, origin, parent, cycle, keep, stop, raised,
                     baseline, tried, kept>>
  BY DEF Admit, Here, who, place, flags
<1>2. tree = tips[head] /\ baseline = tips[head] /\ tips[head] \in SUBSET Changes
  BY <1>1 DEF CleanOK, TrialOK, TypeOK
<1>3. /\ new \in [change : Changes, under : SUBSET Changes, baseline : SUBSET Changes]
      /\ new.change = c /\ new.under = tips[head] /\ new.baseline = tips[head]
  BY <1>2
<1> HIDE DEF new
<1>4. TypeOK'
  BY <1>1, <1>2, <1>3 DEF TypeOK, PC
<1>5. BranchesOK' /\ Cumulative' /\ EveryCommitAdmitted'
  BY <1>1, SameBranches, SameCommits DEF TypeOK
<1>6. RunOK' /\ HeadOK' /\ DoneOK'
  BY <1>1 DEF RunOK, HeadOK, DoneOK, InTry
<1>7. CycleOK'
  BY <1>1 DEF CycleOK, Last, Before, InTry, After
<1>8. CleanOK'
  BY <1>1, <1>2 DEF CleanOK, Before, InTry, After
<1>9. TrialOK'
  <2>1. tips'[head'] = tips'[parent']
    BY <1>1 DEF TrialOK, InTry
  <2>2. CASE c \notin tree /\ tree' = tree \cup {c} /\ pc' = "commit"
    <3>1. /\ new.under = tips'[head'] /\ new.baseline = tips'[head']
          /\ new.change \notin tips'[head'] /\ tree' = tips'[head'] \cup {new.change}
          /\ new \in admitted'
      BY <2>2, <1>1, <1>2, <1>3
    <3> QED
      BY <2>1, <2>2, <3>1 DEF TrialOK, After, InTry
  <2>3. CASE UNCHANGED <<tree, pc>>
    BY <2>1, <2>3, <1>1, <1>2 DEF TrialOK
  <2> QED
    BY <1>1, <2>2, <2>3
<1> QED
  BY <1>4, <1>5, <1>6, <1>7, <1>8, <1>9

\* What a commit does, whether or not it counts.
Committing ==
  /\ pc = "commit" /\ pc' = "restore"
  /\ tips' = [tips EXCEPT ![head] = tree]
  /\ UNCHANGED <<head, tree, run, generator, origin, cycle, stop, baseline, tried, pool, admitted>>
  /\ \/ /\ keep' = TRUE /\ parent' = Of(run, cycle) /\ kept' = kept \cup {Of(run, cycle)}
        /\ UNCHANGED raised
     \/ raised' = TRUE /\ UNCHANGED <<keep, parent, kept>>

\* It moves the branch of the cycle at hand, by one admitted change.
LEMMA CommittedTips ==
  ASSUME RsiInv, Committing
  PROVE  /\ head = Of(run, cycle) /\ run \in Runs /\ cycle \in CycleIds
         /\ head \notin kept /\ head # Main /\ head # origin
         /\ parent = Last
         /\ tips'[head] = tree /\ tree \in SUBSET Changes
         /\ \A d \in Branches \ {head} : tips'[d] = tips[d]
         /\ tips' \in [Branches -> {Absent} \cup SUBSET Changes]
         /\ \E a \in admitted :
              /\ a.under = tips[parent] /\ a.baseline = tips[parent]
              /\ a.change \notin tips[parent] /\ tree = tips[parent] \cup {a.change}
<1> USE DEF RsiInv
<1>1. head = Of(run, cycle) /\ run \in Runs /\ cycle \in CycleIds
  BY DEF Committing, HeadOK, InTry, RunOK, TypeOK, CycleIds
<1>2. head \notin kept /\ parent = Last
  BY <1>1 DEF Committing, CycleOK, InTry, Before, After
<1>3. head # Main /\ head # origin
  BY <1>1, BranchNames DEF Committing, RunOK
<1>4. /\ tips'[head] = tree /\ tree \in SUBSET Changes
      /\ \A d \in Branches \ {head} : tips'[d] = tips[d]
      /\ tips' \in [Branches -> {Absent} \cup SUBSET Changes]
  BY DEF Committing, TypeOK
<1>5. \E a \in admitted :
        /\ a.under = tips[parent] /\ a.baseline = tips[parent]
        /\ a.change \notin tips[parent] /\ tree = tips[parent] \cup {a.change}
  BY DEF Committing, TrialOK, InTry
<1> QED
  BY <1>1, <1>2, <1>3, <1>4, <1>5

\* The branch that a cycle builds on is the origin or the one before.
LEMMA LastExists ==
  ASSUME RsiInv, pc \in Before \cup InTry
  PROVE  /\ Last \in Branches /\ tips[Last] # Absent
         /\ cycle > 1 => /\ cycle - 1 \in CycleIds /\ Last = Of(run, cycle - 1)
                         /\ Last \in kept
<1> USE DEF RsiInv
<1>1. pc # "idle"
  BY DEF Before, InTry
<1>2. CASE cycle = 1
  BY <1>1, <1>2 DEF Last, RunOK, TypeOK
<1>3. CASE cycle > 1
  <2>1. cycle - 1 \in CycleIds /\ cycle - 1 < cycle
    BY <1>3 DEF TypeOK, CycleIds
  <2>2. Of(run, cycle - 1) \in kept
    BY <2>1 DEF CycleOK
  <2> QED
    BY <1>3, <2>1, <2>2 DEF Last, TypeOK, BranchesOK
<1> QED
  BY <1>2, <1>3 DEF TypeOK

\* A commit adds one change to the last accepted branch.
LEMMA CommitCumulative ==
  ASSUME RsiInv, Committing
  PROVE  Cumulative'
<1> USE DEF RsiInv
<1> PICK a \in admitted :
      /\ a.change \notin tips[parent] /\ tree = tips[parent] \cup {a.change}
  BY CommittedTips
<1>1. kept' \subseteq kept \cup {head} /\ UNCHANGED run
  BY CommittedTips DEF Committing
<1>2. \A d \in kept : tips'[d] = tips[d] /\ d \in Branches
  BY CommittedTips DEF TypeOK
<1> SUFFICES ASSUME NEW r \in Runs, NEW n \in CycleIds, NEW m \in CycleIds,
                    Of(r, n) \in kept', Of(r, m) \in kept', n < m
             PROVE  /\ tips'[Of(r, n)] \subseteq tips'[Of(r, m)]
                    /\ Cardinality(tips'[Of(r, m)] \ tips'[Of(r, n)]) = m - n
  BY DEF Cumulative
<1>3. Of(r, n) # head
  <2> SUFFICES ASSUME Of(r, n) = head PROVE FALSE
    OBVIOUS
  <2>1. r = run /\ n = cycle /\ m > cycle
    BY CommittedTips, BranchNames DEF CycleIds
  <2>2. Of(run, m) # head
    BY <2>1, CommittedTips, BranchNames DEF CycleIds
  <2>3. tips[Of(run, m)] # Absent
    BY <2>1, <2>2, <1>1 DEF BranchesOK
  <2> QED
    BY <2>1, <2>3 DEF CycleOK, InTry, Committing
<1>4. Of(r, n) \in kept /\ tips'[Of(r, n)] = tips[Of(r, n)]
  BY <1>1, <1>2, <1>3
<1>5. CASE Of(r, m) # head
  BY <1>1, <1>2, <1>4, <1>5 DEF Cumulative
<1>6. CASE Of(r, m) = head
  <2>1. r = run /\ m = cycle /\ cycle > 1 /\ tips'[Of(r, m)] = tips[parent] \cup {a.change}
    BY <1>6, CommittedTips, BranchNames DEF CycleIds
  <2>2. /\ parent = Of(run, cycle - 1) /\ cycle - 1 \in CycleIds /\ parent \in kept
        /\ IsFiniteSet(tips[parent])
    BY <2>1, LastExists, CommittedTips DEF Committing, InTry, BranchesOK
  <2>0. n \in Nat /\ m \in Nat /\ cycle \in Nat
    BY <2>1, CommittedTips DEF CycleIds
  <2>3. CASE n = cycle - 1
    <3>1. tips'[Of(r, m)] \ tips'[Of(r, n)] = {a.change}
      BY <2>1, <2>2, <2>3, <1>4
    <3>2. Cardinality({a.change}) = 1
      BY FS_Singleton
    <3>3. m - n = 1
      BY <2>0, <2>1, <2>3
    <3>4. tips'[Of(r, n)] \subseteq tips'[Of(r, m)]
      BY <2>1, <2>2, <2>3, <1>4
    <3> QED
      BY <3>1, <3>2, <3>3, <3>4
  <2>4. CASE n < cycle - 1
    <3> DEFINE D == tips[parent] \ tips[Of(r, n)]
    <3>1. tips[Of(r, n)] \subseteq tips[parent] /\ Cardinality(D) = cycle - 1 - n
      <4>1. /\ Of(r, cycle - 1) \in kept /\ n < cycle - 1 /\ n \in CycleIds
            /\ cycle - 1 \in CycleIds /\ r \in Runs /\ Of(r, cycle - 1) = parent
        BY <2>1, <2>2, <2>4
      <4> QED
        BY <4>1, <1>4 DEF Cumulative
    <3>2. tips'[Of(r, m)] \ tips'[Of(r, n)] = D \cup {a.change} /\ a.change \notin D
      BY <2>1, <3>1, <1>4
    <3>3. IsFiniteSet(D)
      BY <2>2, FS_Subset
    <3>4. Cardinality(D \cup {a.change}) = Cardinality(D) + 1
      BY <3>2, <3>3, FS_AddElement
    <3> HIDE DEF D
    <3> QED
      <4>1. (cycle - 1 - n) + 1 = m - n
        BY <2>0, <2>1
      <4>2. tips'[Of(r, n)] \subseteq tips'[Of(r, m)]
        BY <2>1, <3>1, <1>4
      <4>3. Cardinality(D \cup {a.change}) = m - n
        BY <3>1, <3>4, <4>1
      <4> QED
        BY <3>2, <4>2, <4>3
  <2> QED
    BY <2>0, <2>1, <2>3, <2>4
<1> QED
  BY <1>5, <1>6

\* A commit keeps the invariant: what is committed was admitted on the parent.
LEMMA CommitKeeps ==
  ASSUME RsiInv, Committing
  PROVE  RsiInv'
<1> USE DEF RsiInv
<1>1. TypeOK'
  <2>1. Of(run, cycle) \in Branches \ {Main}
    BY CommittedTips, BranchNames
  <2>2. {parent'} \subseteq Branches /\ keep' \in BOOLEAN /\ raised' \in BOOLEAN
        /\ kept' \in SUBSET (Branches \ {Main})
    BY <2>1 DEF Committing, TypeOK
  <2>3. tips'[head] # Absent
    BY CommittedTips
  <2> QED
    BY <2>2, <2>3, CommittedTips DEF Committing, TypeOK, PC
<1>2. BranchesOK'
  <2>1. IsFiniteSet(tree)
    <3>1. IsFiniteSet(tips[parent])
      BY CommittedTips, LastExists DEF Committing, InTry, BranchesOK
    <3> QED
      BY <3>1, CommittedTips, FS_AddElement
  <2>2. tree # Absent
    BY CommittedTips
  <2>3. \A r \in Runs, n \in CycleIds : r > run => Of(r, n) # head /\ Of(r, n) \in Branches
    BY CommittedTips, BranchNames DEF Runs
  <2>4. kept \subseteq Branches /\ kept' \subseteq kept \cup {head}
    BY CommittedTips DEF Committing, TypeOK
  <2>5. UNCHANGED run
    BY DEF Committing
  <2> QED
    BY <2>1, <2>2, <2>3, <2>4, <2>5, CommittedTips DEF BranchesOK
<1>3. EveryCommitAdmitted'
  BY CommittedTips, ZenonT(60) DEF EveryCommitAdmitted, Committing
<1>4. RunOK'
  BY CommittedTips DEF RunOK, Committing, TypeOK
<1>5. CycleOK'
  <2>1. /\ \A n \in CycleIds : n < cycle => Of(run, n) \in kept
        /\ \A n \in CycleIds : n > cycle => tips[Of(run, n)] = Absent
        /\ ~keep /\ Of(run, cycle) \notin kept /\ parent = Last
    BY CommittedTips DEF CycleOK, Committing, InTry
  <2>2. \A n \in CycleIds : n > cycle => Of(run, n) # head /\ Of(run, n) \in Branches
    BY CommittedTips, BranchNames DEF CycleIds
  <2>3. \A n \in CycleIds : n > cycle => tips'[Of(run, n)] = Absent
    BY <2>1, <2>2, CommittedTips
  <2> QED
    BY <2>1, <2>3 DEF CycleOK, Last, Before, InTry, After, Committing
<1>6. HeadOK' /\ CleanOK' /\ TrialOK' /\ DoneOK'
  BY CommittedTips DEF HeadOK, CleanOK, TrialOK, DoneOK, Before, InTry, After, Committing, TypeOK
<1> QED
  BY <1>1, <1>2, <1>3, <1>4, <1>5, <1>6, CommitCumulative
\* A commit whose name is read back counts, one whose name is not does not.
LEMMA CommitsAreCommitting ==
  ASSUME Commit \/ CommitUnreported
  PROVE  Committing
  BY BranchNames DEF Commit, CommitUnreported, Committing, who, place, trial, flags, history, repo

\* The origin is checked out again, or the run ends with an error.
LEMMA RestoreKeeps ==
  ASSUME RsiInv, Restore
  PROVE  RsiInv'
<1> USE DEF RsiInv
<1>1. /\ pc = "restore"
      /\ \/ Checkout(origin) /\ pc' = "prune"
         \/ pc' = "raised" /\ UNCHANGED <<tips, head, tree>>
      /\ UNCHANGED <<run, generator, origin, parent, cycle, keep, stop, raised, baseline, tried,
                     pool, admitted, kept>>
  BY DEF Restore, repo, locals, history, who, place, flags, trial
<1>2. origin \in Branches /\ tips[origin] # Absent
  BY <1>1 DEF RunOK, TypeOK
<1>3. UNCHANGED tips
  BY <1>1, <1>2, AnyCheckout
<1>4. TypeOK'
  <2>1. head' \in Branches /\ tips[head'] # Absent /\ tree' \in SUBSET Changes
    BY <1>1, <1>2, AnyCheckout DEF TypeOK
  <2> QED
    BY <1>1, <1>3, <2>1 DEF TypeOK, PC
<1>5. BranchesOK' /\ Cumulative' /\ EveryCommitAdmitted'
  BY <1>1, <1>3, SameBranches, SameCommits DEF TypeOK
<1>6. RunOK' /\ TrialOK' /\ DoneOK'
  BY <1>1, <1>3 DEF RunOK, TrialOK, DoneOK, InTry, After
<1>7. CycleOK'
  BY <1>1, <1>3 DEF CycleOK, Last, Before, InTry, After
<1>8. HeadOK'
  BY <1>1, <1>2, AnyCheckout DEF HeadOK, InTry
<1>9. CleanOK'
  <2>1. CASE Checkout(origin) /\ pc' = "prune" /\ ~raised
    BY <2>1, <1>1, <1>2, CleanCheckout DEF CleanOK, After, Before
  <2> QED
    BY <2>1, <1>1 DEF CleanOK, After, Before
<1> QED
  BY <1>4, <1>5, <1>6, <1>7, <1>8, <1>9

\* A rejected branch goes, or stays as it was created; another cycle follows only an accepted one.
LEMMA PruneKeeps ==
  ASSUME RsiInv, Prune
  PROVE  RsiInv'
<1> USE DEF RsiInv
<1> DEFINE b == Of(run, cycle)
<1>1. /\ pc = "prune"
      /\ tips' = tips \/ (~keep /\ tips' = [tips EXCEPT ![b] = Absent])
      /\ pc' = IF raised THEN "raised" ELSE IF stop \/ cycle = Cycles THEN "done" ELSE "cycle"
      /\ cycle' = IF pc' = "cycle" THEN cycle + 1 ELSE cycle
      /\ UNCHANGED <<head, tree, run, generator, origin, parent, keep, stop, raised, baseline,
                     tried, pool, admitted, kept>>
  BY BranchNames DEF Prune, DeleteUnlessKept, who, flags, trial, history
<1>2. /\ run \in Runs /\ cycle \in CycleIds /\ b \in Branches /\ b # Main
      /\ head = origin /\ origin # b /\ origin \in Branches /\ tips[origin] # Absent
  BY <1>1, BranchNames DEF RunOK, TypeOK, CycleIds, HeadOK
<1>3. /\ b \in kept <=> keep
      /\ ~keep => stop \/ raised
      /\ parent = IF keep THEN b ELSE Last
      /\ \A n \in CycleIds : n < cycle => Of(run, n) \in kept
      /\ \A n \in CycleIds : n > cycle => tips[Of(run, n)] = Absent
  BY <1>1 DEF CycleOK, Before, InTry, After
<1>4. /\ \A d \in Branches \ {b} : tips'[d] = tips[d]
      /\ \A d \in Branches : tips'[d] = tips[d] \/ tips'[d] = Absent
      /\ tips' \in [Branches -> {Absent} \cup SUBSET Changes]
  BY <1>1, <1>2 DEF TypeOK
<1>5. \A d \in kept : d \in Branches /\ tips'[d] = tips[d]
  BY <1>1, <1>3, <1>4 DEF TypeOK
<1> HIDE DEF b
<1>6. cycle' \in CycleIds /\ cycle \in Nat /\ cycle' \in Nat
  BY <1>1, <1>2 DEF CycleIds
<1>7. TypeOK'
  BY <1>1, <1>2, <1>4, <1>6 DEF TypeOK, PC, CycleIds
<1>8. BranchesOK'
  <2>1. \A r \in Runs, n \in CycleIds : Of(r, n) \in Branches
    BY BranchNames
  <2> QED
    BY <1>1, <1>4, <1>5, <2>1 DEF BranchesOK
<1>9. Cumulative'
  BY <1>1, <1>5, ZenonT(60) DEF Cumulative
<1>10. EveryCommitAdmitted'
  BY <1>1, <1>4 DEF EveryCommitAdmitted
<1>11. RunOK'
  BY <1>1, <1>2, <1>4 DEF RunOK
<1>12. CASE pc' = "cycle"
  <2>1. keep /\ ~raised /\ cycle' = cycle + 1 /\ cycle < cycle' /\ parent = b /\ b \in kept
        /\ tips' = tips
    BY <1>1, <1>3, <1>6, <1>12
  <2>2. \A n \in CycleIds : n < cycle' => Of(run, n) \in kept
    BY <2>1, <1>3, <1>6 DEF CycleIds, b
  <2>3. \A n \in CycleIds : n >= cycle' => tips'[Of(run, n)] = Absent
    BY <2>1, <1>3, <1>6 DEF CycleIds
  <2>4. Last' = b
    <3>1. cycle' # 1 /\ cycle' - 1 = cycle
      BY <2>1, <1>2, <1>6 DEF CycleIds
    <3> QED
      BY <3>1, <1>1 DEF Last, b, Of
  <2>5. CycleOK'
    <3>1. \A n \in CycleIds : n > cycle' => n >= cycle'
      BY <1>6 DEF CycleIds
    <3>2. cycle' >= cycle'
      BY <1>6
    <3> QED
      BY <1>1, <1>6, <1>12, <2>1, <2>2, <2>3, <2>4, <3>1, <3>2 DEF CycleOK, Before, InTry, After
  <2>6. HeadOK' /\ CleanOK' /\ TrialOK' /\ DoneOK'
    BY <1>1, <1>2, <1>12, <2>1 DEF HeadOK, CleanOK, TrialOK, DoneOK, Before, InTry, After
  <2> QED
    BY <2>5, <2>6, <1>7, <1>8, <1>9, <1>10, <1>11
<1>13. CASE pc' # "cycle"
  <2>1. pc' \in {"done", "raised"} /\ cycle' = cycle /\ (pc' = "done" => ~raised)
    BY <1>1, <1>13
  <2>2. CycleOK' /\ HeadOK' /\ CleanOK' /\ TrialOK'
    BY <2>1 DEF CycleOK, HeadOK, CleanOK, TrialOK, Before, InTry, After
  <2>3. ASSUME pc' = "done", NEW n \in CycleIds, tips'[Of(run, n)] # Absent, Of(run, n) \notin kept
        PROVE  tips'[Of(run, n)] = tips'[parent]
    <3>1. n < cycle \/ n = cycle \/ n > cycle
      BY <1>6 DEF CycleIds
    <3>2. Of(run, n) \in Branches
      BY <1>2, BranchNames
    <3>3. CASE n > cycle
      BY <2>3, <3>3, <3>2, <1>3, <1>4
    <3>4. CASE n = cycle
      <4>1. ~keep /\ ~raised /\ tips[b] = tips[parent] /\ parent = Last
        BY <2>3, <3>4, <1>1, <1>3, <2>1 DEF TrialOK, After, b
      <4>2. tips'[b] = tips[b]
        BY <2>3, <3>2, <3>4, <1>4 DEF b
      <4>3. parent \in Branches /\ parent # b
        <5>1. CASE cycle = 1
          BY <5>1, <4>1, <1>2 DEF Last
        <5>2. CASE cycle # 1
          BY <5>2, <4>1, <1>2, <1>3, BranchNames DEF Last, b, CycleIds, TypeOK
        <5> QED
          BY <5>1, <5>2
      <4> QED
        BY <3>4, <4>1, <4>2, <4>3, <1>4 DEF b
    <3> QED
      BY <2>3, <3>1, <3>3, <3>4, <1>3
  <2>4. pc' = "done" => tree = tips'[head]
    BY <2>1, <1>1, <1>2, <1>4 DEF CleanOK, After
  <2>5. DoneOK'
    BY <1>1, <1>2, <2>1, <2>3, <2>4 DEF DoneOK
  <2> QED
    BY <2>2, <2>5, <1>7, <1>8, <1>9, <1>10, <1>11
<1> QED
  BY <1>12, <1>13

\* A run that ends or is killed leaves the checkout as it is.
LEMMA LeaveKeeps ==
  ASSUME RsiInv, Leave
  PROVE  RsiInv'
<1> USE DEF RsiInv
<1>1. /\ pc' = "idle" /\ generator' = "llm" /\ origin' = Main /\ parent' = Main /\ cycle' = 1
      /\ keep' = FALSE /\ stop' = FALSE /\ raised' = FALSE
      /\ baseline' = {} /\ tried' = 0 /\ pool' = {}
      /\ UNCHANGED <<tips, head, tree, run, admitted, kept>>
  BY DEF Leave, repo, history
<1>2. TypeOK'
  <2>1. pc' \in PC /\ cycle' \in 1..Cycles /\ tried' \in 0..Candidates
    BY <1>1 DEF PC, Candidates
  <2>2. {origin', parent'} \subseteq Branches /\ {keep', stop', raised'} \subseteq BOOLEAN
    BY <1>1, BranchNames
  <2> QED
    BY <2>1, <2>2, <1>1 DEF TypeOK
<1>3. BranchesOK' /\ Cumulative' /\ EveryCommitAdmitted'
  BY <1>1, SameBranches, SameCommits DEF TypeOK
<1>4. RunOK' /\ CycleOK' /\ HeadOK' /\ CleanOK' /\ TrialOK' /\ DoneOK'
  BY <1>1 DEF RunOK, CycleOK, HeadOK, CleanOK, TrialOK, DoneOK, Before, InTry, After
<1> QED
  BY <1>2, <1>3, <1>4

\* So does the operator, but for what is checked out.
LEMMA TidyKeeps ==
  ASSUME RsiInv, NEW b \in Branches, TidyUp(b)
  PROVE  RsiInv'
<1> USE DEF RsiInv
<1>1. /\ pc = "idle" /\ tips[b] # Absent /\ head' = b /\ tree' = tips[b]
      /\ UNCHANGED <<tips, pc, run, generator, origin, parent, cycle, keep, stop, raised,
                     baseline, tried, pool, admitted, kept>>
  BY DEF TidyUp, locals, history, who, place, flags, trial
<1>2. TypeOK'
  BY <1>1 DEF TypeOK
<1>3. BranchesOK' /\ Cumulative' /\ EveryCommitAdmitted'
  BY <1>1, SameBranches, SameCommits DEF TypeOK
<1>4. RunOK' /\ CycleOK' /\ HeadOK' /\ CleanOK' /\ TrialOK' /\ DoneOK'
  BY <1>1 DEF RunOK, CycleOK, HeadOK, CleanOK, TrialOK, DoneOK, Before, InTry, After
<1> QED
  BY <1>2, <1>3, <1>4

\* Nothing that the invariant speaks of changes when no step is taken.
LEMMA StutterKeeps ==
  ASSUME RsiInv, UNCHANGED vars
  PROVE  RsiInv'
<1> USE DEF RsiInv
<1>1. UNCHANGED <<tips, head, tree, pc, run, generator, origin, parent, cycle, keep, stop, raised,
                  baseline, tried, pool, admitted, kept>>
  BY DEF vars, repo, locals, who, place, flags, trial, history
<1>2. TypeOK' /\ BranchesOK' /\ Cumulative' /\ EveryCommitAdmitted'
  BY <1>1 DEF TypeOK, BranchesOK, Cumulative, EveryCommitAdmitted
<1>3. RunOK' /\ CycleOK' /\ HeadOK' /\ CleanOK' /\ TrialOK' /\ DoneOK'
  BY <1>1 DEF RunOK, CycleOK, HeadOK, CleanOK, TrialOK, DoneOK, Last
<1> QED
  BY <1>2, <1>3

-----------------------------------------------------------------------------
\* The specification

\* Every step keeps the invariant.
LEMMA RsiNext == RsiInv /\ [Next]_vars => RsiInv'
<1> SUFFICES ASSUME RsiInv, [Next]_vars PROVE RsiInv'
  OBVIOUS
<1>1. ASSUME NEW g \in Generators, Start(g) PROVE RsiInv'
  BY <1>1, StartKeeps
<1>2. CASE Deciding
  BY <1>2, DecidingKeeps
<1>3. CASE CheckoutParent
  BY <1>3, CheckoutKeeps
<1>4. CASE CreateBranch
  BY <1>4, CreateKeeps
<1>5. ASSUME NEW c \in Changes, Admit(c) PROVE RsiInv'
  BY <1>5, AdmitKeeps
<1>6. CASE Commit \/ CommitUnreported
  BY <1>6, CommitsAreCommitting, CommitKeeps
<1>7. CASE Restore
  BY <1>7, RestoreKeeps
<1>8. CASE Prune
  BY <1>8, PruneKeeps
<1>9. CASE Exit \/ Kill
  BY <1>9, LeaveKeeps DEF Exit, Kill
<1>10. ASSUME NEW b \in Branches, TidyUp(b) PROVE RsiInv'
  BY <1>10, TidyKeeps
<1>11. CASE UNCHANGED vars
  BY <1>11, StutterKeeps
<1> QED
  BY <1>1, <1>2, <1>3, <1>4, <1>5, <1>6, <1>7, <1>8, <1>9, <1>10, <1>11
     DEF Next, Working, Deciding

\* In every run, from whatever an earlier one left behind.
THEOREM RsiInvariant == Spec => []RsiInv
  BY RsiInit, RsiNext, PTL DEF Spec

\* Every variable keeps its type.
THEOREM RsiTyped == Spec => []TypeOK
<1>1. RsiInv => TypeOK
  BY DEF RsiInv
<1> QED
  BY <1>1, RsiInvariant, PTL

\* Every commit is an admitted change on top of what its baselines measured,
\* however earlier runs ended: nothing else in the tree slips in.
THEOREM EveryCommitAdmittedHolds == Spec => []EveryCommitAdmitted
<1>1. RsiInv => EveryCommitAdmitted
  BY DEF RsiInv
<1> QED
  BY <1>1, RsiInvariant, PTL

\* The accepted branches of a run hold each other's changes, one more each.
THEOREM AcceptedCumulativeHolds == Spec => []AcceptedCumulative
<1>1. RsiInv => AcceptedCumulative
  <2> SUFFICES ASSUME RsiInv, NEW b \in kept, NEW d \in kept, b[1] = d[1], b[2] < d[2]
               PROVE  tips[b] \subseteq tips[d] /\ Cardinality(tips[d] \ tips[b]) = d[2] - b[2]
    BY DEF AcceptedCumulative
  <2>1. b \in Branches \ {Main} /\ d \in Branches \ {Main}
    BY DEF RsiInv, TypeOK
  <2>2. PICK r \in Runs, n \in CycleIds : b = Of(r, n)
    BY <2>1, BranchNames
  <2>3. PICK s \in Runs, m \in CycleIds : d = Of(s, m)
    BY <2>1, BranchNames
  <2>4. b[1] = r /\ b[2] = n /\ d[1] = s /\ d[2] = m
    BY <2>2, <2>3, BranchNames
  <2> QED
    BY <2>2, <2>3, <2>4 DEF RsiInv, Cumulative
<1> QED
  BY <1>1, RsiInvariant, PTL

\* A run of the llm generator that ends by itself leaves the origin checked out
\* and clean, and nothing new on a branch that was not accepted, also where git
\* failed to delete it.
THEOREM EndsWhereItBeganHolds == Spec => []EndsWhereItBegan
<1>1. RsiInv => EndsWhereItBegan
  BY DEF RsiInv, DoneOK, EndsWhereItBegan, Clean, Here, Of, CycleIds
<1> QED
  BY <1>1, RsiInvariant, PTL

\* Main and the accepted branches never move.
THEOREM AcceptedStayHolds == Spec => AcceptedStay
<1> DEFINE Stay == \A b \in kept \cup {Main} : tips'[b] = tips[b]
<1>1. RsiInv /\ [Next]_vars => [Stay]_vars
  <2> SUFFICES ASSUME RsiInv, [Next]_vars, NEW b \in kept \cup {Main} PROVE tips'[b] = tips[b]
    OBVIOUS
  <2>1. TypeOK /\ b \in Branches
    BY BranchNames DEF RsiInv, TypeOK
  <2>2. CASE UNCHANGED tips
    BY <2>2
  <2>3. CASE Commit \/ CommitUnreported
    BY <2>1, <2>3, CommitsAreCommitting, CommittedTips
  <2>4. CASE CreateBranch
    <3>1. /\ tips' = [tips EXCEPT ![Of(run, cycle)] = Here] /\ tips[Of(run, cycle)] = Absent
          /\ run \in Runs /\ cycle \in CycleIds
      BY <2>4, BranchNames DEF CreateBranch, RsiInv, TypeOK, RunOK, CycleIds
    <3>2. b # Of(run, cycle)
      BY <3>1, BranchNames DEF RsiInv, BranchesOK
    <3> QED
      BY <2>1, <3>1, <3>2 DEF TypeOK
  <2>5. CASE Prune
    <3>1. /\ tips' = tips \/ (~keep /\ tips' = [tips EXCEPT ![Of(run, cycle)] = Absent])
          /\ run \in Runs /\ cycle \in CycleIds /\ (Of(run, cycle) \in kept <=> keep)
      BY <2>5, BranchNames DEF Prune, DeleteUnlessKept, RsiInv, TypeOK, RunOK, CycleOK, CycleIds, Before, InTry, After
    <3>2. ~keep => b # Of(run, cycle)
      BY <3>1, BranchNames
    <3> QED
      BY <2>1, <3>1, <3>2 DEF TypeOK
  <2>6. CASE Deciding
    BY <2>6 DEF Deciding, StopBudget, Converged, RulesApply, RaiseAtOnce, Baseline, Rejected,
       Admissible, HoldoutRejected, EndGenerating, EndHoldout, RaiseInTry, repo
  <2>7. CASE CheckoutParent \/ Restore \/ Exit \/ Kill
    BY <2>7 DEF CheckoutParent, Restore, Checkout, Exit, Kill, Leave, repo
  <2>8. CASE \/ \E g \in Generators : Start(g)
             \/ \E c \in Changes : Admit(c)
             \/ \E d \in Branches : TidyUp(d)
    BY <2>8 DEF Start, Admit, TidyUp, repo
  <2>9. CASE UNCHANGED vars
    BY <2>9 DEF vars, repo
  <2> QED
    BY <2>3, <2>4, <2>5, <2>6, <2>7, <2>8, <2>9 DEF Next, Working, Deciding
<1> QED
  BY <1>1, RsiInvariant, PTL DEF Spec, AcceptedStay

-----------------------------------------------------------------------------
\* Every run has a bounded number of steps

\* The pool holds candidates of this cycle, each of which was generated.
PoolOK == IsFiniteSet(pool) /\ Cardinality(pool) <= tried

\* What a step does to the pool.
LEMMA PoolSteps ==
  ASSUME TypeOK, [Next]_vars
  PROVE  \/ UNCHANGED <<pool, tried>>
         \/ pool' = {} /\ tried' = 0
         \/ pool' = pool /\ tried' = tried + 1
         \/ \E c \in Changes : pool' = pool \cup {c} /\ tried' = tried + 1
         \/ \E c \in pool : pool' = pool \ {c} /\ tried' = tried
<1> USE DEF locals, trial
<1>1. ASSUME NEW g \in Generators, Start(g) PROVE pool' = {} /\ tried' = 0
  BY <1>1 DEF Start
<1>2. ASSUME Baseline \/ Exit \/ Kill PROVE pool' = {} /\ tried' = 0
  BY <1>2 DEF Baseline, Exit, Kill, Leave
<1>3. ASSUME NEW c \in Changes, Admissible(c)
      PROVE  pool' = pool \cup {c} /\ tried' = tried + 1
  BY <1>3 DEF Admissible
<1>4. ASSUME NEW c \in Changes, HoldoutRejected(c) \/ Admit(c)
      PROVE  c \in pool /\ pool' = pool \ {c} /\ tried' = tried
  BY <1>4 DEF HoldoutRejected, Admit
<1>5. ASSUME Rejected PROVE pool' = pool /\ tried' = tried + 1
  BY <1>5 DEF Rejected
<1>6. ASSUME \/ StopBudget \/ CheckoutParent \/ Converged \/ RulesApply \/ CreateBranch
             \/ RaiseAtOnce \/ EndGenerating \/ EndHoldout \/ Commit \/ CommitUnreported
             \/ RaiseInTry \/ Restore \/ Prune
      PROVE  UNCHANGED <<pool, tried>>
  BY <1>6 DEF StopBudget, CheckoutParent, Converged, RulesApply, CreateBranch, RaiseAtOnce,
              EndGenerating, EndHoldout, Commit, CommitUnreported, RaiseInTry, Restore, Prune
<1>7. ASSUME (\E b \in Branches : TidyUp(b)) \/ UNCHANGED vars PROVE UNCHANGED <<pool, tried>>
  BY <1>7 DEF TidyUp, vars
<1> QED
  BY <1>1, <1>2, <1>3, <1>4, <1>5, <1>6, <1>7 DEF Next, Working

LEMMA PoolNext == TypeOK /\ PoolOK /\ [Next]_vars => PoolOK'
<1> SUFFICES ASSUME TypeOK, PoolOK, [Next]_vars PROVE PoolOK'
  OBVIOUS
<1> USE DEF PoolOK
<1>1. tried \in Nat /\ Cardinality(pool) \in Nat /\ IsFiniteSet(pool)
  BY FS_CardinalityType DEF TypeOK, Candidates
<1>2. CASE UNCHANGED <<pool, tried>>
  BY <1>2
<1>3. CASE pool' = {} /\ tried' = 0
  BY <1>3, FS_EmptySet
<1>4. CASE pool' = pool /\ tried' = tried + 1
  BY <1>1, <1>4
<1>5. ASSUME NEW c \in Changes, pool' = pool \cup {c}, tried' = tried + 1 PROVE PoolOK'
  <2>1. /\ IsFiniteSet(pool \cup {c})
        /\ Cardinality(pool \cup {c}) = IF c \in pool THEN Cardinality(pool) ELSE Cardinality(pool) + 1
    BY <1>1, FS_AddElement
  <2>2. IsFiniteSet(pool') /\ Cardinality(pool') <= tried'
    BY <1>1, <1>5, <2>1
  <2> QED
    BY <2>2
<1>6. ASSUME NEW c \in pool, pool' = pool \ {c}, tried' = tried PROVE PoolOK'
  <2>1. /\ IsFiniteSet(pool \ {c})
        /\ Cardinality(pool \ {c}) = Cardinality(pool) - 1
    BY <1>1, FS_RemoveElement
  <2>2. IsFiniteSet(pool') /\ Cardinality(pool') <= tried'
    BY <1>1, <1>6, <2>1
  <2> QED
    BY <2>2
<1> QED
  BY <1>2, <1>3, <1>4, <1>5, <1>6, PoolSteps

\* Every step of a run, or the kill that ends it, leaves less ahead of it.
LEMMA StepsFall ==
  ASSUME TypeOK, PoolOK, Next, pc # "idle"
  PROVE  StepsLeft' \in 0..(StepsLeft - 1)
<1> DEFINE cycles == CycleSteps * (Cycles - cycle)
<1>1. /\ cycle \in 1..Cycles /\ tried \in 0..3 /\ pc \in PC
      /\ cycles \in Nat
      /\ IsFiniteSet(pool) /\ Cardinality(pool) \in Nat /\ Cardinality(pool) <= 3
  BY FS_CardinalityType DEF TypeOK, PoolOK, Candidates, CycleSteps
<1>2. StepsLeft \in Nat /\ StepsLeft > 0
  BY <1>1 DEF StepsLeft, PC, CycleSteps, Candidates
<1>3. ASSUME Exit \/ Kill PROVE StepsLeft' = 0
  BY <1>3 DEF Exit, Kill, Leave, StepsLeft
<1>4. ASSUME pc \notin {"idle", "done", "raised"}, pc' \in {"done", "raised"}
      PROVE  StepsLeft' = 1 /\ StepsLeft > 1
  BY <1>1, <1>4 DEF StepsLeft, PC, CycleSteps, Candidates
<1>5. ASSUME StopBudget \/ Converged \/ RaiseAtOnce PROVE StepsLeft' \in 0..(StepsLeft - 1)
  <2>1. pc \notin {"idle", "done", "raised"} /\ pc' \in {"done", "raised"}
    BY <1>5 DEF StopBudget, Converged, RaiseAtOnce
  <2> QED
    BY <1>2, <1>4, <2>1
<1>6. ASSUME CheckoutParent \/ RulesApply \/ CreateBranch \/ Baseline
      PROVE  StepsLeft' \in 0..(StepsLeft - 1)
  <2>1. /\ cycle' = cycle
        /\ \/ pc = "cycle" /\ pc' \in {"rules", "create"}
           \/ pc = "rules" /\ pc' = "create"
           \/ pc = "create" /\ pc' = "baseline"
           \/ pc = "baseline" /\ pc' = "generate" /\ tried' = 0
    BY <1>6 DEF CheckoutParent, RulesApply, CreateBranch, Baseline, locals, place, flags
  <2> QED
    BY <1>1, <2>1 DEF StepsLeft, CycleSteps, Candidates
<1>7. ASSUME Rejected \/ \E c \in Changes : Admissible(c)
      PROVE  StepsLeft' \in 0..(StepsLeft - 1)
  <2>1. pc = "generate" /\ pc' = pc /\ cycle' = cycle /\ tried < 3 /\ tried' = tried + 1
    BY <1>7 DEF Rejected, Admissible, place, Candidates
  <2> QED
    BY <1>1, <2>1 DEF StepsLeft, CycleSteps, Candidates
<1>8. ASSUME EndGenerating PROVE StepsLeft' \in 0..(StepsLeft - 1)
  <2>1. pc = "generate" /\ pc' \in {"restore", "holdout"} /\ cycle' = cycle /\ pool' = pool
    BY <1>8 DEF EndGenerating, place, trial
  <2>2. Cardinality(pool)' = Cardinality(pool) /\ Cardinality(pool) <= tried
    BY <2>1 DEF PoolOK
  <2> QED
    BY <1>1, <2>1, <2>2 DEF StepsLeft, CycleSteps, Candidates
<1>9. ASSUME NEW c \in Changes, HoldoutRejected(c) \/ Admit(c)
      PROVE  StepsLeft' \in 0..(StepsLeft - 1)
  <2>1. /\ pc = "holdout" /\ pc' \in {"holdout", "commit"} /\ cycle' = cycle
        /\ c \in pool /\ pool' = pool \ {c}
    BY <1>9 DEF HoldoutRejected, Admit, place
  <2>2. Cardinality(pool)' = Cardinality(pool) - 1 /\ Cardinality(pool)' \in Nat
    BY <1>1, <2>1, FS_RemoveElement, FS_CardinalityType
  <2> QED
    BY <1>1, <2>1, <2>2 DEF StepsLeft, CycleSteps, Candidates
<1>10. ASSUME EndHoldout \/ Commit \/ CommitUnreported \/ RaiseInTry
       PROVE  StepsLeft' \in 0..(StepsLeft - 1)
  <2>1. pc \in InTry /\ pc' = "restore" /\ cycle' = cycle
    BY <1>10 DEF EndHoldout, Commit, CommitUnreported, RaiseInTry, place, InTry
  <2> QED
    BY <1>1, <2>1 DEF StepsLeft, CycleSteps, Candidates, InTry
<1>11. ASSUME Restore PROVE StepsLeft' \in 0..(StepsLeft - 1)
  <2>1. pc = "restore" /\ pc' \in {"prune", "raised"} /\ cycle' = cycle
    BY <1>11 DEF Restore, locals, place
  <2> QED
    BY <1>1, <2>1 DEF StepsLeft, CycleSteps, Candidates
<1>12. ASSUME Prune PROVE StepsLeft' \in 0..(StepsLeft - 1)
  <2>1. /\ pc = "prune"
        /\ \/ pc' \in {"raised", "done"}
           \/ pc' = "cycle" /\ cycle # Cycles /\ cycle' = cycle + 1
    BY <1>12 DEF Prune
  <2> QED
    BY <1>1, <2>1 DEF StepsLeft, CycleSteps, Candidates
<1>13. ~(\E g \in Generators : Start(g)) /\ ~(\E b \in Branches : TidyUp(b))
  BY DEF Start, TidyUp
<1> QED
  BY <1>2, <1>3, <1>5, <1>6, <1>7, <1>8, <1>9, <1>10, <1>11, <1>12, <1>13 DEF Next, Working

\* A run ends after a number of steps fixed by --cycles, whatever fails in it.
THEOREM RunCountsDownHolds == Spec => RunCountsDown
<1>1. Init => PoolOK
  BY FS_EmptySet DEF Init, PoolOK
<1>2. Spec => []PoolOK
  BY <1>1, PoolNext, RsiTyped, PTL DEF Spec
<1>3. TypeOK /\ PoolOK /\ [Next]_vars => [pc # "idle" => StepsLeft' \in 0..(StepsLeft - 1)]_vars
  BY StepsFall
<1> QED
  BY <1>2, <1>3, RsiTyped, PTL DEF Spec, RunCountsDown

-----------------------------------------------------------------------------
\* Measurements

\* RsiMeasured only adds measurements to RsiCycle.
LEMMA MeasuredSteps == [MeasuredNext]_<<vars, measured>> => [Next]_vars
<1>1. ASSUME MeasureBaselines PROVE Next
  BY <1>1 DEF MeasureBaselines, Next, Working
<1>2. ASSUME NEW c \in Changes, MeasureTrain(c) \/ MeasureHoldout(c) PROVE Next
  BY <1>2 DEF MeasureTrain, MeasureHoldout, Next, Working
<1>3. ASSUME Forget PROVE Next
  BY <1>3 DEF Forget, Next, Working
<1>4. ASSUME Unmeasured PROVE Next
  BY <1>4 DEF Unmeasured, Next, Working
<1> QED
  BY <1>1, <1>2, <1>3, <1>4 DEF MeasuredNext

\* So what holds of the one holds of the other.
LEMMA MeasuredRuns == MeasuredSpec => Spec
<1>1. MeasuredInit => Init
  BY DEF MeasuredInit
<1> QED
  BY <1>1, MeasuredSteps, PTL DEF MeasuredSpec, Spec

\* One of three numbers lies between the others, and is the median.
LEMMA MedianBetween ==
  ASSUME NEW x \in [Repeats -> Nat]
  PROVE  \E i, j, k \in Repeats :
           i # j /\ j # k /\ i # k /\ x[i] <= x[j] /\ x[j] <= x[k] /\ Median(x) = x[j]
<1> DEFINE P(j) == \E i, k \in Repeats \ {j} : i # k /\ x[i] <= x[j] /\ x[j] <= x[k]
<1>1. \E j \in Repeats : P(j)
  <2>1. x[1] \in Nat /\ x[2] \in Nat /\ x[3] \in Nat /\ 1 \in Repeats /\ 2 \in Repeats /\ 3 \in Repeats
    BY DEF Repeats
  <2>2. CASE (x[1] <= x[2] /\ x[2] <= x[3]) \/ (x[3] <= x[2] /\ x[2] <= x[1])
    BY <2>1, <2>2
  <2>3. CASE (x[2] <= x[1] /\ x[1] <= x[3]) \/ (x[3] <= x[1] /\ x[1] <= x[2])
    BY <2>1, <2>3
  <2>4. CASE (x[1] <= x[3] /\ x[3] <= x[2]) \/ (x[2] <= x[3] /\ x[3] <= x[1])
    BY <2>1, <2>4
  <2> QED
    BY <2>1, <2>2, <2>3, <2>4
<1> DEFINE m == CHOOSE j \in Repeats : P(j)
<1>2. m \in Repeats /\ P(m)
  BY <1>1
<1>3. Median(x) = x[m]
  BY DEF Median
<1> HIDE DEF m
<1> QED
  BY <1>2, <1>3

\* All but one of three numbers are at least their median, and all but one are
\* at most it.
LEMMA MedianSides ==
  ASSUME NEW x \in [Repeats -> Nat], NEW y \in [Repeats -> Nat]
  PROVE  /\ Median(x) \in Nat /\ Median(y) \in Nat
         /\ \E b, a \in AllButOne : \A k \in b, l \in a :
              /\ k \in Repeats /\ Median(x) <= x[k]
              /\ l \in Repeats /\ y[l] <= Median(y)
<1>1. PICK a, b, c \in Repeats :
        a # b /\ b # c /\ a # c /\ x[a] <= x[b] /\ x[b] <= x[c] /\ Median(x) = x[b]
  BY MedianBetween
<1>2. PICK d, e, f \in Repeats :
        d # e /\ e # f /\ d # f /\ y[d] <= y[e] /\ y[e] <= y[f] /\ Median(y) = y[e]
  BY MedianBetween
<1>3. \A k \in Repeats \ {a} : Median(x) <= x[k]
  BY <1>1 DEF Repeats
<1>4. \A l \in Repeats \ {f} : y[l] <= Median(y)
  BY <1>2 DEF Repeats
<1>5. Repeats \ {a} \in AllButOne /\ Repeats \ {f} \in AllButOne
  BY DEF AllButOne
<1>6. Median(x) \in Nat /\ Median(y) \in Nat
  BY <1>1, <1>2
<1> QED
  BY <1>3, <1>4, <1>5, <1>6

\* The largest of three numbers is one of them.
LEMMA PeakIsOne ==
  ASSUME NEW o \in [Repeats -> Sample]
  PROVE  /\ \E k \in Repeats : Rss(o) = o[k].rss
         /\ \A l \in Repeats : o[l].rss <= Rss(o)
<1> DEFINE S == {o[i].rss : i \in Repeats}
<1>1. \A i \in Repeats : o[i].rss \in Nat
  BY DEF Sample
<1>2. \E m \in S : \A s \in S : m >= s
  <2>1. \E i \in Repeats : \A j \in Repeats : o[i].rss >= o[j].rss
    BY <1>1 DEF Repeats
  <2> QED
    BY <2>1
<1>3. Rss(o) \in S /\ \A s \in S : Rss(o) >= s
  BY <1>2 DEF Rss, Max
<1> QED
  BY <1>1, <1>3

\* A difference of medians does not rest on one run of three.
LEMMA PassesImproves ==
  ASSUME NEW before \in Outcomes, NEW after \in Outcomes, Passes(before, after)
  PROVE  Improves(before, after)
<1>1. before \in [Repeats -> Sample] /\ after \in [Repeats -> Sample] /\ MinGain \in Nat
  BY OutcomesAssumption
<1> DEFINE p50(o) == [i \in Repeats |-> o[i].p50]
           p95(o) == [i \in Repeats |-> o[i].p95]
           cpu(o) == [i \in Repeats |-> o[i].cpu]
<1>2. ASSUME NEW o \in [Repeats -> Sample]
      PROVE  {p50(o), p95(o), cpu(o)} \subseteq [Repeats -> Nat] /\ \A i \in Repeats : o[i].rss \in Nat
  BY DEF Sample
<1>3. \E b, a \in AllButOne : \A k \in b, l \in a : Faster(before[k].p50, after[l].p50)
  <2>1. PICK b, a \in AllButOne : \A k \in b, l \in a :
          /\ k \in Repeats /\ P50(before) <= p50(before)[k]
          /\ l \in Repeats /\ p50(after)[l] <= P50(after)
    BY <1>1, <1>2, MedianSides DEF P50
  <2>2. P50(before) \in Nat /\ P50(after) \in Nat
    BY <1>1, <1>2, MedianSides DEF P50
  <2>3. Faster(P50(before), P50(after))
    BY DEF Passes, MaterialGain
  <2>4. ASSUME NEW k \in b, NEW l \in a
        PROVE  Faster(before[k].p50, after[l].p50)
    <3>1. before[k].p50 \in Nat /\ after[l].p50 \in Nat
      BY <1>1, <2>1 DEF Sample
    <3>2. P50(before) <= before[k].p50 /\ after[l].p50 <= P50(after)
      BY <2>1
    <3> QED
      BY <1>1, <2>2, <2>3, <3>1, <3>2 DEF Faster
  <2> QED
    BY <2>4
<1>4. \E b, a \in AllButOne : \A k \in b, l \in a : Within(110, before[k].p95, after[l].p95)
  <2>1. PICK b, a \in AllButOne : \A k \in b, l \in a :
          /\ k \in Repeats /\ P95(before) <= p95(before)[k]
          /\ l \in Repeats /\ p95(after)[l] <= P95(after)
    BY <1>1, <1>2, MedianSides DEF P95
  <2>2. P95(before) \in Nat /\ P95(after) \in Nat
    BY <1>1, <1>2, MedianSides DEF P95
  <2>3. Within(110, P95(before), P95(after))
    BY DEF Passes, MaterialGain
  <2>4. ASSUME NEW k \in b, NEW l \in a
        PROVE  Within(110, before[k].p95, after[l].p95)
    <3>1. before[k].p95 \in Nat /\ after[l].p95 \in Nat
      BY <1>1, <2>1 DEF Sample
    <3>2. P95(before) <= before[k].p95 /\ after[l].p95 <= P95(after)
      BY <2>1
    <3> QED
      BY <2>2, <2>3, <3>1, <3>2 DEF Within
  <2> QED
    BY <2>4
<1>5. \E b, a \in AllButOne : \A k \in b, l \in a : Within(105, before[k].cpu, after[l].cpu)
  <2>1. PICK b, a \in AllButOne : \A k \in b, l \in a :
          /\ k \in Repeats /\ Cpu(before) <= cpu(before)[k]
          /\ l \in Repeats /\ cpu(after)[l] <= Cpu(after)
    BY <1>1, <1>2, MedianSides DEF Cpu
  <2>2. Cpu(before) \in Nat /\ Cpu(after) \in Nat
    BY <1>1, <1>2, MedianSides DEF Cpu
  <2>3. Within(105, Cpu(before), Cpu(after))
    BY DEF Passes, ResourceGuard
  <2>4. ASSUME NEW k \in b, NEW l \in a
        PROVE  Within(105, before[k].cpu, after[l].cpu)
    <3>1. before[k].cpu \in Nat /\ after[l].cpu \in Nat
      BY <1>1, <2>1 DEF Sample
    <3>2. Cpu(before) <= before[k].cpu /\ after[l].cpu <= Cpu(after)
      BY <2>1
    <3> QED
      BY <2>2, <2>3, <3>1, <3>2 DEF Within
  <2> QED
    BY <2>4
<1>6. \E k \in Repeats : \A l \in Repeats : Within(110, before[k].rss, after[l].rss)
  <2>1. PICK k \in Repeats : Rss(before) = before[k].rss
    BY <1>1, PeakIsOne
  <2>2. \A l \in Repeats : after[l].rss <= Rss(after) /\ after[l].rss \in Nat
    BY <1>1, <1>2, PeakIsOne
  <2>3. before[k].rss \in Nat /\ Rss(after) \in Nat
    BY <1>1, <1>2, PeakIsOne
  <2>4. Within(110, Rss(before), Rss(after))
    BY DEF Passes, ResourceGuard
  <2> QED
    BY <2>1, <2>2, <2>3, <2>4 DEF Within
<1> QED
  BY <1>3, <1>4, <1>5, <1>6 DEF Improves

-----------------------------------------------------------------------------
\* What the measurements decide

\* The candidates in the pool passed on the training cohort.
PoolPassed == pc \in {"generate", "holdout"} => \A c \in pool : Passes(base["train"], found[c])

\* What counts as evidence passed on both, and every admission rests on some.
EvidenceOK ==
  /\ \A e \in evidence, cohort \in Cohorts : Passes(e.before[cohort], e.after[cohort])
  /\ \A a \in admitted : \E e \in evidence :
       e.change = a.change /\ e.under = a.under /\ e.measured = a.baseline

\* No candidate left in the pool is ahead of the one to be committed.
BestOK ==
  pc = "commit" => \A c \in tree \ Here :
    c \in Changes /\ found[c] # Nothing /\ \A d \in pool : ~Ahead(found[d], found[c])

MeasuredInv == MeasurementsOK /\ PoolPassed /\ EvidenceOK /\ BestOK

LEMMA MeasuredStart == MeasuredInit => MeasuredInv
  BY DEF MeasuredInit, Init, MeasuredInv, MeasurementsOK, PoolPassed, EvidenceOK, BestOK

\* A cycle measures its baselines first, with no candidate in the pool.
LEMMA BaselinesMeasured == MeasuredInv /\ MeasureBaselines => MeasuredInv'
<1> SUFFICES ASSUME MeasuredInv, MeasureBaselines PROVE MeasuredInv'
  OBVIOUS
<1>1. /\ pc' = "generate" /\ pool' = {} /\ base' \in [Cohorts -> Outcomes]
      /\ UNCHANGED <<found, evidence, admitted>>
  BY DEF MeasureBaselines, Baseline, history
<1> QED
  BY <1>1, NothingAssumption DEF MeasuredInv, MeasurementsOK, PoolPassed, EvidenceOK, BestOK

\* A candidate enters the pool with the outcome that it passed with.
LEMMA TrainMeasured ==
  ASSUME TypeOK, MeasuredInv, NEW c \in Changes, MeasureTrain(c)
  PROVE  MeasuredInv'
<1>1. PICK o \in Outcomes : Passes(base["train"], o) /\ found' = [found EXCEPT ![c] = o]
  BY DEF MeasureTrain
<1>2. /\ pc = "generate" /\ pc' = pc /\ pool' = pool \cup {c} /\ pool \subseteq Changes
      /\ UNCHANGED <<base, evidence, admitted>>
  BY DEF MeasureTrain, Admissible, history, TypeOK
<1>3. /\ found' \in [Changes -> {Nothing} \cup Outcomes]
      /\ found'[c] = o /\ \A d \in pool : d # c => found'[d] = found[d]
  BY <1>1, <1>2 DEF MeasuredInv, MeasurementsOK
<1>4. MeasurementsOK'
  BY <1>1, <1>2, <1>3, NothingAssumption DEF MeasuredInv, MeasurementsOK
<1>5. PoolPassed'
  BY <1>1, <1>2, <1>3 DEF MeasuredInv, PoolPassed
<1>6. EvidenceOK' /\ BestOK'
  BY <1>2 DEF MeasuredInv, EvidenceOK, BestOK
<1> QED
  BY <1>4, <1>5, <1>6 DEF MeasuredInv

\* A candidate leaves the pool before those it is ahead of, and with evidence
\* of both cohorts when it is admitted.
LEMMA HoldoutMeasured ==
  ASSUME RsiInv, MeasuredInv, NEW c \in Changes, MeasureHoldout(c)
  PROVE  MeasuredInv'
<1>1. /\ pc = "holdout" /\ c \in pool /\ First(c) /\ pool' = pool \ {c} /\ pool \subseteq Changes
      /\ UNCHANGED <<base, found, tips, head>> /\ pc' \in {"holdout", "commit"}
  BY DEF MeasureHoldout, HoldoutRejected, Admit, repo, RsiInv, TypeOK
<1>2. /\ base \in [Cohorts -> Outcomes] /\ found[c] \in Outcomes
      /\ Passes(base["train"], found[c])
  BY <1>1 DEF MeasuredInv, MeasurementsOK, PoolPassed
<1>3. PoolPassed'
  BY <1>1 DEF MeasuredInv, PoolPassed
<1>4. CASE HoldoutRejected(c) /\ UNCHANGED evidence
  <2>1. pc' = "holdout" /\ UNCHANGED admitted
    BY <1>1, <1>4 DEF HoldoutRejected, history
  <2> QED
    BY <1>1, <1>3, <1>4, <2>1 DEF MeasuredInv, MeasurementsOK, EvidenceOK, BestOK
<1>5. CASE Admit(c) /\ \E o \in Outcomes :
                           /\ Passes(base["holdout"], o)
                           /\ evidence' = evidence \cup {Evidence(c, o)}
  <2>1. PICK o \in Outcomes :
          /\ Passes(base["holdout"], o)
          /\ evidence' = evidence \cup {Evidence(c, o)}
    BY <1>5
  <2> DEFINE e == Evidence(c, o)
             after == [cohort \in Cohorts |-> IF cohort = "train" THEN found[c] ELSE o]
  <2>2. after \in [Cohorts -> Outcomes] /\ after["train"] = found[c] /\ after["holdout"] = o
    BY <1>2 DEF Cohorts
  <2>3. /\ e.change = c /\ e.under = Here /\ e.measured = baseline
        /\ e.before = base /\ e.after = after
    BY DEF Evidence
  <2>4. e \in EvidenceType
    <3>1. Here \in SUBSET Changes /\ baseline \in SUBSET Changes
      BY DEF RsiInv, TypeOK, Here
    <3> QED
      BY <1>2, <2>2, <3>1 DEF Evidence, EvidenceType
  <2>5. \A cohort \in Cohorts : Passes(e.before[cohort], e.after[cohort])
    BY <1>2, <2>1, <2>2, <2>3 DEF Cohorts
  <2>6. admitted' = admitted \cup {[change |-> c, under |-> Here, baseline |-> baseline]}
    BY <1>5 DEF Admit
  <2>7. MeasurementsOK'
    BY <1>1, <2>1, <2>4 DEF MeasuredInv, MeasurementsOK
  <2> HIDE DEF e
  <2>8. EvidenceOK'
    BY <2>1, <2>3, <2>5, <2>6 DEF MeasuredInv, EvidenceOK, e
  <2>9. BestOK'
    <3>1. tree = Here /\ Here' = Here
      BY <1>1 DEF RsiInv, CleanOK, Here
    <3>2. pc' = "commit" => tree' = tree \cup {c}
      BY <1>1, <1>5 DEF Admit
    <3> QED
      BY <1>1, <1>2, <3>1, <3>2, NothingAssumption DEF BestOK, First
  <2> QED
    BY <1>3, <2>7, <2>8, <2>9 DEF MeasuredInv
<1> QED
  BY <1>4, <1>5 DEF MeasureHoldout

\* Other steps neither measure nor bring a candidate to its commit.
LEMMA OthersMeasureNothing == MeasuredInv /\ (Unmeasured \/ Forget) => MeasuredInv'
<1> SUFFICES ASSUME MeasuredInv, Unmeasured \/ Forget PROVE MeasuredInv'
  OBVIOUS
<1>1. CASE Forget
  <2>1. pc' = "idle" /\ base' = Nothing /\ found' = [c \in Changes |-> Nothing]
        /\ UNCHANGED <<evidence, admitted>>
    BY <1>1 DEF Forget, Exit, Kill, Leave, history
  <2> QED
    BY <2>1 DEF MeasuredInv, MeasurementsOK, PoolPassed, EvidenceOK, BestOK
<1>2. CASE Unmeasured
  <2>1. UNCHANGED <<base, found, evidence>>
    BY <1>2 DEF Unmeasured, measured
  <2>2. /\ UNCHANGED admitted /\ pc' # "commit"
        /\ pc' \in {"generate", "holdout"} => pc = "generate" /\ pool' = pool
    BY <1>2 DEF Unmeasured, Start, StopBudget, CheckoutParent, Converged, RulesApply, CreateBranch,
       RaiseAtOnce, Rejected, EndGenerating, EndHoldout, Commit, CommitUnreported, RaiseInTry,
       Restore, Prune, TidyUp, history, locals, trial
  <2> QED
    BY <2>1, <2>2 DEF MeasuredInv, MeasurementsOK, PoolPassed, EvidenceOK, BestOK
<1> QED
  BY <1>1, <1>2

LEMMA MeasuredKept == RsiInv /\ MeasuredInv /\ [MeasuredNext]_<<vars, measured>> => MeasuredInv'
<1> SUFFICES ASSUME RsiInv, MeasuredInv, [MeasuredNext]_<<vars, measured>> PROVE MeasuredInv'
  OBVIOUS
<1>1. CASE UNCHANGED <<vars, measured>>
  <2>1. UNCHANGED <<pc, pool, tips, head, tree, admitted, base, found, evidence>>
    BY <1>1 DEF vars, repo, locals, trial, history, measured
  <2> QED
    BY <2>1 DEF MeasuredInv, MeasurementsOK, PoolPassed, EvidenceOK, BestOK, Here
<1>2. CASE MeasuredNext
  <2>1. TypeOK
    BY DEF RsiInv
  <2> QED
    BY <1>2, <2>1, BaselinesMeasured, TrainMeasured, HoldoutMeasured, OthersMeasureNothing
       DEF MeasuredNext
<1> QED
  BY <1>1, <1>2

\* In every run, whatever the machine measures.
THEOREM MeasuredInvariant == MeasuredSpec => [](RsiInv /\ MeasuredInv)
<1>1. MeasuredSpec => []RsiInv
  BY MeasuredRuns, RsiInvariant, PTL
<1> QED
  BY <1>1, MeasuredStart, MeasuredKept, PTL DEF MeasuredSpec

\* Every variable keeps its type, and both baselines are there when they are used.
THEOREM MeasuredOKHolds == MeasuredSpec => []MeasuredOK
<1>1. RsiInv /\ MeasuredInv => MeasuredOK
  BY DEF RsiInv, MeasuredInv, MeasuredOK
<1> QED
  BY <1>1, MeasuredInvariant, PTL

\* Every commit was faster than the very sources under it on both cohorts, and
\* no single run of a benchmark decided that.
THEOREM EveryCommitImprovesHolds == MeasuredSpec => []EveryCommitImproves
<1>1. RsiInv /\ MeasuredInv => EveryCommitImproves
  <2> SUFFICES ASSUME RsiInv, MeasuredInv, NEW b \in Branches, tips[b] \notin {Absent, {}}
               PROVE  \E e \in evidence :
                        /\ tips[b] = e.under \cup {e.change}
                        /\ e.under = e.measured
                        /\ \A cohort \in Cohorts : Improves(e.before[cohort], e.after[cohort])
    BY DEF EveryCommitImproves
  <2>1. PICK a \in admitted : tips[b] = a.under \cup {a.change} /\ a.under = a.baseline
    BY DEF RsiInv, EveryCommitAdmitted
  <2>2. PICK e \in evidence : e.change = a.change /\ e.under = a.under /\ e.measured = a.baseline
    BY <2>1 DEF MeasuredInv, EvidenceOK
  <2>3. ASSUME NEW cohort \in Cohorts PROVE Improves(e.before[cohort], e.after[cohort])
    <3>1. e.before[cohort] \in Outcomes /\ e.after[cohort] \in Outcomes
      BY DEF MeasuredInv, MeasurementsOK, EvidenceType
    <3>2. Passes(e.before[cohort], e.after[cohort])
      BY DEF MeasuredInv, EvidenceOK
    <3> QED
      BY <3>1, <3>2, PassesImproves
  <2> QED
    BY <2>1, <2>2, <2>3
<1> QED
  BY <1>1, MeasuredInvariant, PTL

\* No candidate that trained faster is passed over for the one committed.
THEOREM UntriedAreSlowerHolds == MeasuredSpec => []UntriedAreSlower
<1>1. RsiInv /\ MeasuredInv => UntriedAreSlower
  <2> SUFFICES ASSUME RsiInv, MeasuredInv, pc = "commit", NEW c \in tree \ Here, NEW d \in pool
               PROVE  \E b, a \in AllButOne : \A k \in b, l \in a :
                        found[c][k].p50 <= found[d][l].p50
    BY DEF UntriedAreSlower
  <2>1. found[c] \in Outcomes /\ found[d] \in Outcomes /\ ~Ahead(found[d], found[c])
    <3>1. d \in Changes
      BY DEF RsiInv, TypeOK
    <3> QED
      BY <3>1 DEF MeasuredInv, MeasurementsOK, BestOK
  <2> DEFINE p50(o) == [i \in Repeats |-> o[i].p50]
  <2>2. \A o \in Outcomes : p50(o) \in [Repeats -> Nat]
    BY OutcomesAssumption DEF Sample
  <2>3. P50(found[c]) = Median(p50(found[c])) /\ P50(found[d]) = Median(p50(found[d]))
    BY DEF P50
  <2>4. PICK b, a \in AllButOne : \A k \in b, l \in a :
          /\ k \in Repeats /\ Median(p50(found[d])) <= p50(found[d])[k]
          /\ l \in Repeats /\ p50(found[c])[l] <= Median(p50(found[c]))
    BY <2>1, <2>2, MedianSides
  <2>5. Median(p50(found[c])) \in Nat /\ Median(p50(found[d])) \in Nat
    BY <2>1, <2>2, MedianSides
  <2>6. Median(p50(found[c])) <= Median(p50(found[d]))
    BY <2>1, <2>3, <2>5 DEF Ahead
  <2>7. ASSUME NEW k \in a, NEW l \in b PROVE found[c][k].p50 <= found[d][l].p50
    <3>1. /\ Median(p50(found[d])) <= p50(found[d])[l] /\ p50(found[d])[l] \in Nat
          /\ p50(found[c])[k] <= Median(p50(found[c])) /\ p50(found[c])[k] \in Nat
          /\ k \in Repeats /\ l \in Repeats
      BY <2>1, <2>2, <2>4
    <3>2. p50(found[c])[k] <= p50(found[d])[l]
      BY <2>5, <2>6, <3>1
    <3> QED
      BY <3>1, <3>2
  <2> QED
    BY <2>7
<1> QED
  BY <1>1, MeasuredInvariant, PTL

=============================================================================
