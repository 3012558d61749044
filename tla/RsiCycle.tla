------------------------------ MODULE RsiCycle ------------------------------
(***************************************************************************)
(* apex/rsi.py: `apex rsi`, which works on the Git checkout it runs from.  *)
(* Each cycle leaves the origin branch for a branch of its own, benchmarks *)
(* it, tries candidate patches in scratch worktrees, commits at most one   *)
(* of them and comes back.  Runs follow each other; one may be killed or   *)
(* fail in any git command, and the next finds what it left behind.        *)
(*                                                                         *)
(* Abstractions.  The content of the sources is the set of changes applied *)
(* to them; a patch is one change, of one file.  Scores, tokens and wall   *)
(* time only decide, so a candidate passes or fails and a budget ends or   *)
(* does not, whichever; what is kept is the content a measurement was      *)
(* taken of.  `admitted` and `kept` are history variables.                 *)
(***************************************************************************)
EXTENDS Naturals, FiniteSets

CONSTANTS
  Changes, Files,
  FileOf,      \* FileOf[c]: the file of RSI_SOURCE_FILES a change edits
  Rules,       \* the changes the rules generator can derive
  Generators,  \* the generators runs are started with
  Cycles,      \* --cycles
  MaxRuns,     \* bound of the model: runs started in the checkout
  Main,        \* the branch the operator works on
  Absent       \* no such branch

ASSUME RsiAssumption ==
  /\ FileOf \in [Changes -> Files] /\ Rules \subseteq Changes
  /\ Generators \subseteq {"llm", "rules"}
  /\ Cycles \in Nat \ {0} /\ MaxRuns \in Nat
  /\ \A S \in SUBSET Changes : Absent # S
  /\ Main \notin (1..MaxRuns) \X (1..Cycles)

Candidates == 3  \* range(3)

VARIABLES
  tips,       \* tips[b]: content of the head commit of branch b
  head,       \* the branch that is checked out
  tree,       \* content of the working tree (and of the index)
  pc,         \* where run_rsi stands
  run,        \* number of the run, part of its unique branch names
  generator, origin, parent, cycle, keep,
  stop,       \* leave the loop after the finally clause
  raised,     \* an exception is passing the finally clause
  baseline,   \* content both baseline benchmarks measured
  tried,      \* candidates generated in this cycle
  pool,       \* candidates admissible on the training cohort
  admitted,   \* what passed the holdout: change, content under it, baseline
  kept        \* branches whose commit was accepted, by all runs

repo == <<tips, head, tree>>
who == <<run, generator, origin>>
place == <<parent, cycle>>
flags == <<keep, stop, raised>>
trial == <<baseline, tried, pool>>
history == <<admitted, kept>>
locals == <<who, place, flags, trial>>
vars == <<repo, pc, locals, history>>

Branches == {Main} \cup (1..MaxRuns) \X (1..Cycles)
Branch == <<run, cycle>>
Here == tips[head]
Clean == tree = Here
In(file, content) == {c \in content : FileOf[c] = file}

PC == {"idle", "cycle", "rules", "create", "baseline", "generate", "holdout",
       "commit", "restore", "prune", "done", "raised"}
InTry == {"baseline", "generate", "holdout", "commit"}

-----------------------------------------------------------------------------
\* Git

\* git checkout carries local changes along and is refused when one of them is
\* to a file that differs between the two branches.
CheckoutAllowed(b) ==
  \A f \in Files : In(f, tree) # In(f, Here) => In(f, tips[b]) = In(f, Here)

Checkout(b) ==
  /\ CheckoutAllowed(b)
  /\ head' = b
  /\ tree' = UNION {IF In(f, tree) # In(f, Here) THEN In(f, tree) ELSE In(f, tips[b]) : f \in Files}
  /\ UNCHANGED tips

-----------------------------------------------------------------------------
\* run_rsi

\* MUTANT of Start: _require_clean_tree is not called.
StartDirty(g) ==
  /\ pc = "idle" /\ run < MaxRuns
  /\ run' = run + 1 /\ generator' = g
  /\ origin' = head /\ parent' = head /\ cycle' = 1
  /\ keep' = FALSE /\ stop' = FALSE /\ raised' = FALSE
  /\ baseline' = {} /\ tried' = 0 /\ pool' = {}
  /\ pc' = "cycle"
  /\ UNCHANGED <<repo, history>>

\* run_rsi up to the loop.
Start(g) ==
  /\ pc = "idle" /\ run < MaxRuns
  /\ Clean
  /\ run' = run + 1 /\ generator' = g
  /\ origin' = head /\ parent' = head /\ cycle' = 1
  /\ keep' = FALSE /\ stop' = FALSE /\ raised' = FALSE
  /\ baseline' = {} /\ tried' = 0 /\ pool' = {}
  /\ pc' = "cycle"
  /\ UNCHANGED <<repo, history>>

\* governor.check: tokens or wall time are used up.
StopBudget ==
  /\ pc = "cycle"
  /\ pc' = "done"
  /\ UNCHANGED <<repo, locals, history>>

CheckoutParent ==
  /\ pc = "cycle"
  /\ Checkout(parent)
  /\ pc' = IF generator = "rules" THEN "rules" ELSE "create"
  /\ UNCHANGED <<locals, history>>

Applicable == Rules \ tree

\* The loop is left before the try statement.
Converged ==
  /\ pc = "rules" /\ Applicable = {}
  /\ pc' = "done"
  /\ UNCHANGED <<repo, locals, history>>

RulesApply ==
  /\ pc = "rules" /\ Applicable # {}
  /\ pc' = "create"
  /\ UNCHANGED <<repo, locals, history>>

\* MUTANT of CreateBranch: `git branch` instead of `git checkout -b`.
CreateBranchBehind ==
  /\ pc = "create"
  /\ tips[Branch] = Absent
  /\ tips' = [tips EXCEPT ![Branch] = Here]
  /\ keep' = FALSE
  /\ pc' = "baseline"
  /\ UNCHANGED <<head, tree, who, place, stop, raised, trial, history>>

CreateBranch ==
  /\ pc = "create"
  /\ tips[Branch] = Absent
  /\ tips' = [tips EXCEPT ![Branch] = Here]
  /\ head' = Branch
  /\ keep' = FALSE
  /\ pc' = "baseline"
  /\ UNCHANGED <<tree, who, place, stop, raised, trial, history>>

\* A command outside the try statement fails.
RaiseAtOnce ==
  /\ pc \in {"cycle", "rules", "create"}
  /\ pc' = "raised"
  /\ UNCHANGED <<repo, locals, history>>

\* Both baselines, of the commit that is checked out.
Baseline ==
  /\ pc = "baseline"
  /\ baseline' = Here
  /\ tried' = 0 /\ pool' = {}
  /\ pc' = "generate"
  /\ UNCHANGED <<repo, who, place, flags, history>>

\* MUTANT of Rejected: one candidate too many.
RejectedOneMore ==
  /\ pc = "generate" /\ tried <= Candidates
  /\ tried' = tried + 1
  /\ UNCHANGED <<repo, pc, who, place, flags, baseline, pool, history>>

\* A candidate that is invalid, fails a regression test or gains too little.
Rejected ==
  /\ pc = "generate" /\ tried < Candidates
  /\ tried' = tried + 1
  /\ UNCHANGED <<repo, pc, who, place, flags, baseline, pool, history>>

\* One that applies, passes all tests and gains on the training cohort.
Admissible(c) ==
  /\ pc = "generate" /\ tried < Candidates
  /\ c \notin Here
  /\ generator = "rules" => c \in Rules
  /\ tried' = tried + 1
  /\ pool' = pool \cup {c}
  /\ UNCHANGED <<repo, pc, who, place, flags, baseline, history>>

\* The loop over candidates ends: three of them, no more rules, or budget.
EndGenerating ==
  /\ pc = "generate"
  /\ pc' = IF pool = {} THEN "restore" ELSE "holdout"
  /\ stop' = (pool = {})
  /\ UNCHANGED <<repo, who, place, keep, raised, trial, history>>

\* The next best candidate fails on the holdout cohort.
HoldoutRejected(c) ==
  /\ pc = "holdout" /\ c \in pool
  /\ pool' = pool \ {c}
  /\ UNCHANGED <<repo, pc, who, place, flags, baseline, tried, history>>

\* It passes, and git apply puts it into the working tree or refuses it.
Admit(c) ==
  /\ pc = "holdout" /\ c \in pool
  /\ pool' = pool \ {c}
  /\ admitted' = admitted \cup {[change |-> c, under |-> Here, baseline |-> baseline]}
  /\ \/ /\ c \notin tree
        /\ tree' = tree \cup {c}
        /\ pc' = "commit"
     \/ UNCHANGED <<tree, pc>>
  /\ UNCHANGED <<tips, head, who, place, flags, baseline, tried, kept>>

\* No candidate is left, or no time.
EndHoldout ==
  /\ pc = "holdout"
  /\ stop' = TRUE
  /\ pc' = "restore"
  /\ UNCHANGED <<repo, who, place, keep, raised, trial, history>>

\* MUTANT of Commit: the next cycle starts from the origin again.
CommitBesides ==
  /\ pc = "commit"
  /\ tips' = [tips EXCEPT ![head] = tree]
  /\ keep' = TRUE
  /\ kept' = kept \cup {Branch}
  /\ pc' = "restore"
  /\ UNCHANGED <<head, tree, who, place, stop, raised, trial, admitted>>

\* _commit_cycle, and the branch becomes the parent of the next cycle.
Commit ==
  /\ pc = "commit"
  /\ tips' = [tips EXCEPT ![head] = tree]
  /\ keep' = TRUE
  /\ parent' = Branch
  /\ kept' = kept \cup {Branch}
  /\ pc' = "restore"
  /\ UNCHANGED <<head, tree, who, cycle, stop, raised, trial, admitted>>

\* MUTANT of CommitUnreported: the exception is swallowed.
CommitSwallowed ==
  /\ pc = "commit"
  /\ tips' = [tips EXCEPT ![head] = tree]
  /\ pc' = "restore"
  /\ UNCHANGED <<head, tree, who, place, flags, trial, history>>

\* The commit is made, but reading back its name raises before it counts.
CommitUnreported ==
  /\ pc = "commit"
  /\ tips' = [tips EXCEPT ![head] = tree]
  /\ raised' = TRUE
  /\ pc' = "restore"
  /\ UNCHANGED <<head, tree, who, place, keep, stop, trial, history>>

\* Any git command, benchmark or isolation step inside the try statement raises.
RaiseInTry ==
  /\ pc \in InTry
  /\ raised' = TRUE
  /\ pc' = "restore"
  /\ UNCHANGED <<repo, who, place, keep, stop, trial, history>>

\* MUTANT of Restore: back to the parent of the next cycle.
RestoreParent ==
  /\ pc = "restore"
  /\ \/ Checkout(parent) /\ pc' = "prune"
     \/ pc' = "raised" /\ UNCHANGED repo
  /\ UNCHANGED <<locals, history>>

\* finally: back to the origin branch; a checkout that fails or is refused ends
\* the run where it is.
Restore ==
  /\ pc = "restore"
  /\ \/ Checkout(origin) /\ pc' = "prune"
     \/ pc' = "raised" /\ UNCHANGED repo
  /\ UNCHANGED <<locals, history>>

\* `git branch -D`, whose failure goes unnoticed.
DeleteUnlessKept ==
  \/ tips' = tips
  \/ ~keep /\ tips' = [tips EXCEPT ![Branch] = Absent]

\* MUTANT of Prune: a cycle without a commit is repeated.
PruneTriesAgain ==
  /\ pc = "prune"
  /\ DeleteUnlessKept
  /\ pc' = IF raised THEN "raised"
           ELSE IF keep /\ cycle = Cycles THEN "done" ELSE "cycle"
  /\ cycle' = IF pc' = "cycle" /\ keep THEN cycle + 1 ELSE cycle
  /\ UNCHANGED <<head, tree, who, parent, flags, trial, history>>

\* finally: the branch of a cycle without a commit is deleted; then the next cycle.
Prune ==
  /\ pc = "prune"
  /\ DeleteUnlessKept
  /\ pc' = IF raised THEN "raised"
           ELSE IF stop \/ cycle = Cycles THEN "done" ELSE "cycle"
  /\ cycle' = IF pc' = "cycle" THEN cycle + 1 ELSE cycle
  /\ UNCHANGED <<head, tree, who, parent, flags, trial, history>>

\* The process ends: its locals are gone.
Leave ==
  /\ pc' = "idle"
  /\ generator' = "llm" /\ origin' = Main /\ parent' = Main /\ cycle' = 1
  /\ keep' = FALSE /\ stop' = FALSE /\ raised' = FALSE
  /\ baseline' = {} /\ tried' = 0 /\ pool' = {}
  /\ UNCHANGED <<repo, run, history>>

Exit == pc \in {"done", "raised"} /\ Leave

-----------------------------------------------------------------------------
\* The surroundings

Kill == pc \notin {"idle", "done", "raised"} /\ Leave

\* Between runs the operator discards what is in the working tree, and checks
\* out the branch to go on from.
TidyUp(b) ==
  /\ pc = "idle"
  /\ tips[b] # Absent
  /\ head' = b
  /\ tree' = tips[b]
  /\ UNCHANGED <<tips, pc, locals, history>>

Init ==
  /\ tips = [b \in Branches |-> IF b = Main THEN {} ELSE Absent]
  /\ head = Main /\ tree = {}
  /\ pc = "idle"
  /\ run = 0 /\ generator = "llm" /\ origin = Main /\ parent = Main /\ cycle = 1
  /\ keep = FALSE /\ stop = FALSE /\ raised = FALSE
  /\ baseline = {} /\ tried = 0 /\ pool = {}
  /\ admitted = {} /\ kept = {}

Working ==
  \/ StopBudget \/ CheckoutParent \/ Converged \/ RulesApply \/ CreateBranch
  \/ RaiseAtOnce \/ Baseline \/ Rejected \/ EndGenerating
  \/ \E c \in Changes : Admissible(c) \/ HoldoutRejected(c) \/ Admit(c)
  \/ EndHoldout \/ Commit \/ CommitUnreported \/ RaiseInTry \/ Restore \/ Prune \/ Exit

Next ==
  \/ \E g \in Generators : Start(g)
  \/ Working
  \/ Kill
  \/ \E b \in Branches : TidyUp(b)

Spec == Init /\ [][Next]_vars

-----------------------------------------------------------------------------
\* Properties

\* Every variable keeps its type.
TypeOK ==
  /\ tips \in [Branches -> {Absent} \cup SUBSET Changes]
  /\ head \in Branches /\ tips[head] # Absent
  /\ tree \in SUBSET Changes
  /\ pc \in PC
  /\ run \in 0..MaxRuns /\ cycle \in 1..Cycles
  /\ generator \in Generators \cup {"llm"}
  /\ {origin, parent} \subseteq Branches
  /\ {keep, stop, raised} \subseteq BOOLEAN
  /\ baseline \in SUBSET Changes /\ pool \in SUBSET Changes
  /\ tried \in 0..Candidates
  /\ admitted \in SUBSET [change : Changes, under : SUBSET Changes, baseline : SUBSET Changes]
  /\ kept \in SUBSET (Branches \ {Main})

\* Whatever runs fail or are killed, every branch holds the initial sources or
\* those of an admitted change on top of exactly the sources its baselines were
\* measured on (docs/rsi.md: every cycle remeasures its actual cumulative
\* source parent): nothing left in the working tree slips into a commit.
EveryCommitAdmitted ==
  \A b \in Branches : tips[b] \notin {Absent, {}} =>
    \E a \in admitted :
      /\ tips[b] = a.under \cup {a.change}
      /\ a.under = a.baseline

\* The accepted branches of a run are cumulative: each holds the changes of the
\* earlier ones and one more.
AcceptedCumulative ==
  \A b, d \in kept : b[1] = d[1] /\ b[2] < d[2] =>
    tips[b] \subseteq tips[d] /\ Cardinality(tips[d] \ tips[b]) = d[2] - b[2]

\* Main and every accepted branch stay where they are, also while later runs
\* start from an accepted branch (docs/rsi.md: keeping main unchanged).
AcceptedStay ==
  [][\A b \in kept \cup {Main} : tips'[b] = tips[b]]_vars

\* A run that ends by itself leaves the origin branch checked out and clean, and
\* a branch of its own that was not accepted, which stays when git fails to delete
\* it, holds just what it was created from: no rejected or half-reported commit
\* outlives the run (generator llm; for rules see below).
EndsWhereItBegan ==
  pc = "done" /\ generator = "llm" =>
    /\ head = origin /\ Clean
    /\ \A n \in 1..Cycles : tips[<<run, n>>] # Absent /\ <<run, n>> \notin kept =>
         tips[<<run, n>>] = tips[parent]

\* docs/rsi.md of the rules generator: the experiment "stops when no further
\* applicable source rule or eligible improvement survives, restores the
\* original checkout".
RulesRestoreCheckout == pc = "done" /\ generator = "rules" => head = origin

\* What a run has ahead of it at most: every cycle tries its candidates on both
\* cohorts, and has seven steps around them.
CycleSteps == 2 * Candidates + 9

StepsLeft ==
  IF pc = "idle" THEN 0
  ELSE IF pc \in {"done", "raised"} THEN 1
  ELSE CycleSteps * (Cycles - cycle) +
         (CASE pc = "cycle" -> CycleSteps + 1
            [] pc = "rules" -> CycleSteps
            [] pc = "create" -> CycleSteps - 1
            [] pc = "baseline" -> CycleSteps - 2
            [] pc = "generate" -> CycleSteps - 3 - tried
            [] pc = "holdout" -> 5 + Cardinality(pool)
            [] pc = "commit" -> 4
            [] pc = "restore" -> 3
            [] pc = "prune" -> 2)

\* Every step of a run brings it nearer to its end, also through failures,
\* refused patches and rejected candidates: nothing is tried again.
RunCountsDown == [][pc # "idle" => StepsLeft' \in 0..(StepsLeft - 1)]_vars
=============================================================================
