----------------------------- MODULE RunPromise -----------------------------
(***************************************************************************)
(* What the execution kernel promises about a run (docs/execution.md),     *)
(* without processes, recoveries, snapshots or crashes: the steps of an    *)
(* accepted run are taken one at a time and in order; a step's tool is     *)
(* entered only while the step is open and within the limit accepted with  *)
(* the run; an open step is confirmed or lost once, and a lost step is the *)
(* end; the verdict agrees with that end.                                  *)
(***************************************************************************)
EXTENDS Naturals

CONSTANTS
  RunIds,  \* runs
  StepIdx  \* positions of tool calls in a plan

VARIABLES
  accepted,   \* accepted[r]: the run was accepted for execution
  limit,      \* limit[r][i]: entries allowed into step i, 0 if there is no step i
  entered,    \* entered[r][i]: entries so far
  open,       \* open[r]: the step in flight, a set of at most one
  confirmed,  \* confirmed[r]: the steps known to have succeeded
  lost,       \* lost[r]: the step whose outcome will never be known
  verdict     \* verdict[r]: the exit code reported for the run

promiseVars == <<accepted, limit, entered, open, confirmed, lost, verdict>>

StepsOfRun(r) == {i \in StepIdx : limit[r][i] > 0}

Init ==
  /\ accepted \in [RunIds -> BOOLEAN]
  /\ limit \in [RunIds -> [StepIdx -> Nat]]
  /\ entered = [r \in RunIds |-> [i \in StepIdx |-> 0]]
  /\ open = [r \in RunIds |-> {}]
  /\ confirmed = [r \in RunIds |-> {}]
  /\ lost = [r \in RunIds |-> {}]
  /\ verdict = [r \in RunIds |-> "null"]

Accept(r) ==
  /\ ~accepted[r]
  /\ accepted' = [accepted EXCEPT ![r] = TRUE]
  /\ limit' \in [RunIds -> [StepIdx -> Nat]]
  /\ \A q \in RunIds \ {r} : limit'[q] = limit[q]
  /\ UNCHANGED <<entered, open, confirmed, lost, verdict>>

Open(r, i) ==
  /\ accepted[r] /\ i \in StepsOfRun(r)
  /\ open[r] = {} /\ lost[r] = {}
  /\ confirmed[r] = {j \in StepIdx : j < i}
  /\ open' = [open EXCEPT ![r] = {i}]
  /\ UNCHANGED <<accepted, limit, entered, confirmed, lost, verdict>>

Enter(r, i) ==
  /\ i \in open[r] /\ entered[r][i] < limit[r][i]
  /\ entered' = [entered EXCEPT ![r][i] = @ + 1]
  /\ UNCHANGED <<accepted, limit, open, confirmed, lost, verdict>>

Confirm(r, i) ==
  /\ i \in open[r] /\ entered[r][i] > 0
  /\ open' = [open EXCEPT ![r] = {}]
  /\ confirmed' = [confirmed EXCEPT ![r] = @ \cup {i}]
  /\ UNCHANGED <<accepted, limit, entered, lost, verdict>>

Lose(r, i) ==
  /\ i \in open[r] /\ entered[r][i] > 0
  /\ open' = [open EXCEPT ![r] = {}]
  /\ lost' = [lost EXCEPT ![r] = {i}]
  /\ UNCHANGED <<accepted, limit, entered, confirmed, verdict>>

Close(r) ==
  /\ accepted[r]
  /\ \/ /\ confirmed[r] = StepsOfRun(r)
        /\ verdict' = [verdict EXCEPT ![r] = "0"]
     \/ /\ lost[r] # {}
        /\ verdict' = [verdict EXCEPT ![r] = "1"]
  /\ UNCHANGED <<accepted, limit, entered, open, confirmed, lost>>

Next == \E r \in RunIds :
  \/ Accept(r)
  \/ \E i \in StepIdx : Open(r, i) \/ Enter(r, i) \/ Confirm(r, i) \/ Lose(r, i)
  \/ Close(r)

Spec == Init /\ [][Next]_promiseVars

=============================================================================
