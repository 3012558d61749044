------------------------------- MODULE Swarm -------------------------------
(***************************************************************************)
(* apex/core/swarm.py: a dispatcher that starts one `apex run` process per *)
(* task, batch by batch, records them in table swarm_runs and waits for    *)
(* all processes of a batch before it starts the next.  The operator may   *)
(* be asked before each batch.                                             *)
(*                                                                         *)
(* A worker's output goes into a pipe that only communicate() drains, and  *)
(* communicate() is called for one worker after the other: a worker that   *)
(* writes more than the pipe holds (Chatty) cannot end before its turn.    *)
(***************************************************************************)
EXTENDS Naturals, Sequences, FiniteSets

CONSTANTS
  Tasks,    \* number of tasks
  Workers   \* --workers

ASSUME SwarmNumbers == Tasks \in Nat /\ Workers \in Nat \ {0}

VARIABLES
  pc,         \* where run_swarm stands
  start,      \* tasks of the batches before this one
  turn,       \* the task at hand
  proc,       \* proc[t]: the worker of task t
  rows,       \* rows[t]: status of the rows recorded for task t, in order
  failures, dispatched,
  humanLoop,  \* --human-loop
  chatty      \* the tasks whose workers fill their pipes

dispatcher == <<pc, start, turn, failures, dispatched>>
fixed == <<humanLoop, chatty>>
vars == <<dispatcher, proc, rows, fixed>>

TaskIds == 1..Tasks
PC == {"loop", "ask", "skip", "launch", "record", "collect", "done", "gone"}

\* MUTANT of BatchEnd: one task too many.
BatchEndOneMore == IF start + Workers < Tasks THEN start + Workers + 1 ELSE Tasks

\* The last task of tasks[start : start + workers].
BatchEnd == IF start + Workers < Tasks THEN start + Workers ELSE Tasks

\* MUTANT of Ended: the worker is polled instead of awaited.
EndedOrNot(t) == TRUE

Ended(t) == proc[t] \in {"ok", "error"}

\* MUTANT of Failed: the last worker of a batch is not counted.
FailedEarlier(t) == proc[t] = "error" /\ t # BatchEnd

Failed(t) == proc[t] = "error"

Record(t, status) == rows' = [rows EXCEPT ![t] = Append(@, status)]

\* MUTANT of Advance: the batch ends one task later.
AdvancePastEnd(here, next, first) ==
  /\ pc' = IF turn > BatchEnd THEN next ELSE here
  /\ turn' = IF turn > BatchEnd THEN first ELSE turn + 1

\* After the last task of the batch the dispatcher goes to `next`, with `first`
\* as the task at hand; before it, to the next task.
Advance(here, next, first) ==
  /\ pc' = IF turn = BatchEnd THEN next ELSE here
  /\ turn' = IF turn = BatchEnd THEN first ELSE turn + 1

-----------------------------------------------------------------------------
\* The dispatcher

NextBatch ==
  /\ pc = "loop" /\ start < Tasks
  /\ pc' = IF humanLoop THEN "ask" ELSE "launch"
  /\ turn' = start + 1
  /\ UNCHANGED <<start, failures, dispatched, proc, rows, fixed>>

Finished ==
  /\ pc = "loop" /\ start >= Tasks
  /\ pc' = "done"
  /\ UNCHANGED <<start, turn, failures, dispatched, proc, rows, fixed>>

\* Enter, skip, or end of input.
Answer ==
  /\ pc = "ask"
  /\ pc' \in {"launch", "skip", "done"}
  /\ UNCHANGED <<start, turn, failures, dispatched, proc, rows, fixed>>

Skip ==
  /\ pc = "skip"
  /\ Record(turn, "skipped")
  /\ Advance("skip", "loop", turn)
  /\ start' = IF turn = BatchEnd THEN start + Workers ELSE start
  /\ UNCHANGED <<failures, dispatched, proc, fixed>>

Launch ==
  /\ pc = "launch"
  /\ proc' = [proc EXCEPT ![turn] = "running"]
  /\ pc' = "record"
  /\ UNCHANGED <<start, turn, failures, dispatched, rows, fixed>>

RecordRunning ==
  /\ pc = "record"
  /\ Record(turn, "running")
  /\ dispatched' = dispatched + 1
  /\ Advance("launch", "collect", start + 1)
  /\ UNCHANGED <<start, failures, proc, fixed>>

\* communicate() returns when the worker has ended.
Collect ==
  /\ pc = "collect"
  /\ Ended(turn)
  /\ Record(turn, proc[turn])
  /\ failures' = IF Failed(turn) THEN failures + 1 ELSE failures
  /\ Advance("collect", "loop", turn)
  /\ start' = IF turn = BatchEnd THEN start + Workers ELSE start
  /\ UNCHANGED <<dispatched, proc, fixed>>

\* Popen or a locked database raises, the operator interrupts, or a signal
\* kills: the workers that were started are on their own.
Stop ==
  /\ pc \in {"loop", "ask", "skip", "launch", "record", "collect"}
  /\ pc' = "gone"
  /\ UNCHANGED <<start, turn, failures, dispatched, proc, rows, fixed>>

-----------------------------------------------------------------------------
\* The workers

Drained(t) == pc = "gone" \/ (pc = "collect" /\ turn = t)

\* MUTANT of WorkerEnds: a worker never ends with a full pipe.
WorkerEndsQuietly(t) ==
  /\ proc[t] = "running"
  /\ t \notin chatty
  /\ proc' = [proc EXCEPT ![t] = "ok"]
  /\ UNCHANGED <<dispatcher, rows, fixed>>

\* Without a dispatcher the pipe is closed, and writing to it is an error.
WorkerEnds(t) ==
  /\ proc[t] = "running"
  /\ t \in chatty => Drained(t)
  /\ \E status \in IF t \in chatty /\ pc = "gone" THEN {"error"} ELSE {"ok", "error"} :
       proc' = [proc EXCEPT ![t] = status]
  /\ UNCHANGED <<dispatcher, rows, fixed>>

Init ==
  /\ pc = "loop" /\ start = 0 /\ turn = 0
  /\ failures = 0 /\ dispatched = 0
  /\ proc = [t \in TaskIds |-> "none"]
  /\ rows = [t \in TaskIds |-> <<>>]
  /\ humanLoop \in BOOLEAN
  /\ chatty \in SUBSET TaskIds

Dispatching == NextBatch \/ Finished \/ Skip \/ Launch \/ RecordRunning \/ Collect

Next ==
  \/ Dispatching \/ Answer \/ Stop
  \/ \E t \in TaskIds : WorkerEnds(t)

Spec == Init /\ [][Next]_vars

\* Every `apex run` ends (Executor!RunsSettle), and the dispatcher keeps running.
FairSpec ==
  /\ Spec
  /\ WF_vars(Dispatching)
  /\ \A t \in TaskIds : WF_vars(WorkerEnds(t))

-----------------------------------------------------------------------------
\* Properties

Running == {t \in TaskIds : proc[t] = "running"}
BatchOf(t) == (t - 1) \div Workers

\* Every variable keeps its type.
TypeOK ==
  /\ pc \in PC
  /\ start \in 0..(Tasks + Workers) /\ turn \in 0..Tasks
  /\ failures \in 0..Tasks /\ dispatched \in 0..Tasks
  /\ proc \in [TaskIds -> {"none", "running", "ok", "error"}]
  /\ \A t \in TaskIds : rows[t] \in Seq({"skipped", "running", "ok", "error"})
  /\ humanLoop \in BOOLEAN /\ chatty \in SUBSET TaskIds

\* Workers of two batches never run at the same time, so there are never more
\* than --workers of them, also after the dispatcher is gone.
OneBatchAtATime ==
  /\ Cardinality(Running) <= Workers
  /\ \A t, u \in Running : BatchOf(t) = BatchOf(u)

\* swarm_runs tells what became of each worker.  A worker without a row, or one
\* that ended and is still shown as running, means that the dispatcher has not
\* come to it yet, or never will because it is gone.
RowsTellWorkers ==
  \A t \in TaskIds :
    /\ proc[t] = "none" => rows[t] \in {<<>>, <<"skipped">>}
    /\ proc[t] = "running" => rows[t] \in {<<>>, <<"running">>}
    /\ proc[t] \in {"ok", "error"} => rows[t] \in {<<>>, <<"running">>, <<"running", proc[t]>>}
    /\ proc[t] # "none" /\ rows[t] = <<>> => pc = "gone" \/ (pc = "record" /\ turn = t)

\* A swarm that returns has seen the end of every worker it started: each has
\* its final row, and the result counts the failed ones (exit status 0 of
\* `apex swarm` means that no started worker failed).
ResultCountsFailures ==
  pc = "done" =>
    /\ failures = Cardinality({t \in TaskIds : proc[t] = "error"})
    /\ dispatched = Cardinality({t \in TaskIds : proc[t] # "none"})
    /\ \A t \in TaskIds : proc[t] # "none" => rows[t] = <<"running", proc[t]>>

\* A batch that was started ends, although the workers are drained one after
\* the other: a full pipe holds up only its own worker.
BatchEnds == pc = "launch" ~> pc \in {"loop", "gone"}
=============================================================================
