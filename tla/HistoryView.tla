---------------------------- MODULE HistoryView ----------------------------
(***************************************************************************)
(* `apex history` (_history of apex/__main__.py on list_runs of            *)
(* apex/history.py) beside the executors that write the table it reads.    *)
(* One SELECT reads the rows; they are printed newest first, and the       *)
(* format specification of column EXIT raises TypeError on a NULL          *)
(* exit_code, which ends the command there.                                *)
(***************************************************************************)
EXTENDS Executor

CONSTANT NotRun  \* the command was not run yet; the run ids are numbers here

VARIABLE
  shown  \* the runs the last `apex history` printed, or NotRun before the first

viewVars == <<vars, shown>>

Rows == {r \in RunIds : runs[r] # NoRow}

\* ORDER BY id DESC LIMIT n
Listed(n) == {r \in Rows : Cardinality({q \in Rows : q > r}) < n}

\* The rows printed before one without an exit code.
History(n) ==
  /\ shown' = {r \in Listed(n) : \A q \in Listed(n) : q >= r => exit[q] # "null"}
  /\ UNCHANGED vars

ViewInit == Init /\ shown = NotRun

ViewNext ==
  \/ Next /\ UNCHANGED shown
  \/ \E n \in 0..Cardinality(RunIds) : History(n)

ViewSpec == ViewInit /\ [][ViewNext]_viewVars

\* docs/execution.md: "Incomplete runs can be found through history even when a
\* crash prevented the initial HTTP response".  An `apex history` that asks for
\* every run shows the runs whose exit_code is still null.
HistoryFindsIncomplete ==
  [][History(Cardinality(Rows)) =>
       \A r \in Rows : crashed[r] /\ exit[r] = "null" => r \in shown']_viewVars

=============================================================================
