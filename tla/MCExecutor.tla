----------------------------- MODULE MCExecutor -----------------------------
(***************************************************************************)
(* Values for the constants of Executor.  "read" is retry-safe, "send" and *)
(* "write_file" are not.  "old" are arguments that agree with the schemas  *)
(* the tools had first, "new" with the ones they got since.                *)
(***************************************************************************)
EXTENDS Executor, TLC

MCTools == {"read", "send"}

On(tool, args) == [tool |-> tool, args |-> args]
OfEach(tools, args) == {On(tool, args) : tool \in tools}

\* One plan whose middle step is the dangerous one, for the races.
MCRacePlans == {<<On("read", "old"), On("send", "old"), On("read", "old")>>}

\* Plans that bindings must tell apart; <<>> only halts.
MCBindingPlans == {<<>>, <<On("send", "old")>>, <<On("send", "new")>>}

Original ==
  [tools |-> MCTools, accepts |-> OfEach(MCTools, "old"), retrySafe |-> {"read"}, impl |-> 1]

\* Since the run began the operator declared "send" retry-safe too.
Relaxed == [Original EXCEPT !.retrySafe = MCTools]

\* Or replaced the code behind the same contract, widened a schema, or lost a tool.
Rebuilt == [Original EXCEPT !.impl = 2]
Widened == [Original EXCEPT !.accepts = @ \cup {On("send", "new")}]
Reduced == [Original EXCEPT !.tools = {"read"}]

MCRaceRegistries == {Original, Relaxed}
MCBindingRegistries == {Original, Relaxed, Rebuilt, Widened, Reduced}

\* The instance for `apex replay --no-write`.
MCWriteTools == {"read", "write_file"}
MCWritePlans == {<<On("read", "old")>>, <<On("write_file", "old")>>}
MCWriteRegistries ==
  {[tools |-> MCWriteTools, accepts |-> OfEach(MCWriteTools, "old"),
    retrySafe |-> {"read"}, impl |-> 1]}

ExecutorSymmetry == Permutations(Executors)
=============================================================================
