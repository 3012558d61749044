-------------------------- MODULE ExecutorPromise --------------------------
(***************************************************************************)
(* What follows from the inductive invariant of Executor beyond states: a  *)
(* run in doubt is frozen; a run that no crash hit and no process finished *)
(* is led by some process; and Executor implements RunPromise.             *)
(***************************************************************************)
EXTENDS ExecutorSafety

-----------------------------------------------------------------------------
\* A run in doubt

\* A step of a run in doubt is neither dispatched nor owned: it would have to
\* stand before the doubtful step, and be confirmed, or behind it.
LEMMA NothingElseMoves ==
  ASSUME IInv, NEW r \in RunIds, NEW i \in StepIdx, Orphaned(r, i), NEW e \in Executors,
         Executing(e), req[e].run = r, cur[e] <= Len(req[e].plan),
         \/ effects[r][cur[e]] = "INTENT_RECORDED"
         \/ effects[r][cur[e]] = "DISPATCHING" /\ Owns(e, r, cur[e])
  PROVE  FALSE
<1> DEFINE c == cur[e]
<1>1. c \in StepIdx /\ \A j \in StepIdx : j < c => effects[r][j] = "SUCCEEDED"
  BY AtStep
<1>2. effects[r][i] \in EffectStates \ {"INTENT_RECORDED", "SUCCEEDED"}
  BY DEF Orphaned, UncertainStates, EffectStates
<1>3. c < i => effects[r][c] = "SUCCEEDED"
  BY <1>1, <1>2 DEF IInv, OrderedEffects
<1>4. c # i
  BY <1>2 DEF Orphaned, EffectStates
<1>5. c < i \/ i < c
  BY <1>1, <1>4 DEF StepIdx
<1> QED
  BY <1>1, <1>2, <1>3, <1>5

\* What no step does to a run whose uncertain step has lost its process.
LEMMA DoubtKeeps ==
  ASSUME IInv, [Next]_vars, NEW r \in RunIds, NEW i \in StepIdx, Orphaned(r, i)
  PROVE  effects'[r] = effects[r] /\ calls'[r] = calls[r] /\ results'[r] = results[r]
<1> DEFINE Frozen ==
             effects'[r] = effects[r] /\ calls'[r] = calls[r] /\ results'[r] = results[r]
<1>1. runs[r] # NoRow
  BY DEF IInv, LedgerShape, HasLedger, Orphaned, UncertainStates
<1>2. ASSUME NEW e \in Executors, NEW q \in RunIds, Begin(e, q) PROVE Frozen
  BY <1>1, <1>2 DEF Begin, BeginRun, IInv, TypeOK, LedgerTypeOK
<1>3. ASSUME NEW e \in Executors, Dispatch(e) PROVE Frozen
  <2>1. /\ Executing(e) /\ cur[e] <= Len(req[e].plan)
        /\ effects[req[e].run][cur[e]] = "INTENT_RECORDED"
    BY <1>3 DEF Dispatch, AtTool, DispatchPermitted, Executing
  <2>2. req[e].run # r
    BY <2>1, NothingElseMoves
  <2> QED
    BY <1>3, <2>2 DEF Dispatch, DispatchEffect, IInv, TypeOK, LedgerTypeOK
<1>4. ASSUME NEW e \in Executors, pc[e] \in {"call", "retry", "observe"}
      PROVE  req[e].run # r
  BY <1>4, AtOwned, NothingElseMoves
<1>5. ASSUME NEW e \in Executors, CallReturned(e) \/ CallFailed(e) PROVE Frozen
  BY <1>4, <1>5 DEF CallReturned, CallFailed, EnterTool, ledgerVars, IInv, TypeOK
<1>6. ASSUME NEW e \in Executors, Retry(e) PROVE Frozen
  BY <1>4, <1>6 DEF Retry, SaveRetry, IInv, TypeOK, LedgerTypeOK
<1>7. ASSUME NEW e \in Executors, Observe(e) PROVE Frozen
  BY <1>4, <1>7 DEF Observe, ObserveEffect, IInv, TypeOK, LedgerTypeOK
<1>8. ASSUME NEW e \in Executors, Arrive(e) PROVE Frozen
  BY <1>8 DEF Arrive, Submit, Recover, ReplayLive, Accept, ledgerVars
<1>9. ASSUME NEW e \in Executors,
             \/ BeginRefused(e) \/ Bind(e) \/ BindRefused(e) \/ Reuse(e)
             \/ DispatchRefused(e) \/ Halt(e) \/ Finish(e) \/ Crash(e)
      PROVE  Frozen
  BY <1>9 DEF BeginRefused, Bind, BindRefused, Reuse, DispatchRefused, Halt, Finish,
              FinishRun, Crash, ledgerVars
<1>10. ASSUME NEW q \in RunIds, NEW plan \in Plans \cup {NoPlan}, NEW code \in {"0", "1"},
              RecordOnly(q, plan, code)
       PROVE  Frozen
  BY <1>10 DEF RecordOnly, RecordRun
<1>11. CASE UNCHANGED vars
  BY <1>11 DEF vars, ledgerVars
<1> QED
  BY <1>2, <1>3, <1>5, <1>6, <1>7, <1>8, <1>9, <1>10, <1>11 DEF Next, Step

\* An uncertain step whose process is gone freezes its run: recoveries, and
\* processes that bound the run before the doubt arose, dispatch, enter and
\* resolve nothing of it any more.
THEOREM DoubtFreezesRunHolds == Spec => DoubtFreezesRun
<1> DEFINE Frozen == \A r \in RunIds, i \in StepIdx : Orphaned(r, i) =>
             effects'[r] = effects[r] /\ calls'[r] = calls[r] /\ results'[r] = results[r]
<1>1. IInv /\ [Next]_vars => Frozen
  BY DoubtKeeps
<1>2. IInv /\ [Next]_vars => [Frozen]_vars
  BY <1>1
<1> HIDE DEF Frozen
<1>3. Spec => [][Frozen]_vars
  BY <1>2, InductiveInvariant, PTL DEF Spec
<1> QED
  BY <1>3 DEF DoubtFreezesRun, Frozen

-----------------------------------------------------------------------------
\* Every request has a bounded amount of work

\* The price of so many tool steps, and of one more.
Price(tools) == tools * StepCost

LEMMA OneMoreStep ==
  /\ \A tools \in Nat : Price(tools) \in Nat
  /\ \A tools \in Nat : Price(tools + 1) = Price(tools) + 2 * Retries + 1
BY RetriesAssumption DEF StepCost, Price

\* Where a process that serves a request stands in its plan.
LEMMA InPlan ==
  ASSUME IInv, NEW e \in Executors, pc[e] # "idle"
  PROVE  /\ Len(req[e].plan) \in Nat /\ cur[e] \in Nat /\ attempt[e] \in Nat
         /\ Executing(e) => cur[e] <= Len(req[e].plan) + 1
         /\ pc[e] \in {"call", "retry", "observe"} =>
              cur[e] <= Len(req[e].plan) /\ attempt[e] <= Retries
         /\ pc[e] = "retry" => attempt[e] + 1 <= Retries
<1>1. req[e].plan \in Seq(ToolCall) /\ cur[e] \in Nat /\ attempt[e] \in Nat
  BY PlansAssumption DEF IInv, ReqOK, TypeOK, Request
<1>2. CursorOK(e) /\ AttemptOK(e)
  BY DEF IInv, ProcessesOK
<1>3. ASSUME pc[e] \in {"call", "retry", "observe"}
      PROVE  cur[e] <= Len(req[e].plan) /\ attempt[e] <= Retries
             /\ (pc[e] = "retry" => attempt[e] + 1 <= Retries)
  <2>1. \A g, u : MaxAttempts(g, u) \in 1..Retries
    BY RetriesAssumption DEF MaxAttempts
  <2> QED
    BY <1>1, <1>2, <1>3, <2>1, RetriesAssumption DEF CursorOK, AttemptOK, MayRetry, StepsOf
<1>4. Executing(e) => cur[e] <= Len(req[e].plan) + 1
  BY <1>2 DEF CursorOK
<1> QED
  BY <1>1, <1>3, <1>4

\* Every point of the loop has more ahead of it than the points after it.
Below(x, y) == x \in Nat /\ y \in Nat /\ x < y

LEMMA PointsFall ==
  ASSUME NEW tools \in Nat, NEW step \in Nat, NEW try \in Nat, NEW t \in Nat
  PROVE  /\ Below(AheadAt("bind", tools, step, t), AheadAt("begin", tools, step, try))
         /\ Below(AheadAt("step", tools, 1, t), AheadAt("bind", tools, step, try))
         /\ Below(0, AheadAt("finish", tools, step, try))
         /\ step <= tools + 1 =>
              Below(AheadAt("finish", tools, step, t), AheadAt("step", tools, step, try))
         /\ step <= tools =>
              /\ Below(AheadAt("step", tools, step + 1, t), AheadAt("step", tools, step, try))
              /\ Below(AheadAt("call", tools, step, 1), AheadAt("step", tools, step, try))
              /\ Below(AheadAt("step", tools, step + 1, t), AheadAt("observe", tools, step, try))
              /\ Below(AheadAt("finish", tools, step, t), AheadAt("observe", tools, step, try))
         /\ step <= tools /\ try <= Retries =>
              Below(AheadAt("observe", tools, step, t), AheadAt("call", tools, step, try))
         /\ step <= tools /\ try + 1 <= Retries =>
              /\ Below(AheadAt("retry", tools, step, try), AheadAt("call", tools, step, try))
              /\ Below(AheadAt("call", tools, step, try + 1), AheadAt("retry", tools, step, try))
<1> USE RetriesAssumption DEF Below
<1>1. /\ Below(AheadAt("bind", tools, step, t), AheadAt("begin", tools, step, try))
      /\ Below(AheadAt("step", tools, 1, t), AheadAt("bind", tools, step, try))
      /\ Below(0, AheadAt("finish", tools, step, try))
  <2>1. Price(tools) \in Nat
    BY OneMoreStep
  <2>2. /\ AheadAt("begin", tools, step, try) = Price(tools) + 4
        /\ AheadAt("bind", tools, step, t) = Price(tools) + 3
        /\ AheadAt("bind", tools, step, try) = Price(tools) + 3
        /\ AheadAt("step", tools, 1, t) = Price(tools + 1 - 1) + 2
        /\ AheadAt("finish", tools, step, try) = 1
    BY DEF AheadAt, Price
  <2>3. tools + 1 - 1 = tools
    OBVIOUS
  <2> QED
    BY <2>1, <2>2, <2>3
<1>2. ASSUME step <= tools + 1
      PROVE  Below(AheadAt("finish", tools, step, t), AheadAt("step", tools, step, try))
  <2>1. Price(tools + 1 - step) \in Nat
    BY <1>2, OneMoreStep
  <2>2. /\ AheadAt("step", tools, step, try) = Price(tools + 1 - step) + 2
        /\ AheadAt("finish", tools, step, t) = 1
    BY DEF AheadAt, Price
  <2> QED
    BY <2>1, <2>2
<1>3. ASSUME step <= tools
      PROVE  /\ Below(AheadAt("step", tools, step + 1, t), AheadAt("step", tools, step, try))
             /\ Below(AheadAt("call", tools, step, 1), AheadAt("step", tools, step, try))
             /\ Below(AheadAt("step", tools, step + 1, t), AheadAt("observe", tools, step, try))
             /\ Below(AheadAt("finish", tools, step, t), AheadAt("observe", tools, step, try))
             /\ try <= Retries =>
                  Below(AheadAt("observe", tools, step, t), AheadAt("call", tools, step, try))
             /\ try + 1 <= Retries =>
                  /\ Below(AheadAt("retry", tools, step, try), AheadAt("call", tools, step, try))
                  /\ Below(AheadAt("call", tools, step, try + 1),
                           AheadAt("retry", tools, step, try))
  <2> DEFINE rest == Price(tools - step)
  <2>1. tools - step \in Nat /\ tools + 1 - step = tools - step + 1
        /\ tools + 1 - (step + 1) = tools - step
    BY <1>3
  <2>2. rest \in Nat /\ Price(tools + 1 - step) = rest + 2 * Retries + 1
    BY <2>1, OneMoreStep
  <2>3. /\ AheadAt("step", tools, step, try) = Price(tools + 1 - step) + 2
        /\ AheadAt("step", tools, step + 1, t) = Price(tools + 1 - (step + 1)) + 2
        /\ AheadAt("observe", tools, step, try) = Price(tools + 1 - step) + 2 - 2 * Retries
        /\ AheadAt("observe", tools, step, t) = Price(tools + 1 - step) + 2 - 2 * Retries
        /\ AheadAt("call", tools, step, 1) = Price(tools + 1 - step) + 3 - 2 * 1
        /\ AheadAt("call", tools, step, try) = Price(tools + 1 - step) + 3 - 2 * try
        /\ AheadAt("retry", tools, step, try) = Price(tools + 1 - step) + 2 - 2 * try
        /\ AheadAt("call", tools, step, try + 1) = Price(tools + 1 - step) + 3 - 2 * (try + 1)
        /\ AheadAt("finish", tools, step, t) = 1
    BY DEF AheadAt, Price
  <2>4. Price(tools + 1 - (step + 1)) = rest
    BY <2>1
  <2> HIDE DEF rest
  <2> QED
    BY <2>2, <2>3, <2>4
<1> HIDE DEF Below
<1> QED
  BY <1>1, <1>2, <1>3

\* A process that serves a request has a natural number of steps ahead.
LEMMA AheadPositive ==
  ASSUME IInv, NEW e \in Executors, pc[e] # "idle"
  PROVE  Ahead(e) \in Nat /\ Ahead(e) > 0
<1> DEFINE tools == Len(req[e].plan)
<1>1. /\ tools \in Nat /\ cur[e] \in Nat /\ attempt[e] \in Nat
      /\ Executing(e) => cur[e] <= tools + 1
      /\ pc[e] \in {"call", "retry", "observe"} => cur[e] <= tools /\ attempt[e] <= Retries
      /\ pc[e] = "retry" => attempt[e] + 1 <= Retries
  BY InPlan
<1>2. pc[e] \in {"begin", "bind", "step", "call", "retry", "observe", "finish"}
  BY DEF IInv, TypeOK, PC
<1>3. Ahead(e) = AheadAt(pc[e], tools, cur[e], attempt[e])
  BY DEF Ahead
<1>4. \E x : Below(x, AheadAt(pc[e], tools, cur[e], attempt[e]))
  <2> HIDE DEF tools
  <2>1. CASE pc[e] \in {"begin", "bind", "finish"}
    BY <1>1, <2>1, PointsFall
  <2>2. CASE pc[e] = "step"
    BY <1>1, <2>2, PointsFall DEF Executing
  <2>3. CASE pc[e] \in {"call", "retry", "observe"}
    BY <1>1, <2>3, PointsFall
  <2> QED
    BY <1>2, <2>1, <2>2, <2>3
<1> QED
  BY <1>3, <1>4 DEF Below

\* Every step of a process leaves less ahead of it.
LEMMA StepFalls ==
  ASSUME IInv, NEW e \in Executors, Step(e)
  PROVE  Below(Ahead(e)', Ahead(e))
<1> DEFINE tools == Len(req[e].plan)
<1>t. TypeOK
  BY DEF IInv
<1>p. pc[e] # "idle"
  BY DEF Step, Begin, BeginRefused, Bind, BindRefused, AtTool, Reuse, Dispatch,
         DispatchRefused, CallReturned, CallFailed, EnterTool, Retry, Observe, Halt, Finish
<1>i. /\ tools \in Nat /\ cur[e] \in Nat /\ attempt[e] \in Nat
      /\ Executing(e) => cur[e] <= tools + 1
      /\ pc[e] \in {"call", "retry", "observe"} => cur[e] <= tools /\ attempt[e] <= Retries
      /\ pc[e] = "retry" => attempt[e] + 1 <= Retries
  BY <1>p, InPlan
<1>a. /\ Ahead(e) = AheadAt(pc[e], tools, cur[e], attempt[e])
      /\ Ahead(e)' = AheadAt(pc'[e], Len(req'[e].plan), cur'[e], attempt'[e])
  BY DEF Ahead
<1>1. ASSUME Return(e) PROVE Below(Ahead(e)', Ahead(e))
  <2>1. Ahead(e)' = 0
    BY <1>t, <1>1 DEF Return, Ahead, AheadAt, TypeOK
  <2> QED
    BY <1>p, <2>1, AheadPositive DEF Below
<1>2. ASSUME NEW r \in RunIds, Begin(e, r) PROVE Below(Ahead(e)', Ahead(e))
  <2>1. pc[e] = "begin" /\ pc'[e] = "bind" /\ cur' = cur /\ attempt' = attempt
    BY <1>t, <1>2 DEF Begin, TypeOK
  <2>2. req'[e].plan = req[e].plan
    BY <1>t, <1>p, <1>2 DEF Begin, TypeOK, IInv, ReqOK, Request
  <2>3. Ahead(e)' = AheadAt("bind", tools, cur[e], attempt[e])
    BY <1>a, <2>1, <2>2
  <2> HIDE DEF tools
  <2> QED
    BY <1>i, <1>a, <2>1, <2>3, PointsFall
<1>3. ASSUME Bind(e) PROVE Below(Ahead(e)', Ahead(e))
  <2>1. /\ pc[e] = "bind" /\ pc'[e] = "step" /\ cur'[e] = 1
        /\ req' = req /\ attempt' = attempt
    BY <1>t, <1>3 DEF Bind, TypeOK
  <2>2. Ahead(e)' = AheadAt("step", tools, 1, attempt[e])
    BY <1>a, <2>1
  <2> HIDE DEF tools
  <2> QED
    BY <1>i, <1>a, <2>1, <2>2, PointsFall
<1>4. ASSUME Reuse(e) PROVE Below(Ahead(e)', Ahead(e))
  <2>1. /\ pc[e] = "step" /\ cur[e] <= tools /\ pc' = pc /\ cur'[e] = cur[e] + 1
        /\ req' = req /\ attempt' = attempt
    BY <1>t, <1>4 DEF Reuse, AtTool, TypeOK
  <2>2. Ahead(e)' = AheadAt("step", tools, cur[e] + 1, attempt[e])
    BY <1>a, <2>1
  <2> HIDE DEF tools
  <2> QED
    BY <1>i, <1>a, <2>1, <2>2, PointsFall
<1>5. ASSUME Dispatch(e) PROVE Below(Ahead(e)', Ahead(e))
  <2>1. /\ pc[e] = "step" /\ cur[e] <= tools /\ pc'[e] = "call" /\ attempt'[e] = 1
        /\ req' = req /\ cur' = cur
    BY <1>t, <1>5 DEF Dispatch, AtTool, TypeOK
  <2>2. Ahead(e)' = AheadAt("call", tools, cur[e], 1)
    BY <1>a, <2>1
  <2> HIDE DEF tools
  <2> QED
    BY <1>i, <1>a, <2>1, <2>2, PointsFall
<1>6. ASSUME CallReturned(e) \/ CallFailed(e) PROVE Below(Ahead(e)', Ahead(e))
  <2>1. pc[e] = "call" /\ req' = req /\ cur' = cur /\ attempt' = attempt
    BY <1>6 DEF CallReturned, CallFailed, EnterTool
  <2>2. \/ pc'[e] = "observe"
        \/ pc'[e] = "retry" /\ MayRetry(e)
    BY <1>t, <1>6 DEF CallReturned, CallFailed, TypeOK
  <2>3. CASE pc'[e] = "observe"
    <3>1. Ahead(e)' = AheadAt("observe", tools, cur[e], attempt[e])
      BY <1>a, <2>1, <2>3
    <3> HIDE DEF tools
    <3> QED
      BY <1>i, <1>a, <2>1, <3>1, PointsFall
  <2>4. CASE pc'[e] = "retry" /\ MayRetry(e)
    <3>1. Ahead(e)' = AheadAt("retry", tools, cur[e], attempt[e])
      BY <1>a, <2>1, <2>4
    <3>2. attempt[e] + 1 <= Retries
      BY <1>i, <2>4, RetriesAssumption DEF MayRetry, MaxAttempts
    <3> HIDE DEF tools
    <3> QED
      BY <1>i, <1>a, <2>1, <3>1, <3>2, PointsFall
  <2> QED
    BY <2>2, <2>3, <2>4
<1>7. ASSUME Retry(e) PROVE Below(Ahead(e)', Ahead(e))
  <2>1. /\ pc[e] = "retry" /\ pc'[e] = "call" /\ attempt'[e] = attempt[e] + 1
        /\ req' = req /\ cur' = cur
    BY <1>t, <1>7 DEF Retry, TypeOK
  <2>2. Ahead(e)' = AheadAt("call", tools, cur[e], attempt[e] + 1)
    BY <1>a, <2>1
  <2> HIDE DEF tools
  <2> QED
    BY <1>i, <1>a, <2>1, <2>2, PointsFall
<1>8. ASSUME Observe(e) PROVE Below(Ahead(e)', Ahead(e))
  <2>1. pc[e] = "observe" /\ req' = req /\ attempt'[e] = 0
    BY <1>t, <1>8 DEF Observe, TypeOK
  <2>2. \/ pc'[e] = "step" /\ cur'[e] = cur[e] + 1
        \/ pc'[e] = "finish" /\ cur'[e] = cur[e]
    BY <1>t, <1>8 DEF Observe, TypeOK
  <2>3. attempt'[e] \in Nat
    BY <2>1
  <2>4. \/ Ahead(e)' = AheadAt("step", tools, cur[e] + 1, attempt'[e])
        \/ Ahead(e)' = AheadAt("finish", tools, cur[e], attempt'[e])
    BY <1>a, <2>1, <2>2
  <2>5. Ahead(e) = AheadAt("observe", tools, cur[e], attempt[e]) /\ cur[e] <= tools
    BY <1>a, <1>i, <2>1
  <2> HIDE DEF tools
  <2>6. \A t \in Nat :
          /\ Below(AheadAt("step", tools, cur[e] + 1, t),
                   AheadAt("observe", tools, cur[e], attempt[e]))
          /\ Below(AheadAt("finish", tools, cur[e], t),
                   AheadAt("observe", tools, cur[e], attempt[e]))
    BY <1>i, <2>5, PointsFall
  <2> QED
    BY <2>3, <2>4, <2>5, <2>6, Zenon
<1>9. ASSUME Halt(e) PROVE Below(Ahead(e)', Ahead(e))
  <2>1. /\ pc[e] = "step" /\ pc'[e] = "finish"
        /\ req' = req /\ cur' = cur /\ attempt' = attempt
    BY <1>t, <1>9 DEF Halt, TypeOK
  <2>2. Ahead(e)' = AheadAt("finish", tools, cur[e], attempt[e])
    BY <1>a, <2>1
  <2> HIDE DEF tools
  <2> QED
    BY <1>i, <1>a, <2>1, <2>2, PointsFall DEF Executing
<1> QED
  BY <1>1, <1>2, <1>3, <1>4, <1>5, <1>6, <1>7, <1>8, <1>9
     DEF Step, BeginRefused, BindRefused, DispatchRefused, Finish

\* The steps of the others, and a crash, leave no more ahead of a process.
LEMMA OthersAddNothing ==
  ASSUME IInv, [Next]_vars, NEW e \in Executors, pc[e] # "idle"
  PROVE  Ahead(e)' <= Ahead(e)
<1>1. Ahead(e) \in Nat /\ Ahead(e) > 0
  BY AheadPositive
<1>2. CASE Step(e)
  BY <1>2, StepFalls DEF Below
<1>3. CASE Crash(e)
  <2>1. Ahead(e)' = 0
    BY <1>3 DEF Crash, Return, Ahead, AheadAt, IInv, TypeOK
  <2> QED
    BY <1>1, <2>1
<1>4. CASE pc'[e] = pc[e] /\ req'[e] = req[e] /\ cur'[e] = cur[e] /\ attempt'[e] = attempt[e]
  <2>1. Ahead(e)' = Ahead(e)
    BY <1>4 DEF Ahead
  <2> QED
    BY <1>1, <2>1
<1>5. ASSUME NEW f \in Executors, f # e, Arrive(f) \/ Step(f) \/ Crash(f)
      PROVE  pc'[e] = pc[e] /\ req'[e] = req[e] /\ cur'[e] = cur[e] /\ attempt'[e] = attempt[e]
  <2>1. TypeOK
    BY DEF IInv
  <2>2. CASE Arrive(f)
    BY <1>5, <2>1, <2>2 DEF Arrive, Submit, Recover, ReplayLive, Accept, TypeOK
  <2>3. CASE Crash(f) \/ BeginRefused(f) \/ BindRefused(f) \/ DispatchRefused(f) \/ Finish(f)
    BY <1>5, <2>1, <2>3 DEF Crash, BeginRefused, BindRefused, DispatchRefused, Finish, Return, TypeOK
  <2>4. CASE (\E r \in RunIds : Begin(f, r)) \/ Bind(f) \/ Reuse(f) \/ Dispatch(f)
    BY <1>5, <2>1, <2>4 DEF Begin, Bind, Reuse, Dispatch, TypeOK
  <2>5. CASE CallReturned(f) \/ CallFailed(f) \/ Retry(f) \/ Halt(f)
    BY <1>5, <2>1, <2>5 DEF CallReturned, CallFailed, EnterTool, Retry, Halt, TypeOK
  <2>6. CASE Observe(f)
    BY <1>5, <2>1, <2>6 DEF Observe, TypeOK
  <2> QED
    BY <1>5, <2>2, <2>3, <2>4, <2>5, <2>6 DEF Step
<1>6. ASSUME Arrive(e) PROVE FALSE
  BY <1>6 DEF Arrive, Submit, Recover, ReplayLive, Accept
<1>7. CASE UNCHANGED procVars
  BY <1>4, <1>7 DEF procVars
<1>8. ASSUME NEW r \in RunIds, NEW plan \in Plans \cup {NoPlan}, NEW code \in {"0", "1"},
             RecordOnly(r, plan, code)
      PROVE  UNCHANGED procVars
  BY <1>8 DEF RecordOnly
<1> QED
  BY <1>2, <1>3, <1>4, <1>5, <1>6, <1>7, <1>8 DEF Next, vars

\* Every request of every process ends after a number of its own steps that is
\* fixed when it is accepted, whatever other processes do to the same run.
THEOREM WorkCountsDownHolds == Spec => WorkCountsDown
<1> DEFINE Falls == \A e \in Executors :
             /\ Step(e) => Ahead(e)' \in 0..(Ahead(e) - 1)
             /\ pc[e] # "idle" => Ahead(e)' <= Ahead(e)
<1>1. IInv /\ [Next]_vars => Falls
  BY StepFalls, OthersAddNothing DEF Below
<1>2. IInv /\ [Next]_vars => [Falls]_vars
  BY <1>1
<1> HIDE DEF Falls
<1>3. Spec => [][Falls]_vars
  BY <1>2, InductiveInvariant, PTL DEF Spec
<1> QED
  BY <1>3 DEF WorkCountsDown, Falls

-----------------------------------------------------------------------------
\* A run that has not ended is led by a process

\* A process that will bring r further or to its end, whoever else is at work on
\* it: it will not be refused at bound_effects, and at a tool step its snapshot
\* knows every later step that is confirmed.
Leads(e, r) ==
  /\ req[e].run = r
  /\ \/ pc[e] = "bind" /\ Permitted(e)
     \/ /\ pc[e] = "step" /\ UncertainSteps(r) = {}
        /\ \A i \in StepIdx :
             i >= cur[e] /\ effects[r][i] = "SUCCEEDED" => snap[e][i] = "SUCCEEDED"
     \/ pc[e] \in {"call", "retry", "observe", "finish"}

Unfinished(r) == HasLedger(r) /\ exit[r] = "null" /\ ~crashed[r]

Led == \A r \in RunIds : Unfinished(r) => \E e \in Executors : Leads(e, r)

\* A process leads on while neither it nor the run moves.
LEMMA LeadsKeeps ==
  ASSUME NEW r \in RunIds, NEW e \in Executors, Leads(e, r), Still(e),
         runs'[r] = runs[r], effects'[r] = effects[r]
  PROVE  Leads(e, r)'
<1>1. Permitted(e) => Permitted(e)'
  BY DEF Leads, Still, Permitted, BoundTo, HasLedger, UncertainSteps
<1>2. UncertainSteps(r)' = UncertainSteps(r)
  BY DEF UncertainSteps
<1> QED
  BY <1>1, <1>2 DEF Leads, Still

\* A run that is unfinished after a step that kept its row was so before.
LEMMA WasUnfinished ==
  ASSUME TypeOK, NEW r \in RunIds, Unfinished(r)', runs'[r] = runs[r], exit'[r] = exit[r],
         crashed[r] => crashed'[r]
  PROVE  Unfinished(r)
  BY DEF Unfinished, HasLedger

\* A step of one process that leaves r alone leaves r to the process that leads
\* it, unless it is the leader that moves.
LEMMA LeaderOrMover ==
  ASSUME IInv, Led, NEW r \in RunIds, Unfinished(r)', NEW e \in Executors,
         runs'[r] = runs[r], exit'[r] = exit[r], effects'[r] = effects[r],
         crashed[r] => crashed'[r], \A f \in Executors \ {e} : Still(f)
  PROVE  Leads(e, r) \/ \E f \in Executors : Leads(f, r)'
<1>1. PICK f \in Executors : Leads(f, r)
  BY WasUnfinished DEF Led, IInv
<1> QED
  BY <1>1, LeadsKeeps

\* What dispatch_effect and observe_effect do to another run: nothing.
LEMMA OtherRun ==
  ASSUME IInv, NEW e \in Executors, NEW i, NEW v, NEW r \in RunIds, r # req[e].run
  PROVE  [effects EXCEPT ![req[e].run][i] = v][r] = effects[r]
  BY DEF IInv, TypeOK, LedgerTypeOK

\* Every step leaves an unfinished run with a leader.
LEMMA LedNext ==
  ASSUME IInv, Led, [Next]_vars, NEW r \in RunIds, Unfinished(r)'
  PROVE  \E f \in Executors : Leads(f, r)'
<1> DEFINE Goal == \E f \in Executors : Leads(f, r)'
<1> USE DEF TypeOK, LedgerTypeOK
<1>0. TypeOK /\ Unfinished(r)' /\ ReqOK
  BY DEF IInv
<1>1. ASSUME NEW e \in Executors, Arrive(e) PROVE Goal
  <2>1. /\ pc[e] = "idle" /\ UNCHANGED <<runs, exit, effects, crashed>>
        /\ \A f \in Executors \ {e} : Still(f)
    BY <1>0, <1>1 DEF Arrive, Submit, Recover, ReplayLive, Accept, ledgerVars, Still
  <2>2. ~Leads(e, r)
    BY <2>1 DEF Leads
  <2> QED
    BY <2>1, <2>2, LeaderOrMover
<1>2. ASSUME NEW e \in Executors, NEW q \in RunIds, Begin(e, q) PROVE Goal
  <2>1. /\ pc[e] = "begin" /\ pc'[e] = "bind" /\ req[e] \in Request
        /\ req' = [req EXCEPT ![e].run = q]
        /\ req[e].auth # NoAuth => ValidAuthorization(req[e].auth, req[e].plan)
        /\ BeginRun(q, req[e].plan, ContractDigest(req[e].registry), req[e].auth)
        /\ UNCHANGED crashed /\ \A f \in Executors \ {e} : Still(f)
    BY <1>0, <1>2 DEF Begin, Still, ReqOK
  <2>2. CASE q = r
    <3>1. /\ req'[e].run = r /\ req'[e].plan = req[e].plan /\ req'[e].auth = req[e].auth
          /\ req'[e].registry = req[e].registry
      BY <1>0, <2>1, <2>2 DEF Request
    <3>2. /\ runs'[r] = [ledger |-> TRUE, plan |-> req[e].plan,
                         contract |-> ContractDigest(req[e].registry), auth |-> req[e].auth]
          /\ effects'[r] = [i \in StepIdx |->
               IF i \in StepsOf(req[e].plan) THEN "INTENT_RECORDED" ELSE "NO_ROW"]
      BY <1>0, <2>1, <2>2 DEF BeginRun
    <3>3. HasLedger(r)'
      BY DEF Unfinished
    <3>4. UncertainSteps(r)' = {}
      BY <3>2 DEF UncertainSteps, UncertainStates
    <3>5. {i \in StepIdx : effects'[r][i] # "NO_ROW"} = StepsOf(req[e].plan)
      <4>1. req[e].plan \in Plans
        BY <2>1 DEF Request
      <4>2. StepsOf(req[e].plan) \subseteq StepIdx
        BY <4>1, PlansAssumption, SizesAssumption DEF StepsOf, StepIdx
      <4> QED
        BY <3>2, <4>2
    <3>6. BoundTo(r, req[e].plan, ContractDigest(req[e].registry), req[e].auth)'
      BY <2>1, <3>1, <3>2, <3>3, <3>5 DEF BoundTo, ValidAuthorization, ContractDigest
    <3>7. Permitted(e)'
      BY <3>1, <3>4, <3>6 DEF Permitted, BoundTo, ContractDigest
    <3> QED
      BY <2>1, <3>1, <3>7 DEF Leads
  <2>3. CASE q # r
    <3>1. runs'[r] = runs[r] /\ exit'[r] = exit[r] /\ effects'[r] = effects[r]
      BY <1>0, <2>1, <2>3 DEF BeginRun
    <3>2. ~Leads(e, r)
      BY <2>1 DEF Leads
    <3> QED
      BY <2>1, <3>1, <3>2, LeaderOrMover
  <2> QED
    BY <2>2, <2>3
<1>3. ASSUME NEW e \in Executors,
             BeginRefused(e) \/ BindRefused(e) \/ DispatchRefused(e)
      PROVE  Goal
  <2>1. /\ UNCHANGED <<runs, exit, effects, crashed>>
        /\ \A f \in Executors \ {e} : Still(f)
    BY <1>0, <1>3 DEF BeginRefused, BindRefused, DispatchRefused, Return, ledgerVars, Still
  <2>2. CASE BeginRefused(e) \/ BindRefused(e)
    <3>1. ~Leads(e, r)
      BY <2>2 DEF Leads, BeginRefused, BindRefused
    <3> QED
      BY <2>1, <3>1, LeaderOrMover
  <2>3. CASE DispatchRefused(e)
    <3>1. SUFFICES ASSUME Leads(e, r) PROVE FALSE
      BY <2>1, LeaderOrMover
    <3>2. /\ pc[e] = "step" /\ cur[e] <= Len(req[e].plan) /\ req[e].run = r
          /\ snap[e][cur[e]] # "SUCCEEDED" /\ effects[r][cur[e]] # "INTENT_RECORDED"
      BY <2>3, <3>1 DEF DispatchRefused, AtTool, DispatchPermitted, Leads
    <3>3. /\ cur[e] \in StepIdx /\ cur[e] \in StepsOf(runs[r].plan) /\ HasLedger(r)
      BY <3>2, AtStep DEF Executing
    <3>4. effects[r][cur[e]] # "NO_ROW"
      BY <3>3 DEF IInv, LedgerShape
    <3>5. effects[r][cur[e]] \notin UncertainStates
      BY <3>1, <3>2, <3>3 DEF Leads, UncertainSteps
    <3>6. effects[r][cur[e]] = "SUCCEEDED"
      BY <1>0, <3>2, <3>3, <3>4, <3>5 DEF UncertainStates, EffectStates
    <3>7. cur[e] >= cur[e]
      BY <3>3 DEF StepIdx
    <3> QED
      BY <3>1, <3>2, <3>3, <3>6, <3>7 DEF Leads
  <2> QED
    BY <1>3, <2>2, <2>3
<1>4. ASSUME NEW e \in Executors, Bind(e) PROVE Goal
  <2>1. /\ UNCHANGED <<runs, exit, effects, req, crashed>>
        /\ \A f \in Executors \ {e} : Still(f)
    BY <1>0, <1>4 DEF Bind, ledgerVars, Still
  <2>2. Leads(e, r) => Leads(e, r)'
    BY <1>0, <1>4, <2>1 DEF Bind, Leads, Permitted, UncertainSteps
  <2> QED
    BY <2>1, <2>2, LeaderOrMover
<1>5. ASSUME NEW e \in Executors, Reuse(e) \/ Halt(e) PROVE Goal
  <2>1. /\ UNCHANGED <<runs, exit, effects, req, snap, crashed>>
        /\ \A f \in Executors \ {e} : Still(f)
    BY <1>0, <1>5 DEF Reuse, Halt, ledgerVars, Still
  <2>2. Leads(e, r) /\ Reuse(e) => Leads(e, r)'
    <3> SUFFICES ASSUME Leads(e, r), Reuse(e) PROVE Leads(e, r)'
      OBVIOUS
    <3>1. pc[e] = "step" /\ pc'[e] = "step" /\ cur'[e] = cur[e] + 1 /\ cur[e] \in Nat
      BY <1>0 DEF Reuse, AtTool
    <3>2. \A i \in StepIdx : i >= cur'[e] => i >= cur[e]
      BY <3>1 DEF StepIdx
    <3> QED
      BY <2>1, <3>1, <3>2 DEF Leads, UncertainSteps
  <2>3. Leads(e, r) /\ Halt(e) => Leads(e, r)'
    BY <1>0, <2>1 DEF Leads, Halt
  <2> QED
    BY <1>5, <2>1, <2>2, <2>3, LeaderOrMover
<1>6. ASSUME NEW e \in Executors, CallReturned(e) \/ CallFailed(e) \/ Retry(e) PROVE Goal
  <2>1. /\ UNCHANGED <<runs, exit, effects, req, crashed>>
        /\ \A f \in Executors \ {e} : Still(f)
        /\ pc'[e] \in {"call", "retry", "observe"}
    BY <1>0, <1>6 DEF CallReturned, CallFailed, Retry, SaveRetry, EnterTool, ledgerVars, Still
  <2>2. Leads(e, r) => Leads(e, r)'
    BY <2>1 DEF Leads
  <2> QED
    BY <2>1, <2>2, LeaderOrMover
<1>7. ASSUME NEW e \in Executors, Dispatch(e) PROVE Goal
  <2>1. /\ UNCHANGED <<runs, exit, req, crashed>> /\ pc'[e] = "call"
        /\ effects' = [effects EXCEPT ![req[e].run][cur[e]] = "DISPATCHING"]
        /\ \A f \in Executors \ {e} : Still(f)
    BY <1>0, <1>7 DEF Dispatch, DispatchEffect, Still
  <2>2. CASE req[e].run = r
    BY <2>1, <2>2 DEF Leads
  <2>3. CASE req[e].run # r
    <3>1. effects'[r] = effects[r] /\ ~Leads(e, r)
      BY <2>1, <2>3, OtherRun DEF Leads
    <3> QED
      BY <2>1, <3>1, LeaderOrMover
  <2> QED
    BY <2>2, <2>3
<1>8. ASSUME NEW e \in Executors, Observe(e) PROVE Goal
  <2> DEFINE state == IF outcome[e] = "ok" THEN "SUCCEEDED" ELSE "FAILED_UNKNOWN"
  <2>1. /\ UNCHANGED <<runs, exit, req, snap, crashed>> /\ pc[e] = "observe"
        /\ effects' = [effects EXCEPT ![req[e].run][cur[e]] = state]
        /\ IF outcome[e] = "ok" THEN pc'[e] = "step" /\ cur'[e] = cur[e] + 1
           ELSE pc'[e] = "finish"
        /\ \A f \in Executors \ {e} : Still(f)
    BY <1>0, <1>8 DEF Observe, ObserveEffect, Still
  <2>2. CASE req[e].run # r
    <3>1. effects'[r] = effects[r] /\ ~Leads(e, r)
      BY <2>1, <2>2, OtherRun DEF Leads
    <3> QED
      BY <2>1, <3>1, LeaderOrMover
  <2>3. CASE req[e].run = r /\ outcome[e] # "ok"
    BY <2>1, <2>3 DEF Leads
  <2>4. CASE req[e].run = r /\ outcome[e] = "ok"
    <3>1. /\ cur[e] \in StepIdx /\ effects[r][cur[e]] = "DISPATCHING"
          /\ \A i \in StepIdx : i < cur[e] => effects[r][i] = "SUCCEEDED"
      BY <2>1, <2>4, AtOwned, AtStep
    <3>2. \A i \in StepIdx : i > cur[e] => effects[r][i] \in {"NO_ROW", "INTENT_RECORDED"}
      <4> SUFFICES ASSUME NEW i \in StepIdx, i > cur[e],
                          effects[r][i] \in EffectStates \ {"INTENT_RECORDED"}
                   PROVE  FALSE
        BY <1>0
      <4>1. cur[e] < i
        BY <3>1 DEF StepIdx
      <4>2. OrderedEffects
        BY DEF IInv
      <4>3. effects[r][cur[e]] = "SUCCEEDED"
        BY <3>1, <4>1, <4>2 DEF OrderedEffects
      <4> QED
        BY <3>1, <4>3
    <3>3. /\ effects'[r][cur[e]] = "SUCCEEDED"
          /\ \A i \in StepIdx : i # cur[e] => effects'[r][i] = effects[r][i]
      BY <1>0, <2>1, <2>4, <3>1
    <3>4. \A i \in StepIdx : i < cur[e] \/ i = cur[e] \/ i > cur[e]
      BY <3>1 DEF StepIdx
    <3>5. UncertainSteps(r)' = {}
      BY <3>1, <3>2, <3>3, <3>4 DEF UncertainSteps, UncertainStates
    <3>6. \A i \in StepIdx : i >= cur'[e] => effects'[r][i] # "SUCCEEDED"
      <4>1. \A i \in StepIdx : i >= cur[e] + 1 => i > cur[e] /\ i # cur[e]
        BY <3>1 DEF StepIdx
      <4> QED
        BY <2>1, <2>4, <3>2, <3>3, <4>1
    <3> QED
      BY <2>1, <2>4, <3>5, <3>6 DEF Leads
  <2> QED
    BY <2>2, <2>3, <2>4
<1>9. ASSUME NEW e \in Executors, Finish(e) PROVE Goal
  <2>1. /\ UNCHANGED <<runs, effects, crashed>> /\ req[e].run \in RunIds
        /\ exit' = [exit EXCEPT ![req[e].run] = IF outcome[e] = "ok" THEN "0" ELSE "1"]
        /\ \A f \in Executors \ {e} : Still(f)
    BY <1>0, <1>9 DEF Finish, FinishRun, Return, Still, ReqOK
  <2>2. req[e].run # r
    BY <1>0, <2>1 DEF Unfinished
  <2>3. exit'[r] = exit[r] /\ ~Leads(e, r)
    BY <1>0, <2>1, <2>2 DEF Leads
  <2> QED
    BY <2>1, <2>3, LeaderOrMover
<1>10. ASSUME NEW e \in Executors, Crash(e) PROVE Goal
  <2>1. /\ UNCHANGED <<runs, exit, effects>>
        /\ crashed' = [q \in RunIds |-> crashed[q] \/ WorksOn(e, q)]
        /\ \A f \in Executors \ {e} : Still(f)
    BY <1>0, <1>10 DEF Crash, Return, ledgerVars, Still
  <2>2. ~crashed[r] /\ ~WorksOn(e, r)
    BY <2>1 DEF Unfinished
  <2>3. ~Leads(e, r)
    BY <2>2 DEF Leads, WorksOn, Executing
  <2> QED
    BY <2>1, <2>2, <2>3, LeaderOrMover
<1>11. ASSUME NEW q \in RunIds, NEW plan \in Plans \cup {NoPlan}, NEW code \in {"0", "1"},
              RecordOnly(q, plan, code)
       PROVE  Goal
  <2>1. q # r
    BY <1>0, <1>11 DEF RecordOnly, RecordRun, Unfinished, HasLedger
  <2>2. /\ runs'[r] = runs[r] /\ exit'[r] = exit[r] /\ effects'[r] = effects[r]
        /\ crashed' = crashed /\ \A f \in Executors : Still(f)
    BY <1>0, <1>11, <2>1 DEF RecordOnly, RecordRun, procVars, Still
  <2>3. PICK f \in Executors : Leads(f, r)
    BY <1>0, <2>2, WasUnfinished DEF Led
  <2> QED
    BY <2>2, <2>3, LeadsKeeps
<1>12. CASE UNCHANGED vars
  <2>1. /\ UNCHANGED <<runs, exit, effects, crashed>> /\ \A f \in Executors : Still(f)
    BY <1>12 DEF vars, ledgerVars, procVars, Still
  <2>2. PICK f \in Executors : Leads(f, r)
    BY <1>0, <2>1, WasUnfinished DEF Led
  <2> QED
    BY <2>1, <2>2, LeadsKeeps
<1> QED
  BY <1>1, <1>2, <1>3, <1>4, <1>5, <1>6, <1>7, <1>8, <1>9, <1>10, <1>11, <1>12 DEF Next, Step

\* Runs of an older release begin as if a crash had hit them.
LEMMA LedInit == Init => Led
<1> SUFFICES ASSUME Init, NEW r \in RunIds PROVE ~Unfinished(r)
  BY DEF Led
<1>1. CASE r \in LegacyRuns
  BY <1>1 DEF Init, Unfinished
<1>2. CASE r \notin LegacyRuns
  <2>1. runs[r] = NoRow
    BY <1>2 DEF Init, LedgerInit
  <2> QED
    BY <2>1 DEF Unfinished, HasLedger
<1> QED
  BY <1>1, <1>2

\* A run without an exit code has a process at work on it, or lost one to a
\* crash: processes that race for it never all leave it to each other.
THEOREM OnlyCrashesAbandonHolds == Spec => []OnlyCrashesAbandon
<1>1. IInv /\ Led /\ [Next]_vars => Led'
  BY LedNext DEF Led
<1>2. Led => OnlyCrashesAbandon
  BY DEF Led, OnlyCrashesAbandon, Unfinished, Leads, WorksOn, Executing
<1> QED
  BY <1>1, <1>2, LedInit, InductiveInvariant, PTL DEF Spec

-----------------------------------------------------------------------------
\* Executor implements RunPromise

\* The state of RunPromise that a state of Executor stands for.
Accepted == [r \in RunIds |-> HasLedger(r)]
Limit == [r \in RunIds |-> [i \in StepIdx |-> StepLimit(r, i)]]
Open == [r \in RunIds |-> StepsIn(r, "DISPATCHING")]
Confirmed == [r \in RunIds |-> StepsIn(r, "SUCCEEDED")]
Lost == [r \in RunIds |-> StepsIn(r, "FAILED_UNKNOWN")]
Verdict == [r \in RunIds |-> IF HasLedger(r) THEN exit[r] ELSE "null"]

promised == <<Accepted, Limit, calls, Open, Confirmed, Lost, Verdict>>

\* What is accepted with a run is a number of entries for each step.
LEMMA LimitTyped ==
  Limit \in [RunIds -> [StepIdx -> Nat]] /\ Limit' \in [RunIds -> [StepIdx -> Nat]]
<1>1. \A r \in RunIds, i \in StepIdx : StepLimit(r, i) \in Nat /\ StepLimit(r, i)' \in Nat
  BY RetriesAssumption DEF StepLimit, CallLimit
<1> QED
  BY <1>1 DEF Limit

\* A step that keeps row, effects, exit code and calls of a run keeps what is
\* promised of it.
LEMMA SameRun ==
  ASSUME NEW r \in RunIds, runs'[r] = runs[r], effects'[r] = effects[r], exit'[r] = exit[r]
  PROVE  /\ Accepted'[r] = Accepted[r] /\ Limit'[r] = Limit[r] /\ Open'[r] = Open[r]
         /\ Confirmed'[r] = Confirmed[r] /\ Lost'[r] = Lost[r] /\ Verdict'[r] = Verdict[r]
  BY DEF Accepted, Limit, Open, Confirmed, Lost, Verdict, HasLedger, StepLimit, CallLimit, StepsIn

\* Effects do not change what was accepted and reported.
LEMMA SameRow ==
  ASSUME UNCHANGED <<runs, exit>>
  PROVE  UNCHANGED <<Accepted, Limit, Verdict>>
  BY DEF Accepted, Limit, Verdict, HasLedger, StepLimit, CallLimit

\* begin_run accepts a run with its limits.
LEMMA BeginAccepts ==
  ASSUME IInv, IInv', NEW e \in Executors, NEW r \in RunIds, Begin(e, r)
  PROVE  Promise!Accept(r)
<1>1. /\ runs[r] = NoRow /\ runs'[r] # NoRow /\ runs'[r].ledger
      /\ \A q \in RunIds \ {r} : runs'[q] = runs[q] /\ effects'[q] = effects[q]
      /\ \A i \in StepIdx : effects'[r][i] \in {"INTENT_RECORDED", "NO_ROW"}
      /\ UNCHANGED <<exit, calls>>
  <2>1. /\ runs \in [RunIds -> Row \cup {NoRow}] /\ req[e] \in Request
        /\ effects \in [RunIds -> [StepIdx -> EffectStates \cup {"NO_ROW"}]]
    BY DEF IInv, TypeOK, LedgerTypeOK, ReqOK, Begin
  <2>2. runs'[r] \in Row
    BY <2>1, DigestTyped DEF Begin, BeginRun, Request, Row
  <2>3. runs'[r] # NoRow
    BY <2>2, SentinelAssumption
  <2> QED
    BY <2>1, <2>3 DEF Begin, BeginRun
<1>2. HasLedger(r)' /\ ~HasLedger(r)
  BY <1>1 DEF HasLedger
<1>3. \A i \in StepIdx : effects[r][i] = "NO_ROW"
  BY <1>2 DEF IInv, LedgerShape
<1>4. exit[r] = "null"
  BY <1>1 DEF IInv, LedgerShape
<1>5. \A q \in RunIds \ {r} :
        /\ Accepted'[q] = Accepted[q] /\ Limit'[q] = Limit[q] /\ Open'[q] = Open[q]
        /\ Confirmed'[q] = Confirmed[q] /\ Lost'[q] = Lost[q] /\ Verdict'[q] = Verdict[q]
  BY <1>1, SameRun
<1>6. /\ Open[r] = {} /\ Open'[r] = {} /\ Confirmed[r] = {} /\ Confirmed'[r] = {}
      /\ Lost[r] = {} /\ Lost'[r] = {}
  BY <1>1, <1>3 DEF Open, Confirmed, Lost, StepsIn
<1>7. /\ Accepted[r] = FALSE /\ Accepted'[r] = TRUE
      /\ Verdict[r] = "null" /\ Verdict'[r] = "null"
  BY <1>1, <1>2, <1>4 DEF Accepted, Verdict
<1>8. Accepted' = [Accepted EXCEPT ![r] = TRUE]
  BY <1>5, <1>7 DEF Accepted
<1>9. Limit' \in [RunIds -> [StepIdx -> Nat]]
  BY LimitTyped
<1>10. Open' = Open /\ Confirmed' = Confirmed /\ Lost' = Lost /\ Verdict' = Verdict
  <2>1. Open' = Open
    BY <1>5, <1>6 DEF Open
  <2>2. Confirmed' = Confirmed
    BY <1>5, <1>6 DEF Confirmed
  <2>3. Lost' = Lost
    BY <1>5, <1>6 DEF Lost
  <2>4. Verdict' = Verdict
    BY <1>5, <1>7 DEF Verdict
  <2> QED
    BY <2>1, <2>2, <2>3, <2>4
<1> QED
  BY <1>1, <1>5, <1>7, <1>8, <1>9, <1>10
  DEF Promise!Accept, Accepted, Limit, Open, Confirmed, Lost, Verdict

\* One step of one run changes its state, and no other does.
OneEffect(r, i, state) ==
  /\ \A q \in RunIds \ {r} : effects'[q] = effects[q]
  /\ effects'[r][i] = state
  /\ \A j \in StepIdx \ {i} : effects'[r][j] = effects[r][j]

\* The step joins those in its new state and leaves the others; that is all.
LEMMA EffectMoves ==
  ASSUME NEW r \in RunIds, NEW i \in StepIdx, NEW state, OneEffect(r, i, state), NEW s
  PROVE  /\ s = state => StepsIn(r, s)' = StepsIn(r, s) \cup {i}
         /\ s # state => StepsIn(r, s)' = StepsIn(r, s) \ {i}
         /\ \A q \in RunIds \ {r} : StepsIn(q, s)' = StepsIn(q, s)
<1>1. CASE s = state
  BY <1>1 DEF OneEffect, StepsIn
<1>2. CASE s # state
  BY <1>2 DEF OneEffect, StepsIn
<1> QED
  BY <1>1, <1>2 DEF OneEffect, StepsIn

\* The steps before an unconfirmed one are all confirmed, those behind it are not
\* begun, so that one alone can be in flight or lost.
LEMMA Frontier ==
  ASSUME IInv, NEW r \in RunIds, NEW i \in StepIdx,
         effects[r][i] \in {"INTENT_RECORDED", "DISPATCHING"},
         \A j \in StepIdx : j < i => effects[r][j] = "SUCCEEDED"
  PROVE  /\ StepsIn(r, "SUCCEEDED") = {j \in StepIdx : j < i}
         /\ StepsIn(r, "DISPATCHING") \subseteq {i}
         /\ StepsIn(r, "FAILED_UNKNOWN") = {}
<1>1. \A j \in StepIdx : j < i \/ j = i \/ i < j
  BY DEF StepIdx
<1>2. \A j \in StepIdx : i < j => effects[r][j] \notin {"SUCCEEDED", "DISPATCHING", "FAILED_UNKNOWN"}
  <2>1. OrderedEffects
    BY DEF IInv
  <2> QED
    BY <2>1 DEF OrderedEffects, EffectStates
<1>3. \A j \in StepIdx : j < i => j # i /\ ~(i < j)
  BY DEF StepIdx
<1> QED
  BY <1>1, <1>2, <1>3 DEF StepsIn

\* dispatch_effect opens the step behind the confirmed ones.
LEMMA DispatchOpens ==
  ASSUME IInv, NEW e \in Executors, Dispatch(e),
         NEW r \in RunIds, NEW i \in StepIdx, r = req[e].run, i = cur[e]
  PROVE  Promise!Open(r, i)
<1>1. /\ r \in RunIds /\ i \in StepIdx /\ HasLedger(r) /\ i \in StepsOf(runs[r].plan)
      /\ \A j \in StepIdx : j < i => effects[r][j] = "SUCCEEDED"
  BY AtStep DEF Dispatch, AtTool, Executing
<1>2. /\ effects[r][i] = "INTENT_RECORDED" /\ OneEffect(r, i, "DISPATCHING")
      /\ UNCHANGED <<runs, exit, calls>>
  BY <1>1 DEF Dispatch, DispatchPermitted, DispatchEffect, OneEffect, IInv, TypeOK, LedgerTypeOK
<1>3. /\ StepsIn(r, "SUCCEEDED") = {j \in StepIdx : j < i}
      /\ StepsIn(r, "DISPATCHING") = {} /\ StepsIn(r, "FAILED_UNKNOWN") = {}
  <2>1. i \notin StepsIn(r, "DISPATCHING")
    BY <1>2 DEF StepsIn
  <2> QED
    BY <1>1, <1>2, <2>1, Frontier
<1>4. /\ StepsIn(r, "SUCCEEDED")' = StepsIn(r, "SUCCEEDED")
      /\ StepsIn(r, "DISPATCHING")' = {i}
      /\ StepsIn(r, "FAILED_UNKNOWN")' = StepsIn(r, "FAILED_UNKNOWN")
  <2>1. i \notin {j \in StepIdx : j < i}
    BY <1>1 DEF StepIdx
  <2> QED
    <3>1. StepsIn(r, "SUCCEEDED")' = StepsIn(r, "SUCCEEDED") \ {i}
      BY <1>2, EffectMoves
    <3>2. StepsIn(r, "DISPATCHING")' = StepsIn(r, "DISPATCHING") \cup {i}
      BY <1>2, EffectMoves
    <3>3. StepsIn(r, "FAILED_UNKNOWN")' = StepsIn(r, "FAILED_UNKNOWN") \ {i}
      BY <1>2, EffectMoves
    <3> QED
      BY <1>3, <2>1, <3>1, <3>2, <3>3
<1>5. /\ Open' = [Open EXCEPT ![r] = {i}] /\ UNCHANGED <<Confirmed, Lost>>
  <2>1. \A q \in RunIds \ {r} :
          /\ StepsIn(q, "DISPATCHING")' = StepsIn(q, "DISPATCHING")
          /\ StepsIn(q, "SUCCEEDED")' = StepsIn(q, "SUCCEEDED")
          /\ StepsIn(q, "FAILED_UNKNOWN")' = StepsIn(q, "FAILED_UNKNOWN")
    BY <1>2 DEF OneEffect, StepsIn
  <2> QED
    BY <1>1, <1>4, <2>1 DEF Open, Confirmed, Lost
<1>6. StepLimit(r, i) \in Nat /\ StepLimit(r, i) > 0
  BY <1>1, RetriesAssumption DEF StepLimit, CallLimit
<1>7. UNCHANGED <<Accepted, Limit, Verdict>>
  BY <1>2, SameRow
<1> QED
  BY <1>1, <1>2, <1>3, <1>5, <1>6, <1>7
  DEF Promise!Open, Promise!StepsOfRun, Accepted, Limit, Open, Confirmed, Lost, Verdict

\* A tool is entered while its step is open, and within the limit.
LEMMA CallEnters ==
  ASSUME IInv, NEW e \in Executors, EnterTool(e),
         NEW r \in RunIds, NEW i \in StepIdx, r = req[e].run, i = cur[e]
  PROVE  Promise!Enter(r, i)
<1>1. pc[e] = "call" /\ Executing(e) /\ i <= Len(req[e].plan) /\ effects[r][i] = "DISPATCHING"
  BY AtOwned DEF EnterTool
<1>2. /\ r \in RunIds /\ i \in StepIdx /\ HasLedger(r) /\ runs[r].plan = req[e].plan
      /\ i \in StepsOf(runs[r].plan)
  BY <1>1, AtStep
<1>3. runs[r].contract = ContractDigest(req[e].registry)
  BY <1>1 DEF IInv, ExecutesAsBound, BoundAs
<1>4. /\ attempt[e] \in 1..MaxAttempts(req[e].registry, req[e].plan[i].tool)
      /\ calls[r][i] = attempt[e] - 1
  BY <1>1 DEF IInv, ProcessesOK, AttemptOK
<1>5. CallLimit(r, i) = MaxAttempts(req[e].registry, req[e].plan[i].tool)
  BY <1>2, <1>3 DEF CallLimit, MaxAttempts, ContractDigest
<1>6. runs[r].contract # NoContract
  <2>1. req[e].registry \in RegistryType
    BY <1>1 DEF IInv, ReqOK, Request
  <2> QED
    BY <1>3, <2>1, DigestTyped, SentinelAssumption
<1>7. StepLimit(r, i) = CallLimit(r, i)
  BY <1>2, <1>6 DEF StepLimit
<1>8. CallLimit(r, i) \in Nat
  BY RetriesAssumption DEF CallLimit
<1>9. calls[r][i] < StepLimit(r, i)
  BY <1>4, <1>5, <1>7, <1>8
<1>10. i \in StepsIn(r, "DISPATCHING")
  BY <1>1, <1>2 DEF StepsIn
<1>11. UNCHANGED <<Accepted, Limit, Open, Confirmed, Lost, Verdict>>
  BY SameRow DEF EnterTool, ledgerVars, Open, Confirmed, Lost, StepsIn
<1>12. calls' = [calls EXCEPT ![r][i] = @ + 1]
  BY DEF EnterTool
<1> QED
  BY <1>2, <1>9, <1>10, <1>11, <1>12
  DEF Promise!Enter, Accepted, Limit, Open, Confirmed, Lost, Verdict

\* observe_effect confirms the open step or gives it up.
LEMMA ObserveEnds ==
  ASSUME IInv, NEW e \in Executors, Observe(e),
         NEW r \in RunIds, NEW i \in StepIdx, r = req[e].run, i = cur[e]
  PROVE  Promise!Confirm(r, i) \/ Promise!Lose(r, i)
<1> PICK state \in {"SUCCEEDED", "FAILED_UNKNOWN"} :
       state = IF outcome[e] = "ok" THEN "SUCCEEDED" ELSE "FAILED_UNKNOWN"
  OBVIOUS
<1>1. pc[e] = "observe" /\ Executing(e) /\ i <= Len(req[e].plan) /\ effects[r][i] = "DISPATCHING"
  BY AtOwned DEF Observe
<1>2. /\ r \in RunIds /\ i \in StepIdx
      /\ \A j \in StepIdx : j < i => effects[r][j] = "SUCCEEDED"
  BY <1>1, AtStep
<1>3. OneEffect(r, i, state) /\ UNCHANGED <<runs, exit, calls>>
  BY <1>1, <1>2 DEF Observe, ObserveEffect, OneEffect, IInv, TypeOK, LedgerTypeOK
<1>4. calls[r][i] = attempt[e] /\ attempt[e] > 0
  BY <1>1 DEF IInv, ProcessesOK, AttemptOK, TypeOK
<1>5. StepsIn(r, "DISPATCHING") = {i} /\ StepsIn(r, "FAILED_UNKNOWN") = {}
  <2>1. i \in StepsIn(r, "DISPATCHING")
    BY <1>1, <1>2 DEF StepsIn
  <2> QED
    BY <1>1, <1>2, <2>1, Frontier
<1>6. /\ StepsIn(r, "DISPATCHING")' = {}
      /\ state = "SUCCEEDED" =>
           /\ StepsIn(r, "SUCCEEDED")' = StepsIn(r, "SUCCEEDED") \cup {i}
           /\ StepsIn(r, "FAILED_UNKNOWN")' = StepsIn(r, "FAILED_UNKNOWN")
      /\ state = "FAILED_UNKNOWN" =>
           /\ StepsIn(r, "SUCCEEDED")' = StepsIn(r, "SUCCEEDED")
           /\ StepsIn(r, "FAILED_UNKNOWN")' = {i}
  <2>1. i \notin StepsIn(r, "SUCCEEDED")
    BY <1>1 DEF StepsIn
  <2> QED
    <3>1. StepsIn(r, "DISPATCHING")' = StepsIn(r, "DISPATCHING") \ {i}
      BY <1>3, EffectMoves
    <3>2. /\ state = "SUCCEEDED" => StepsIn(r, "SUCCEEDED")' = StepsIn(r, "SUCCEEDED") \cup {i}
          /\ state # "SUCCEEDED" => StepsIn(r, "SUCCEEDED")' = StepsIn(r, "SUCCEEDED") \ {i}
      BY <1>3, EffectMoves
    <3>3. /\ state = "FAILED_UNKNOWN" =>
               StepsIn(r, "FAILED_UNKNOWN")' = StepsIn(r, "FAILED_UNKNOWN") \cup {i}
          /\ state # "FAILED_UNKNOWN" =>
               StepsIn(r, "FAILED_UNKNOWN")' = StepsIn(r, "FAILED_UNKNOWN") \ {i}
      BY <1>3, EffectMoves
    <3> QED
      BY <1>5, <2>1, <3>1, <3>2, <3>3
<1>11. \A q \in RunIds \ {r} :
         /\ StepsIn(q, "DISPATCHING")' = StepsIn(q, "DISPATCHING")
         /\ StepsIn(q, "SUCCEEDED")' = StepsIn(q, "SUCCEEDED")
         /\ StepsIn(q, "FAILED_UNKNOWN")' = StepsIn(q, "FAILED_UNKNOWN")
  BY <1>3 DEF OneEffect, StepsIn
<1>7. UNCHANGED <<Accepted, Limit, Verdict>>
  BY <1>3, SameRow
<1>8. Open' = [Open EXCEPT ![r] = {}]
  BY <1>2, <1>6, <1>11 DEF Open
<1>9. CASE state = "SUCCEEDED"
  <2>1. Confirmed' = [Confirmed EXCEPT ![r] = @ \cup {i}] /\ Lost' = Lost
    BY <1>2, <1>6, <1>9, <1>11 DEF Confirmed, Lost
  <2> QED
    BY <1>2, <1>3, <1>4, <1>5, <1>7, <1>8, <2>1
    DEF Promise!Confirm, Accepted, Limit, Open, Confirmed, Lost, Verdict
<1>10. CASE state = "FAILED_UNKNOWN"
  <2>1. Lost' = [Lost EXCEPT ![r] = {i}] /\ Confirmed' = Confirmed
    BY <1>2, <1>6, <1>10, <1>11 DEF Confirmed, Lost
  <2> QED
    BY <1>2, <1>3, <1>4, <1>5, <1>7, <1>8, <2>1
    DEF Promise!Lose, Accepted, Limit, Open, Confirmed, Lost, Verdict
<1> QED
  BY <1>9, <1>10

\* finish_run reports what the steps say.
LEMMA FinishCloses ==
  ASSUME IInv, NEW e \in Executors, Finish(e), NEW r \in RunIds, r = req[e].run
  PROVE  Promise!Close(r)
<1> DEFINE code == IF outcome[e] = "ok" THEN "0" ELSE "1"
<1>1. /\ pc[e] = "finish" /\ r \in RunIds /\ HasLedger(r) /\ runs[r].plan \in Plans
      /\ StatusOK(e)
  BY DEF Finish, IInv, ReqOK, ExecutesAsBound, BoundAs, Executing, LedgerShape, ProcessesOK
<1>2. exit' = [exit EXCEPT ![r] = code] /\ UNCHANGED <<runs, effects, calls>>
  BY DEF Finish, FinishRun
<1>3. UNCHANGED <<Accepted, Limit, Open, Confirmed, Lost>>
  BY <1>2 DEF Accepted, Limit, HasLedger, StepLimit, CallLimit, Open, Confirmed, Lost, StepsIn
<1>4. Verdict' = [Verdict EXCEPT ![r] = code]
  BY <1>1, <1>2 DEF Verdict, HasLedger, IInv, TypeOK, LedgerTypeOK
<1>5. CASE outcome[e] = "ok"
  <2>1. AllSucceeded(r)
    BY <1>1, <1>5 DEF StatusOK
  <2>2. \A i \in StepIdx : StepLimit(r, i) > 0 <=> i \in StepsOf(runs[r].plan)
    BY <1>1, RetriesAssumption DEF StepLimit, CallLimit
  <2>3. \A i \in StepIdx : effects[r][i] = "NO_ROW" <=> i \notin StepsOf(runs[r].plan)
    BY <1>1 DEF IInv, LedgerShape
  <2>4. Confirmed[r] = {i \in StepIdx : Limit[r][i] > 0}
    BY <1>1, <2>1, <2>2, <2>3 DEF Confirmed, Limit, StepsIn, AllSucceeded
  <2> QED
    BY <1>1, <1>2, <1>3, <1>4, <1>5, <2>4
    DEF Promise!Close, Promise!StepsOfRun, Accepted, Limit, Open, Confirmed, Lost, Verdict
<1>6. CASE outcome[e] # "ok"
  <2>1. cur[e] \in StepsIn(r, "FAILED_UNKNOWN")
    BY <1>1, <1>6 DEF StatusOK, StepsIn
  <2> QED
    BY <1>1, <1>2, <1>3, <1>4, <1>6, <2>1
    DEF Promise!Close, Accepted, Limit, Open, Confirmed, Lost, Verdict
<1> QED
  BY <1>5, <1>6

\* The other steps mean nothing to the promise.
LEMMA OthersStutter ==
  ASSUME IInv, IInv', [Next]_vars
  PROVE  \/ \E e \in Executors :
              \/ \E r \in RunIds : Begin(e, r)
              \/ Dispatch(e) \/ EnterTool(e) \/ Observe(e) \/ Finish(e)
         \/ UNCHANGED promised
<1>1. ASSUME UNCHANGED <<runs, exit, effects, calls>> PROVE UNCHANGED promised
  BY <1>1, SameRow DEF promised, Open, Confirmed, Lost, StepsIn
<1>2. ASSUME NEW e \in Executors,
             \/ Arrive(e) \/ BeginRefused(e) \/ Bind(e) \/ BindRefused(e) \/ Reuse(e)
             \/ DispatchRefused(e) \/ Retry(e) \/ Halt(e) \/ Crash(e)
      PROVE  UNCHANGED promised
  BY <1>1, <1>2 DEF Arrive, Submit, Recover, ReplayLive, Accept, BeginRefused, Bind, BindRefused,
     Reuse, DispatchRefused, Retry, SaveRetry, Halt, Crash, ledgerVars
<1>3. ASSUME NEW q \in RunIds, NEW plan \in Plans \cup {NoPlan}, NEW code \in {"0", "1"},
             RecordOnly(q, plan, code)
      PROVE  UNCHANGED promised
  <2>1. /\ runs[q] = NoRow /\ UNCHANGED <<effects, calls>>
        /\ \A r \in RunIds \ {q} : runs'[r] = runs[r] /\ exit'[r] = exit[r]
        /\ ~HasLedger(q) /\ ~HasLedger(q)'
    BY <1>3 DEF RecordOnly, RecordRun, HasLedger, IInv, TypeOK, LedgerTypeOK
  <2>2. \A r \in RunIds \ {q} :
          Accepted'[r] = Accepted[r] /\ Limit'[r] = Limit[r] /\ Verdict'[r] = Verdict[r]
    BY <2>1, SameRun
  <2>3. Accepted'[q] = Accepted[q] /\ Limit'[q] = Limit[q] /\ Verdict'[q] = Verdict[q]
    <3>1. Accepted'[q] = Accepted[q] /\ Verdict'[q] = Verdict[q]
      <4>1. HasLedger(q) = FALSE /\ HasLedger(q)' = FALSE
        BY <2>1 DEF HasLedger
      <4> QED
        BY <4>1 DEF Accepted, Verdict
    <3>2. \A i \in StepIdx : StepLimit(q, i) = 0 /\ StepLimit(q, i)' = 0
      BY <2>1 DEF StepLimit
    <3>3. Limit'[q] = [i \in StepIdx |-> 0] /\ Limit[q] = [i \in StepIdx |-> 0]
      BY <3>2 DEF Limit
    <3> QED
      BY <3>1, <3>3
  <2>4. UNCHANGED <<Open, Confirmed, Lost>>
    BY <2>1 DEF Open, Confirmed, Lost, StepsIn
  <2>5. Accepted' = Accepted
    BY <2>2, <2>3 DEF Accepted
  <2>6. Limit' = Limit
    BY <2>2, <2>3 DEF Limit
  <2>7. Verdict' = Verdict
    BY <2>2, <2>3 DEF Verdict
  <2> QED
    BY <2>1, <2>4, <2>5, <2>6, <2>7 DEF promised
<1>4. CASE UNCHANGED vars
  BY <1>1, <1>4 DEF vars, ledgerVars
<1> QED
  BY <1>2, <1>3, <1>4 DEF Next, Step, CallReturned, CallFailed

\* No run is under way at first.
LEMMA InitPromises == Init => Promise!Init
<1> SUFFICES ASSUME Init PROVE Promise!Init
  OBVIOUS
<1>1. TypeOK
  BY InitTyped DEF TypeInv
<1>2. \A r \in RunIds, i \in StepIdx : effects[r][i] \in {"INTENT_RECORDED", "NO_ROW"}
  BY DEF Init, LedgerInit
<1>3. \A r \in RunIds : exit[r] = "null"
  BY DEF Init, LedgerInit
<1>4. /\ Open = [r \in RunIds |-> {}] /\ Confirmed = [r \in RunIds |-> {}]
      /\ Lost = [r \in RunIds |-> {}] /\ Verdict = [r \in RunIds |-> "null"]
  BY <1>2, <1>3 DEF Open, Confirmed, Lost, Verdict, StepsIn
<1>5. calls = [r \in RunIds |-> [i \in StepIdx |-> 0]]
  BY DEF Init
<1> QED
  <2>1. Accepted \in [RunIds -> BOOLEAN]
    <3>1. \A r \in RunIds : HasLedger(r) \in BOOLEAN
      BY <1>1 DEF HasLedger, TypeOK, LedgerTypeOK, Row
    <3> QED
      BY <3>1 DEF Accepted
  <2> QED
    BY <1>4, <1>5, <2>1, LimitTyped
    DEF Promise!Init, Accepted, Limit, Open, Confirmed, Lost, Verdict

\* Every behaviour of any number of processes, with their crashes, recoveries and
\* stale snapshots, is one of the ordered at-most-once runs of RunPromise.
THEOREM KeepsPromiseHolds == Spec => KeepsPromise
<1>1. IInv /\ IInv' /\ [Next]_vars => [Promise!Next]_(Promise!promiseVars)
  <2> SUFFICES ASSUME IInv, IInv', [Next]_vars
               PROVE  Promise!Next \/ UNCHANGED Promise!promiseVars
    OBVIOUS
  <2>1. CASE UNCHANGED promised
    BY <2>1 DEF Promise!promiseVars, promised, Accepted, Limit, Open, Confirmed, Lost, Verdict
  <2>2. ASSUME NEW e \in Executors, NEW r \in RunIds, Begin(e, r) PROVE Promise!Next
    BY <2>2, BeginAccepts DEF Promise!Next
  <2>3. ASSUME NEW e \in Executors, pc[e] \in {"step", "call", "observe"},
               Executing(e), cur[e] <= Len(req[e].plan)
        PROVE  req[e].run \in RunIds /\ cur[e] \in StepIdx
    BY <2>3, AtStep
  <2>4. ASSUME NEW e \in Executors, Dispatch(e) \/ EnterTool(e) \/ Observe(e) PROVE Promise!Next
    <3>1. PICK r \in RunIds, i \in StepIdx : r = req[e].run /\ i = cur[e]
      BY <2>3, <2>4, AtOwned DEF Dispatch, AtTool, EnterTool, Observe, Executing
    <3> QED
      BY <2>4, <3>1, DispatchOpens, CallEnters, ObserveEnds DEF Promise!Next
  <2>5. ASSUME NEW e \in Executors, Finish(e) PROVE Promise!Next
    <3>1. PICK r \in RunIds : r = req[e].run
      BY <2>5 DEF Finish, IInv, ReqOK
    <3> QED
      BY <2>5, <3>1, FinishCloses DEF Promise!Next
  <2> QED
    BY <2>1, <2>2, <2>4, <2>5, OthersStutter
<1> QED
  BY <1>1, InitPromises, InductiveInvariant, PTL DEF Spec, KeepsPromise, Promise!Spec

=============================================================================
