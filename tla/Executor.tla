------------------------------ MODULE Executor ------------------------------
(***************************************************************************)
(* apex/core/loop.py and the live half of apex/replay.py: processes that   *)
(* execute plans against the shared effect ledger.  A process is one       *)
(* `apex run`, `apex replay --mode live`, swarm worker or `apex serve`     *)
(* request; several may work on the same run at once, which nothing in the *)
(* code prevents.  Each action is the code between two transactions, or    *)
(* one transaction; a crash may fall between any two of them.              *)
(*                                                                         *)
(* calls and crashed are history variables: how often a step's tool code   *)
(* was entered, and whether a process died while it was working on a run.  *)
(***************************************************************************)
EXTENDS EffectLedger, FiniteSets

CONSTANTS
  Executors,  \* processes sharing the history database
  Retries,    \* _MAX_RETRIES: attempts at a step whose tool is retry_safe
  WriteFile,  \* the tool that `apex replay --no-write` removes
  NoRequest,  \* an idle process serves no request
  NoRun       \* run_id=None: the run is not begun yet

ASSUME RetriesAssumption == Retries \in Nat \ {0}
ASSUME RequestSentinels == NoRun \notin RunIds

VARIABLES
  pc,       \* where a process stands
  req,      \* the request it serves: run, plan, registry, authorization
  cur,      \* step_index of _execute
  snap,     \* the effect states it read from bound_effects
  attempt,  \* attempt of the retry loop
  outcome,  \* whether the last attempt gave Ok or Err
  calls,    \* calls[r][i]: entries into tool code for step i of run r
  crashed   \* crashed[r]: a process working on r died

procVars == <<pc, req, cur, snap, attempt, outcome>>
vars == <<ledgerVars, procVars, calls, crashed>>

PC == {"idle", "begin", "bind", "step", "call", "retry", "observe", "finish"}

Request == [run : RunIds \cup {NoRun}, plan : Plans, registry : RegistryType,
            auth : AuthType \cup {NoAuth}, noWrite : BOOLEAN]

\* Between bound_effects and the reply a process works on the run it bound.
Executing(e) == pc[e] \in {"step", "call", "retry", "observe", "finish"}

WorksOn(e, r) == (pc[e] = "bind" \/ Executing(e)) /\ req[e].run = r

\* The process that dispatched step i of run r and has not stored its outcome.
Owns(e, r, i) ==
  pc[e] \in {"call", "retry", "observe"} /\ req[e].run = r /\ cur[e] = i

\* max_attempts for a tool under the registry of the request.
MaxAttempts(registry, tool) ==
  IF tool \in registry.retrySafe \cap registry.tools THEN Retries ELSE 1

\* parse_plan against the active registry: every tool is known to it, and takes
\* the arguments it is given (_validate_args).
ValidPlan(plan, registry) ==
  \A i \in StepsOf(plan) : plan[i].tool \in registry.tools /\ plan[i] \in registry.accepts

NoSnap == [i \in StepIdx |-> "NO_ROW"]

\* A process returns: its locals are gone.
Return(e) ==
  /\ pc' = [pc EXCEPT ![e] = "idle"]
  /\ req' = [req EXCEPT ![e] = NoRequest]
  /\ cur' = [cur EXCEPT ![e] = 0]
  /\ snap' = [snap EXCEPT ![e] = NoSnap]
  /\ attempt' = [attempt EXCEPT ![e] = 0]
  /\ outcome' = [outcome EXCEPT ![e] = "none"]

-----------------------------------------------------------------------------
\* Requests

\* Bound of the model: begin_run always finds a fresh id.
RoomForRun ==
  Cardinality({r \in RunIds : runs[r] = NoRow}) >
  Cardinality({e \in Executors : pc[e] = "begin"})

Accept(e, at, run, plan, registry, auth, noWrite) ==
  /\ pc[e] = "idle"
  /\ ValidPlan(plan, registry)
  /\ pc' = [pc EXCEPT ![e] = at]
  /\ req' = [req EXCEPT ![e] =
       [run |-> run, plan |-> plan, registry |-> registry, auth |-> auth,
        noWrite |-> noWrite]]
  /\ UNCHANGED <<ledgerVars, cur, snap, attempt, outcome, calls, crashed>>

\* run and run_plan without a run id: the plan passed parse_plan and the audit.
Submit(e, plan, registry, auth) ==
  /\ RoomForRun
  /\ Accept(e, "begin", NoRun, plan, registry, auth, FALSE)

\* _finish without a run id: a dry run (exit 0), a refused audit, or a plan
\* that could not be generated (no plan).
RecordOnly(r, plan, code) ==
  /\ RoomForRun
  /\ plan = NoPlan => code = "1"
  /\ RecordRun(r, plan, code)
  /\ UNCHANGED <<procVars, calls, crashed>>

\* run_plan with a run id: a caller recovers any run with a plan it holds.
Recover(e, r, plan, registry, auth) ==
  Accept(e, "bind", r, plan, registry, auth, FALSE)

WithoutWrite(registry) == [registry EXCEPT !.tools = @ \ {WriteFile}]

\* replay_main --mode live: the recorded plan, the current registry (without
\* write_file under --no-write) and no authorization.
ReplayLive(e, r, registry, noWrite) ==
  /\ runs[r] # NoRow
  /\ runs[r].plan # NoPlan
  /\ Accept(e, "bind", r, runs[r].plan,
            IF noWrite THEN WithoutWrite(registry) ELSE registry, NoAuth, noWrite)

-----------------------------------------------------------------------------
\* _run_prepared and _execute

\* begin_run validates the authorization first, then commits everything.
Begin(e, r) ==
  /\ pc[e] = "begin"
  /\ req[e].auth # NoAuth => ValidAuthorization(req[e].auth, req[e].plan)
  /\ BeginRun(r, req[e].plan, ContractDigest(req[e].registry), req[e].auth)
  /\ req' = [req EXCEPT ![e].run = r]
  /\ pc' = [pc EXCEPT ![e] = "bind"]
  /\ UNCHANGED <<cur, snap, attempt, outcome, calls, crashed>>

BeginRefused(e) ==
  /\ pc[e] = "begin"
  /\ req[e].auth # NoAuth
  /\ ~ValidAuthorization(req[e].auth, req[e].plan)
  /\ Return(e)
  /\ UNCHANGED <<ledgerVars, calls, crashed>>

\* MUTANT of Permitted: the registry contract of the run is not compared.
PermittedAnyContract(e) ==
  /\ BoundTo(req[e].run, req[e].plan, runs[req[e].run].contract, req[e].auth)
  /\ UncertainSteps(req[e].run) = {}

\* The bindings agree and no step has an uncertain outcome.
Permitted(e) ==
  /\ BoundTo(req[e].run, req[e].plan, ContractDigest(req[e].registry), req[e].auth)
  /\ UncertainSteps(req[e].run) = {}

Bind(e) ==
  /\ pc[e] = "bind"
  /\ Permitted(e)
  /\ snap' = [snap EXCEPT ![e] = effects[req[e].run]]
  /\ cur' = [cur EXCEPT ![e] = 1]
  /\ pc' = [pc EXCEPT ![e] = "step"]
  /\ UNCHANGED <<ledgerVars, req, attempt, outcome, calls, crashed>>

\* RecoveryBlocked: an ERROR reply, and finish_run is not called.
BindRefused(e) ==
  /\ pc[e] = "bind"
  /\ ~Permitted(e)
  /\ Return(e)
  /\ UNCHANGED <<ledgerVars, calls, crashed>>

AtTool(e) == pc[e] = "step" /\ cur[e] <= Len(req[e].plan)

\* A step the snapshot shows SUCCEEDED keeps its recorded result.
Reuse(e) ==
  /\ AtTool(e)
  /\ snap[e][cur[e]] = "SUCCEEDED"
  /\ cur' = [cur EXCEPT ![e] = @ + 1]
  /\ UNCHANGED <<ledgerVars, pc, req, snap, attempt, outcome, calls, crashed>>

Dispatch(e) ==
  /\ AtTool(e)
  /\ snap[e][cur[e]] # "SUCCEEDED"
  /\ DispatchPermitted(req[e].run, cur[e])
  /\ DispatchEffect(req[e].run, cur[e])
  /\ attempt' = [attempt EXCEPT ![e] = 1]
  /\ pc' = [pc EXCEPT ![e] = "call"]
  /\ UNCHANGED <<req, cur, snap, outcome, calls, crashed>>

\* Another process dispatched the step after this one took its snapshot.
DispatchRefused(e) ==
  /\ AtTool(e)
  /\ snap[e][cur[e]] # "SUCCEEDED"
  /\ ~DispatchPermitted(req[e].run, cur[e])
  /\ Return(e)
  /\ UNCHANGED <<ledgerVars, calls, crashed>>

\* MUTANT of MayRetry: the loop runs once more than max_attempts.
MayRetryOnceMore(e) ==
  attempt[e] <= MaxAttempts(req[e].registry, req[e].plan[cur[e]].tool)

\* attempt < max_attempts
MayRetry(e) == attempt[e] < MaxAttempts(req[e].registry, req[e].plan[cur[e]].tool)

EnterTool(e) ==
  /\ pc[e] = "call"
  /\ calls' = [calls EXCEPT ![req[e].run][cur[e]] = @ + 1]
  /\ UNCHANGED <<ledgerVars, req, cur, snap, attempt, crashed>>

\* The tool returned: acceptable JSON is Ok, anything else is an Err that
\* leaves the loop by the same break and is not retried.
CallReturned(e) ==
  /\ EnterTool(e)
  /\ \E ok \in {"ok", "err"} : outcome' = [outcome EXCEPT ![e] = ok]
  /\ pc' = [pc EXCEPT ![e] = "observe"]

\* The tool raised or SIGALRM ended it; its effect may have happened.
CallFailed(e) ==
  /\ EnterTool(e)
  /\ outcome' = [outcome EXCEPT ![e] = "err"]
  /\ pc' = [pc EXCEPT ![e] = IF MayRetry(e) THEN "retry" ELSE "observe"]

\* MUTANT of Retry: the attempt is not counted.
RetryUncounted(e) ==
  /\ pc[e] = "retry"
  /\ SaveRetry(req[e].run, cur[e])
  /\ outcome' = [outcome EXCEPT ![e] = "none"]
  /\ pc' = [pc EXCEPT ![e] = "call"]
  /\ UNCHANGED <<req, cur, snap, attempt, calls, crashed>>

\* The observed error is saved before the next attempt.
Retry(e) ==
  /\ pc[e] = "retry"
  /\ SaveRetry(req[e].run, cur[e])
  /\ attempt' = [attempt EXCEPT ![e] = @ + 1]
  /\ outcome' = [outcome EXCEPT ![e] = "none"]
  /\ pc' = [pc EXCEPT ![e] = "call"]
  /\ UNCHANGED <<req, cur, snap, calls, crashed>>

\* MUTANT of Observe: the error path returns without _finish.
ObserveSkipsFinish(e) ==
  /\ pc[e] = "observe"
  /\ ObserveEffect(req[e].run, cur[e], outcome[e] = "ok")
  /\ IF outcome[e] = "ok"
     THEN /\ pc' = [pc EXCEPT ![e] = "step"]
          /\ cur' = [cur EXCEPT ![e] = @ + 1]
          /\ outcome' = [outcome EXCEPT ![e] = "none"]
          /\ attempt' = [attempt EXCEPT ![e] = 0]
          /\ UNCHANGED <<req, snap>>
     ELSE Return(e)
  /\ UNCHANGED <<calls, crashed>>

\* MUTANT of Observe: the loop goes on to the next step after an error.
ObserveGoesOn(e) ==
  /\ pc[e] = "observe"
  /\ ObserveEffect(req[e].run, cur[e], outcome[e] = "ok")
  /\ pc' = [pc EXCEPT ![e] = "step"]
  /\ cur' = [cur EXCEPT ![e] = @ + 1]
  /\ outcome' = [outcome EXCEPT ![e] = "none"]
  /\ attempt' = [attempt EXCEPT ![e] = 0]
  /\ UNCHANGED <<req, snap, calls, crashed>>

\* The outcome is stored; an error ends the plan.
Observe(e) ==
  /\ pc[e] = "observe"
  /\ ObserveEffect(req[e].run, cur[e], outcome[e] = "ok")
  /\ IF outcome[e] = "ok"
     THEN /\ pc' = [pc EXCEPT ![e] = "step"]
          /\ cur' = [cur EXCEPT ![e] = @ + 1]
          /\ outcome' = [outcome EXCEPT ![e] = "none"]
     ELSE /\ pc' = [pc EXCEPT ![e] = "finish"]
          /\ UNCHANGED <<cur, outcome>>
  /\ attempt' = [attempt EXCEPT ![e] = 0]
  /\ UNCHANGED <<req, snap, calls, crashed>>

\* MUTANT of Halt: the plan ends one step early.
HaltEarly(e) ==
  /\ pc[e] = "step"
  /\ cur[e] >= Len(req[e].plan)
  /\ outcome' = [outcome EXCEPT ![e] = "ok"]
  /\ pc' = [pc EXCEPT ![e] = "finish"]
  /\ UNCHANGED <<ledgerVars, req, cur, snap, attempt, calls, crashed>>

\* The Halt step: every tool call of the plan is behind.
Halt(e) ==
  /\ pc[e] = "step"
  /\ cur[e] = Len(req[e].plan) + 1
  /\ outcome' = [outcome EXCEPT ![e] = "ok"]
  /\ pc' = [pc EXCEPT ![e] = "finish"]
  /\ UNCHANGED <<ledgerVars, req, cur, snap, attempt, calls, crashed>>

\* _finish with a run id, and the reply.
Finish(e) ==
  /\ pc[e] = "finish"
  /\ FinishRun(req[e].run, IF outcome[e] = "ok" THEN "0" ELSE "1")
  /\ Return(e)
  /\ UNCHANGED <<calls, crashed>>

\* The process dies, or an error other than RecoveryBlocked unwinds it
\* (SQLite's "database is locked", KeyboardInterrupt).
Crash(e) ==
  /\ pc[e] # "idle"
  /\ Return(e)
  /\ crashed' = [r \in RunIds |-> crashed[r] \/ WorksOn(e, r)]
  /\ UNCHANGED <<ledgerVars, calls>>

-----------------------------------------------------------------------------

Init ==
  /\ LedgerInit
  /\ pc = [e \in Executors |-> "idle"]
  /\ req = [e \in Executors |-> NoRequest]
  /\ cur = [e \in Executors |-> 0]
  /\ snap = [e \in Executors |-> NoSnap]
  /\ attempt = [e \in Executors |-> 0]
  /\ outcome = [e \in Executors |-> "none"]
  /\ calls = [r \in RunIds |-> [i \in StepIdx |-> 0]]
  /\ crashed = [r \in RunIds |-> r \in LegacyRuns]

\* What a process does on its own once it accepted a request.
Step(e) ==
  \/ \E r \in RunIds : Begin(e, r)
  \/ BeginRefused(e)
  \/ Bind(e)
  \/ BindRefused(e)
  \/ Reuse(e)
  \/ Dispatch(e)
  \/ DispatchRefused(e)
  \/ CallReturned(e)
  \/ CallFailed(e)
  \/ Retry(e)
  \/ Observe(e)
  \/ Halt(e)
  \/ Finish(e)

\* A caller supplies any authorization, accepted or not, or none.
Auths == AuthType \cup {NoAuth}

Arrive(e) ==
  \/ \E plan \in Plans, registry \in Registries, auth \in Auths :
       Submit(e, plan, registry, auth)
  \/ \E r \in RunIds, plan \in Plans, registry \in Registries, auth \in Auths :
       Recover(e, r, plan, registry, auth)
  \/ \E r \in RunIds, registry \in Registries, noWrite \in BOOLEAN :
       ReplayLive(e, r, registry, noWrite)

Next ==
  \/ \E e \in Executors : Arrive(e) \/ Step(e) \/ Crash(e)
  \/ \E r \in RunIds, plan \in Plans \cup {NoPlan}, code \in {"0", "1"} :
       RecordOnly(r, plan, code)

\* A process that is not killed keeps running: tools end by SIGALRM.
Fairness == \A e \in Executors : WF_vars(Step(e))

Spec == Init /\ [][Next]_vars
FairSpec == Spec /\ Fairness

-----------------------------------------------------------------------------
\* Properties

\* Every variable keeps its type.
TypeOK ==
  /\ LedgerTypeOK
  /\ pc \in [Executors -> PC]
  /\ req \in [Executors -> Request \cup {NoRequest}]
  /\ cur \in [Executors -> Nat]
  /\ snap \in [Executors -> [StepIdx -> EffectStates \cup {"NO_ROW"}]]
  /\ attempt \in [Executors -> Nat]
  /\ outcome \in [Executors -> {"none", "ok", "err"}]
  /\ calls \in [RunIds -> [StepIdx -> Nat]]
  /\ crashed \in [RunIds -> BOOLEAN]

\* How often the contract a run was begun under lets step i enter tool code.
CallLimit(r, i) ==
  IF runs[r].plan[i].tool \in runs[r].contract.retrySafe THEN Retries ELSE 1

\* However many processes execute or recover a run, and wherever they die, a
\* step's tool is entered at most once, or _MAX_RETRIES times in all if the
\* bound contract marks it retry_safe (loop.py: max_attempts, and a restart
\* never resumes an ambiguous retry loop); a run without a contract, and a
\* run without a ledger, enter no tool.
AtMostOnce ==
  \A r \in RunIds, i \in StepIdx :
    calls[r][i] > 0 =>
      /\ HasLedger(r) /\ runs[r].contract # NoContract /\ i \in StepsOf(runs[r].plan)
      /\ calls[r][i] <= CallLimit(r, i)

\* Tool code is entered only behind the durable DISPATCHING boundary, and a
\* stored outcome has its tool call and its history event: what recovery reads
\* in the ledger is what happened (docs/execution.md, the table of states).
LedgerTellsTruth ==
  \A r \in RunIds, i \in StepIdx :
    /\ effects[r][i] \in {"NO_ROW", "INTENT_RECORDED"} =>
         calls[r][i] = 0 /\ events[r][i] = 0 /\ results[r][i] = "none"
    /\ effects[r][i] = "DISPATCHING" => events[r][i] = 0 /\ results[r][i] # "value"
    /\ effects[r][i] = "SUCCEEDED" =>
         calls[r][i] > 0 /\ events[r][i] = 1 /\ results[r][i] = "value"
    /\ effects[r][i] = "FAILED_UNKNOWN" =>
         calls[r][i] > 0 /\ events[r][i] = 1 /\ results[r][i] = "error"

\* Steps are dispatched in plan order, each behind confirmed ones: at most one
\* step of a run is in doubt, and nothing after it was ever dispatched, even
\* when a process works from a snapshot another process made stale.
OrderedEffects ==
  \A r \in RunIds, i, j \in StepIdx :
    i < j /\ effects[r][j] \in EffectStates \ {"INTENT_RECORDED"} =>
      effects[r][i] = "SUCCEEDED"

\* The compare-and-set of dispatch_effect makes a step's dispatcher its only
\* writer, so observe_effect is never refused by its rowcount check.
SoleDispatcher ==
  \A e \in Executors, r \in RunIds, i \in StepIdx :
    Owns(e, r, i) =>
      /\ effects[r][i] = "DISPATCHING"
      /\ \A f \in Executors : Owns(f, r, i) => f = e

\* exit_code tells how a ledger run ended: 0 only when every step is confirmed,
\* 1 only when a step failed; a later recovery never turns one into the other.
ExitTellsOutcome ==
  \A r \in RunIds : HasLedger(r) =>
    /\ exit[r] = "0" => AllSucceeded(r)
    /\ exit[r] = "1" => \E i \in StepIdx : effects[r][i] = "FAILED_UNKNOWN"

\* A run whose exit_code is still null has a process working on it, or lost one
\* to a crash: processes that race for a run and block each other never leave
\* it unfinished between them (RecoveryBlocked skips finish_run).
OnlyCrashesAbandon ==
  \A r \in RunIds :
    HasLedger(r) /\ exit[r] = "null" /\ ~crashed[r] =>
      \E e \in Executors : WorksOn(e, r)

BoundAs(e, row) ==
  /\ HasLedger(req[e].run) /\ row.plan = req[e].plan
  /\ row.contract = ContractDigest(req[e].registry)
  /\ row.auth # NoAuth => ValidAuthorization(row.auth, row.plan)
  /\ req[e].auth # NoAuth => req[e].auth = row.auth

\* A process past bound_effects executes the plan the run was begun with, under
\* a registry with the contract the run was begun with and, if the run is
\* authorized, on behalf of an accepted authorization of that very plan.
ExecutesAsBound == \A e \in Executors : Executing(e) => BoundAs(e, runs[req[e].run])

\* Step i of run r is in doubt and no process will store its outcome any more.
Orphaned(r, i) ==
  /\ effects[r][i] \in UncertainStates
  /\ \A e \in Executors : ~Owns(e, r, i)

\* An uncertain step whose process is gone freezes its run: no step of it is
\* dispatched, entered or resolved again, by a recovery or by a process that
\* bound the run before the doubt arose.
DoubtFreezesRun ==
  [][\A r \in RunIds, i \in StepIdx : Orphaned(r, i) =>
       effects'[r] = effects[r] /\ calls'[r] = calls[r] /\ results'[r] = results[r]]_vars

\* A run some process executes gets its exit_code, unless a process dies on
\* it: tools end by timeout, the retry loop is bounded, and whoever loses a
\* race for a step leaves the run to the winner.
RunsSettle ==
  \A r \in RunIds :
    (\E e \in Executors : Executing(e) /\ req[e].run = r) ~>
      (exit[r] # "null" \/ crashed[r])

\* What a process has ahead of it at most: a tool step costs its dispatch, an
\* entry and a save per attempt, and the storing of its outcome.
StepCost == 2 * Retries + 1
AheadAt(at, tools, step, try) ==
  CASE at = "idle" -> 0
    [] at = "begin" -> tools * StepCost + 4
    [] at = "bind" -> tools * StepCost + 3
    [] at = "step" -> (tools + 1 - step) * StepCost + 2
    [] at = "call" -> (tools + 1 - step) * StepCost + 3 - 2 * try
    [] at = "retry" -> (tools + 1 - step) * StepCost + 2 - 2 * try
    [] at = "observe" -> (tools + 1 - step) * StepCost + 2 - 2 * Retries
    [] at = "finish" -> 1

Ahead(e) == AheadAt(pc[e], Len(req[e].plan), cur[e], attempt[e])

\* Every step a process takes for a request brings it nearer to its reply, and
\* nothing another process does to the run takes it further away: the loops
\* over steps and attempts end whatever the ledger shows and the tools answer.
WorkCountsDown ==
  [][\A e \in Executors :
       /\ Step(e) => Ahead(e)' \in 0..(Ahead(e) - 1)
       /\ pc[e] # "idle" => Ahead(e)' <= Ahead(e)]_vars

\* docs/execution.md: "Use --no-write to reject plans requiring write_file".  A
\* replay under --no-write of a run without uncertain steps, begun under the
\* very registry the replay starts from, is refused only for such a plan.
NoWriteRejectsOnlyWriters ==
  [][\A e \in Executors :
       BindRefused(e) /\ req[e].noWrite =>
         LET r == req[e].run IN
           \/ ~HasLedger(r) \/ UncertainSteps(r) # {}
           \/ \A registry \in Registries :
                /\ req[e].registry = WithoutWrite(registry)
                => ContractDigest(registry) # runs[r].contract
           \/ \E i \in StepsOf(runs[r].plan) : runs[r].plan[i].tool = WriteFile]_vars

-----------------------------------------------------------------------------
\* The inductive invariant

\* A process that serves a request holds one, with a run id once begun.
ReqOK ==
  \A e \in Executors :
    /\ pc[e] # "idle" => req[e] \in Request
    /\ pc[e] \notin {"idle", "begin"} => req[e].run \in RunIds

\* Exactly the tool steps of a ledger run have a row in effects.
LedgerShape ==
  \A r \in RunIds :
    /\ HasLedger(r) =>
         /\ runs[r].plan \in Plans
         /\ \A i \in StepIdx : effects[r][i] = "NO_ROW" <=> i \notin StepsOf(runs[r].plan)
    /\ ~HasLedger(r) => \A i \in StepIdx : effects[r][i] = "NO_ROW"
    /\ runs[r] = NoRow => exit[r] = "null"

\* What a process has behind it, or its snapshot shows, is confirmed for good.
CursorOK(e) ==
  /\ Executing(e) =>
       /\ cur[e] \in 1..(Len(req[e].plan) + 1)
       /\ \A i \in StepIdx :
            i < cur[e] \/ snap[e][i] = "SUCCEEDED" =>
              effects[req[e].run][i] = "SUCCEEDED"
  /\ pc[e] \in {"call", "retry", "observe"} => cur[e] \in StepsOf(req[e].plan)

\* The attempt counter counts the entries into the tool of the open step.
AttemptOK(e) ==
  pc[e] \in {"call", "retry", "observe"} =>
    /\ attempt[e] \in 1..MaxAttempts(req[e].registry, req[e].plan[cur[e]].tool)
    /\ calls[req[e].run][cur[e]] = IF pc[e] = "call" THEN attempt[e] - 1 ELSE attempt[e]
    /\ pc[e] = "retry" => MayRetry(e)

\* The status a process is about to report is what the ledger says.
StatusOK(e) ==
  pc[e] = "finish" =>
    IF outcome[e] = "ok"
    THEN AllSucceeded(req[e].run)
    ELSE cur[e] \in StepIdx /\ effects[req[e].run][cur[e]] = "FAILED_UNKNOWN"

ProcessesOK == \A e \in Executors : CursorOK(e) /\ AttemptOK(e) /\ StatusOK(e)

\* Implied by Init and preserved by every step; it implies the safety
\* properties above.
IInv ==
  /\ TypeOK /\ ReqOK /\ LedgerShape /\ ProcessesOK
  /\ SoleDispatcher /\ ExecutesAsBound
  /\ LedgerTellsTruth /\ OrderedEffects /\ AtMostOnce /\ ExitTellsOutcome

-----------------------------------------------------------------------------
\* The executor implements RunPromise

\* Entries the accepted run allows; a legacy run is never executed.
StepLimit(r, i) ==
  IF ~HasLedger(r) THEN 0
  ELSE IF i \notin StepsOf(runs[r].plan) THEN 0
  ELSE IF runs[r].contract = NoContract THEN 1
  ELSE CallLimit(r, i)

StepsIn(r, state) == {i \in StepIdx : effects[r][i] = state}

Promise == INSTANCE RunPromise WITH
  accepted <- [r \in RunIds |-> HasLedger(r)],
  limit <- [r \in RunIds |-> [i \in StepIdx |-> StepLimit(r, i)]],
  entered <- calls,
  open <- [r \in RunIds |-> StepsIn(r, "DISPATCHING")],
  confirmed <- [r \in RunIds |-> StepsIn(r, "SUCCEEDED")],
  lost <- [r \in RunIds |-> StepsIn(r, "FAILED_UNKNOWN")],
  verdict <- [r \in RunIds |-> IF HasLedger(r) THEN exit[r] ELSE "null"]

\* Every behaviour of any number of processes, with their crashes, recoveries
\* and stale snapshots, is one of the ordered at-most-once runs of RunPromise.
KeepsPromise == Promise!Spec

=============================================================================
