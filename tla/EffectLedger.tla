---------------------------- MODULE EffectLedger ----------------------------
(***************************************************************************)
(* The durable effect ledger of apex/history.py: the SQLite tables runs,   *)
(* ledger_runs, registry_bindings, authorizations, effects and events, and *)
(* one operator per transaction on them.  Every `with _conn()` block is    *)
(* one SQLite transaction, so each operator is one atomic change.          *)
(*                                                                         *)
(* Abstractions.  A plan is the sequence of its tool calls, each with one  *)
(* argument object; parse_plan makes the single Halt step that follows     *)
(* them implicit.  The schemas of a registry's tools stand for the calls   *)
(* they accept.  SHA-256 is taken to be collision-free, so a plan digest   *)
(* stands for its plan, and the contract digest for the part of the        *)
(* registry that it covers.                                                *)
(* AUTOINCREMENT picks an id never used before: any id without a row.      *)
(***************************************************************************)
EXTENDS Naturals, Sequences

CONSTANTS
  RunIds,      \* ids of the rows of table runs (bounds the history)
  Tools,       \* tool names
  Args,        \* the argument objects a plan may give a tool
  MaxSteps,    \* the most tool calls a plan may hold
  Plans,       \* the execution plans that may be submitted
  Registries,  \* the tool registries a process may be started with
  AuthIds,     \* authorization identities
  LegacyRuns,  \* runs begun by a release without registry bindings
  NoRow, NoPlan, NoContract, NoAuth

VARIABLES
  runs,     \* runs[r]: the run's immutable row and its bindings, or NoRow
  exit,     \* exit[r]: column exit_code of runs
  effects,  \* effects[r][i]: column state of effects, "NO_ROW" if none
  results,  \* results[r][i]: column result_json of effects
  events    \* events[r][i]: number of rows of events for this step

ledgerVars == <<runs, exit, effects, results, events>>

StepIdx == 1..MaxSteps

\* One tool step of a plan.
ToolCall == [tool : Tools, args : Args]

\* A registry maps names to tools; accepts are the calls whose arguments agree
\* with input_spec and required, impl is the code behind the effects.
RegistryType ==
  [tools : SUBSET Tools, accepts : SUBSET ToolCall, retrySafe : SUBSET Tools, impl : Nat]
ContractType == [tools : SUBSET Tools, accepts : SUBSET ToolCall, retrySafe : SUBSET Tools]
AuthType == [id : AuthIds, plan : Plans, decision : BOOLEAN]

EffectStates == {"INTENT_RECORDED", "DISPATCHING", "SUCCEEDED", "FAILED_UNKNOWN"}
ExitCodes == {"null", "0", "1"}

Row == [ledger : BOOLEAN, plan : Plans \cup {NoPlan},
        contract : ContractType \cup {NoContract}, auth : AuthType \cup {NoAuth}]

ASSUME SizesAssumption == MaxSteps \in Nat
ASSUME PlansAssumption ==
  \A p \in Plans : p \in Seq(ToolCall) /\ Len(p) <= MaxSteps
ASSUME RegistriesAssumption == \A g \in Registries : g \in RegistryType
ASSUME LegacyAssumption == LegacyRuns \subseteq RunIds
ASSUME SentinelAssumption ==
  /\ NoRow \notin Row
  /\ NoPlan \notin Plans
  /\ NoContract \notin ContractType
  /\ NoAuth \notin AuthType

-----------------------------------------------------------------------------

StepsOf(p) == 1..Len(p)

\* tool_registry_contract_digest: names, schemas and retry_safe are covered, the
\* implementation is not.
ContractDigest(registry) ==
  [tools |-> registry.tools,
   accepts |-> {call \in registry.accepts : call.tool \in registry.tools},
   retrySafe |-> registry.retrySafe \cap registry.tools]

\* validate_authorization: an accepted decision on exactly this plan.
ValidAuthorization(auth, plan) == auth.decision /\ auth.plan = plan

HasLedger(r) == runs[r] # NoRow /\ runs[r].ledger

UncertainStates == {"DISPATCHING", "FAILED_UNKNOWN"}

UncertainSteps(r) == {i \in StepIdx : effects[r][i] \in UncertainStates}

AllSucceeded(r) == \A i \in StepsOf(runs[r].plan) : effects[r][i] = "SUCCEEDED"

-----------------------------------------------------------------------------

\* MUTANT of BeginRun: the ledger forgets which registry the run was begun under.
BeginRunLosesContract(r, plan, contract, auth) ==
  /\ runs[r] = NoRow
  /\ runs' = [runs EXCEPT ![r] =
       [ledger |-> TRUE, plan |-> plan, contract |-> NoContract, auth |-> auth]]
  /\ effects' = [effects EXCEPT ![r] =
       [i \in StepIdx |-> IF i \in StepsOf(plan) THEN "INTENT_RECORDED" ELSE "NO_ROW"]]
  /\ UNCHANGED <<exit, results, events>>

\* begin_run: plan, bindings and one intent per tool call, in one transaction.
BeginRun(r, plan, contract, auth) ==
  /\ runs[r] = NoRow
  /\ runs' = [runs EXCEPT ![r] =
       [ledger |-> TRUE, plan |-> plan, contract |-> contract, auth |-> auth]]
  /\ effects' = [effects EXCEPT ![r] =
       [i \in StepIdx |-> IF i \in StepsOf(plan) THEN "INTENT_RECORDED" ELSE "NO_ROW"]]
  /\ UNCHANGED <<exit, results, events>>

\* bound_effects: the bindings this request must agree with before any
\* dispatch.  Its first three SELECTs read rows that are never updated, so
\* the whole function takes effect at the SELECT on effects.
BoundTo(r, plan, contract, auth) ==
  /\ HasLedger(r)
  /\ runs[r].plan = plan
  /\ runs[r].contract = contract
  /\ IF runs[r].auth = NoAuth
     THEN auth = NoAuth
     ELSE /\ ValidAuthorization(runs[r].auth, plan)
          /\ auth # NoAuth => ValidAuthorization(auth, plan) /\ auth = runs[r].auth
  /\ {i \in StepIdx : effects[r][i] # "NO_ROW"} = StepsOf(plan)

\* MUTANT of DispatchPermitted: the UPDATE does not compare the old state.
DispatchAlways(r, i) == TRUE

\* The WHERE clause of dispatch_effect.
DispatchPermitted(r, i) == effects[r][i] = "INTENT_RECORDED"

\* dispatch_effect: compare-and-set, committed before entering tool code.
DispatchEffect(r, i) ==
  /\ effects' = [effects EXCEPT ![r][i] = "DISPATCHING"]
  /\ UNCHANGED <<runs, exit, results, events>>

\* MUTANT of SaveRetry: the step is offered for dispatch again before a retry.
SaveRetryReopens(r, i) ==
  /\ effects[r][i] = "DISPATCHING"
  /\ effects' = [effects EXCEPT ![r][i] = "INTENT_RECORDED"]
  /\ results' = [results EXCEPT ![r][i] = "error"]
  /\ UNCHANGED <<runs, exit, events>>

\* MUTANT of SaveRetry: a retrying step gets a state of its own.
SaveRetryNewState(r, i) ==
  /\ effects[r][i] = "DISPATCHING"
  /\ effects' = [effects EXCEPT ![r][i] = "RETRYING"]
  /\ results' = [results EXCEPT ![r][i] = "error"]
  /\ UNCHANGED <<runs, exit, events>>

\* observe_effect(retrying=True): the error is saved, the state is kept.
SaveRetry(r, i) ==
  /\ effects[r][i] = "DISPATCHING"
  /\ results' = [results EXCEPT ![r][i] = "error"]
  /\ UNCHANGED <<runs, exit, effects, events>>

\* MUTANT of ObserveEffect: a failure reopens the step, as if nothing had happened.
ObserveEffectForgives(r, i, succeeded) ==
  /\ effects[r][i] = "DISPATCHING"
  /\ effects' = [effects EXCEPT ![r][i] =
                   IF succeeded THEN "SUCCEEDED" ELSE "INTENT_RECORDED"]
  /\ results' = [results EXCEPT ![r][i] = IF succeeded THEN "value" ELSE "error"]
  /\ events' = [events EXCEPT ![r][i] = @ + 1]
  /\ UNCHANGED <<runs, exit>>

\* MUTANT of ObserveEffect: the event is inserted for successes only.
ObserveEffectDropsEvent(r, i, succeeded) ==
  /\ effects[r][i] = "DISPATCHING"
  /\ effects' = [effects EXCEPT ![r][i] =
                   IF succeeded THEN "SUCCEEDED" ELSE "FAILED_UNKNOWN"]
  /\ results' = [results EXCEPT ![r][i] = IF succeeded THEN "value" ELSE "error"]
  /\ events' = [events EXCEPT ![r][i] = IF succeeded THEN @ + 1 ELSE @]
  /\ UNCHANGED <<runs, exit>>

\* observe_effect: the outcome and the history event, in one transaction.
ObserveEffect(r, i, succeeded) ==
  /\ effects[r][i] = "DISPATCHING"
  /\ effects' = [effects EXCEPT ![r][i] =
                   IF succeeded THEN "SUCCEEDED" ELSE "FAILED_UNKNOWN"]
  /\ results' = [results EXCEPT ![r][i] = IF succeeded THEN "value" ELSE "error"]
  /\ events' = [events EXCEPT ![r][i] = @ + 1]
  /\ UNCHANGED <<runs, exit>>

\* finish_run: completion metadata only, with no guard on the row.
FinishRun(r, code) ==
  /\ exit' = [exit EXCEPT ![r] = code]
  /\ UNCHANGED <<runs, effects, results, events>>

\* record_run: a finished row without a ledger.
RecordRun(r, plan, code) ==
  /\ runs[r] = NoRow
  /\ runs' = [runs EXCEPT ![r] =
       [ledger |-> FALSE, plan |-> plan, contract |-> NoContract, auth |-> NoAuth]]
  /\ exit' = [exit EXCEPT ![r] = code]
  /\ UNCHANGED <<effects, results, events>>

-----------------------------------------------------------------------------

\* An interrupted run of an older release: intents, and no registry binding.
LegacyRow(plan) ==
  [ledger |-> TRUE, plan |-> plan, contract |-> NoContract, auth |-> NoAuth]

LedgerInit ==
  /\ \E legacy \in [LegacyRuns -> Plans] :
       /\ runs = [r \in RunIds |->
            IF r \in LegacyRuns THEN LegacyRow(legacy[r]) ELSE NoRow]
       /\ effects = [r \in RunIds |-> [i \in StepIdx |->
            IF r \in LegacyRuns /\ i \in StepsOf(legacy[r])
            THEN "INTENT_RECORDED" ELSE "NO_ROW"]]
  /\ exit = [r \in RunIds |-> "null"]
  /\ results = [r \in RunIds |-> [i \in StepIdx |-> "none"]]
  /\ events = [r \in RunIds |-> [i \in StepIdx |-> 0]]

LedgerTypeOK ==
  /\ runs \in [RunIds -> Row \cup {NoRow}]
  /\ exit \in [RunIds -> ExitCodes]
  /\ effects \in [RunIds -> [StepIdx -> EffectStates \cup {"NO_ROW"}]]
  /\ results \in [RunIds -> [StepIdx -> {"none", "error", "value"}]]
  /\ events \in [RunIds -> [StepIdx -> Nat]]

=============================================================================
