--------------------------- MODULE ExecutorSafety ---------------------------
(***************************************************************************)
(* IInv is an inductive invariant of Executor, and what follows from it.   *)
(* Every step moves one process e.  The ledger half of IInv is about the   *)
(* tables; the process half is about each process and the run it executes. *)
(* OthersKeep is the frame argument: whatever e does to the ledger keeps   *)
(* the bindings, the resolved steps and the steps other processes own, so  *)
(* the other processes keep their half.                                    *)
(*                                                                         *)
(* For every set of processes, runs, plans and registries, and every bound *)
(* on steps and retries.                                                   *)
(***************************************************************************)
EXTENDS Executor, TLAPS

-----------------------------------------------------------------------------
\* Types

\* TypeOK is inductive together with what a process's request holds.
TypeInv == TypeOK /\ ReqOK

\* The initial state is well typed, whatever legacy runs it holds.
LEMMA InitTyped == Init => TypeInv
<1> SUFFICES ASSUME Init PROVE TypeInv
  OBVIOUS
<1>1. PICK legacy \in [LegacyRuns -> Plans] :
        /\ runs = [r \in RunIds |->
             IF r \in LegacyRuns THEN LegacyRow(legacy[r]) ELSE NoRow]
        /\ effects = [r \in RunIds |-> [i \in StepIdx |->
             IF r \in LegacyRuns /\ i \in StepsOf(legacy[r])
             THEN "INTENT_RECORDED" ELSE "NO_ROW"]]
  BY DEF Init, LedgerInit
<1>2. runs \in [RunIds -> Row \cup {NoRow}]
  BY <1>1 DEF LegacyRow, Row
<1>3. effects \in [RunIds -> [StepIdx -> EffectStates \cup {"NO_ROW"}]]
  BY <1>1 DEF EffectStates
<1>4. LedgerTypeOK
  BY <1>2, <1>3 DEF LedgerTypeOK, Init, LedgerInit, ExitCodes
<1> QED
  BY <1>4 DEF Init, TypeInv, TypeOK, ReqOK, PC, NoSnap, EffectStates

\* A process that returns leaves every local well typed.
LEMMA ReturnTyped ==
  ASSUME TypeInv, NEW e \in Executors, Return(e), LedgerTypeOK',
         calls' \in [RunIds -> [StepIdx -> Nat]], crashed' \in [RunIds -> BOOLEAN]
  PROVE  TypeInv'
BY DEF TypeInv, TypeOK, ReqOK, Return, PC, NoSnap, EffectStates

\* What a digest of a well-typed registry is.
LEMMA DigestTyped ==
  ASSUME NEW g \in RegistryType
  PROVE  ContractDigest(g) \in ContractType
BY DEF ContractDigest, RegistryType, ContractType

\* Accepting a request keeps the types.
LEMMA AcceptTyped ==
  ASSUME TypeInv, NEW e \in Executors, NEW at \in PC, NEW run \in RunIds \cup {NoRun},
         NEW plan \in Plans, NEW registry \in RegistryType, NEW auth \in Auths,
         NEW noWrite \in BOOLEAN,
         at \in {"idle", "begin"} \/ run \in RunIds, Accept(e, at, run, plan, registry, auth, noWrite)
  PROVE  TypeInv'
<1>1. [run |-> run, plan |-> plan, registry |-> registry, auth |-> auth,
       noWrite |-> noWrite] \in Request
  BY DEF Request, Auths
<1> QED
  BY <1>1 DEF Accept, TypeInv, TypeOK, ReqOK, LedgerTypeOK, ledgerVars

\* Updating one cell of a table keeps the table's type, even if there is no
\* such cell.
LEMMA CellTyped ==
  ASSUME NEW A, NEW B, NEW T, NEW f \in [A -> [B -> T]], NEW a, NEW b, NEW v,
         a \in A /\ b \in B => v \in T
  PROVE  [f EXCEPT ![a][b] = v] \in [A -> [B -> T]]
<1>1. CASE a \in A
  <2>1. [f[a] EXCEPT ![b] = v] \in [B -> T]
    BY <1>1
  <2> QED
    BY <1>1, <2>1
<1>2. CASE a \notin A
  BY <1>2
<1> QED
  BY <1>1, <1>2

\* Counting up one cell keeps a table of counters.
LEMMA CountTyped ==
  ASSUME NEW A, NEW B, NEW f \in [A -> [B -> Nat]], NEW a, NEW b
  PROVE  [f EXCEPT ![a][b] = f[a][b] + 1] \in [A -> [B -> Nat]]
<1>1. CASE a \in A
  <2>1. f[a] \in [B -> Nat] /\ (b \in B => f[a][b] + 1 \in Nat)
    BY <1>1
  <2>2. [f[a] EXCEPT ![b] = f[a][b] + 1] \in [B -> Nat]
    BY <2>1, Zenon
  <2> QED
    BY <1>1, <2>2, Zenon
<1>2. CASE a \notin A
  BY <1>2
<1> QED
  BY <1>1, <1>2

\* Every step keeps the types.
LEMMA NextTyped == TypeInv /\ [Next]_vars => TypeInv'
<1> SUFFICES ASSUME TypeInv, [Next]_vars PROVE TypeInv'
  OBVIOUS
<1> USE DEF TypeInv, TypeOK, LedgerTypeOK, ReqOK
<1>1. ASSUME NEW e \in Executors, Arrive(e) PROVE TypeInv'
  <2>1. \A g \in Registries : g \in RegistryType /\ WithoutWrite(g) \in RegistryType
    BY RegistriesAssumption DEF WithoutWrite, RegistryType
  <2>2. CASE \E plan \in Plans, registry \in Registries, auth \in Auths :
               Submit(e, plan, registry, auth)
    BY <2>1, <2>2, AcceptTyped DEF Submit, PC
  <2>3. CASE \E r \in RunIds, plan \in Plans, registry \in Registries, auth \in Auths :
               Recover(e, r, plan, registry, auth)
    BY <2>1, <2>3, AcceptTyped DEF Recover, PC
  <2>4. ASSUME NEW r \in RunIds, NEW registry \in Registries, NEW noWrite \in BOOLEAN,
               ReplayLive(e, r, registry, noWrite)
        PROVE TypeInv'
    <3>1. runs[r].plan \in Plans
      BY <2>4 DEF ReplayLive, Row
    <3> DEFINE used == IF noWrite THEN WithoutWrite(registry) ELSE registry
    <3>2. Accept(e, "bind", r, runs[r].plan, used, NoAuth, noWrite)
      BY <2>4 DEF ReplayLive
    <3>3. used \in RegistryType /\ NoAuth \in Auths /\ "bind" \in PC
      BY <2>1 DEF Auths, PC
    <3> HIDE DEF used
    <3> QED
      BY <3>1, <3>2, <3>3, AcceptTyped
  <2> QED
    BY <1>1, <2>2, <2>3, <2>4 DEF Arrive
<1>2. ASSUME NEW e \in Executors, NEW r \in RunIds, Begin(e, r) PROVE TypeInv'
  <2>1. req[e] \in Request /\ req[e].registry \in RegistryType
    BY <1>2 DEF Begin, Request
  <2>2. ContractDigest(req[e].registry) \in ContractType
    BY <2>1, DigestTyped
  <2>3. [ledger |-> TRUE, plan |-> req[e].plan,
         contract |-> ContractDigest(req[e].registry), auth |-> req[e].auth] \in Row
    BY <2>1, <2>2 DEF Request, Row
  <2>4. runs' \in [RunIds -> Row \cup {NoRow}]
    BY <1>2, <2>3 DEF Begin, BeginRun
  <2>5. effects' \in [RunIds -> [StepIdx -> EffectStates \cup {"NO_ROW"}]]
    BY <1>2 DEF Begin, BeginRun, EffectStates
  <2>6. LedgerTypeOK'
    BY <1>2, <2>4, <2>5 DEF Begin, BeginRun
  <2>7. [req[e] EXCEPT !.run = r] \in Request /\ [req[e] EXCEPT !.run = r].run = r
    BY <2>1 DEF Request
  <2>8. req' \in [Executors -> Request \cup {NoRequest}] /\ req'[e] \in Request
        /\ req'[e].run = r
    BY <1>2, <2>1, <2>7 DEF Begin
  <2>9. ReqOK'
    BY <1>2, <2>8 DEF Begin
  <2> QED
    BY <1>2, <2>6, <2>8, <2>9 DEF Begin, PC
<1>3. ASSUME NEW e \in Executors, BeginRefused(e) PROVE TypeInv'
  BY <1>3, ReturnTyped DEF BeginRefused, ledgerVars
<1>4. ASSUME NEW e \in Executors, Bind(e) PROVE TypeInv'
  <2>1. effects[req[e].run] \in [StepIdx -> EffectStates \cup {"NO_ROW"}]
    BY <1>4 DEF Bind
  <2>2. LedgerTypeOK' /\ ReqOK'
    BY <1>4 DEF Bind, ledgerVars
  <2> QED
    BY <1>4, <2>1, <2>2 DEF Bind, PC
<1>5. ASSUME NEW e \in Executors, BindRefused(e) \/ DispatchRefused(e) PROVE TypeInv'
  BY <1>5, ReturnTyped DEF BindRefused, DispatchRefused, ledgerVars
<1>6. ASSUME NEW e \in Executors, Reuse(e) PROVE TypeInv'
  BY <1>6 DEF Reuse, ledgerVars
<1>7. ASSUME NEW e \in Executors, Dispatch(e) PROVE TypeInv'
  <2>1. effects' \in [RunIds -> [StepIdx -> EffectStates \cup {"NO_ROW"}]]
    <3>1. effects' = [effects EXCEPT ![req[e].run][cur[e]] = "DISPATCHING"]
      BY <1>7 DEF Dispatch, DispatchEffect
    <3>2. "DISPATCHING" \in EffectStates \cup {"NO_ROW"}
      BY DEF EffectStates
    <3>3. effects \in [RunIds -> [StepIdx -> EffectStates \cup {"NO_ROW"}]]
      OBVIOUS
    <3> QED
      BY <3>1, <3>2, CellTyped, ZenonT(30)
  <2>2. LedgerTypeOK'
    BY <1>7, <2>1 DEF Dispatch, DispatchEffect
  <2> QED
    BY <1>7, <2>2 DEF Dispatch, AtTool, PC
<1>8. ASSUME NEW e \in Executors, CallReturned(e) \/ CallFailed(e) PROVE TypeInv'
  <2>1. EnterTool(e)
    BY <1>8 DEF CallReturned, CallFailed
  <2>2. calls' \in [RunIds -> [StepIdx -> Nat]]
    <3>1. calls \in [RunIds -> [StepIdx -> Nat]]
      OBVIOUS
    <3>2. calls' = [calls EXCEPT ![req[e].run][cur[e]] = calls[req[e].run][cur[e]] + 1]
      BY <2>1 DEF EnterTool
    <3> QED
      BY <3>1, <3>2, CountTyped, Zenon
  <2>3. LedgerTypeOK'
    BY <2>1 DEF EnterTool, ledgerVars
  <2>4. pc' \in [Executors -> PC] /\ outcome' \in [Executors -> {"none", "ok", "err"}]
    BY <1>8, ZenonT(60) DEF CallReturned, CallFailed, PC
  <2>5. ReqOK'
    BY <1>8, <2>1 DEF EnterTool, CallReturned, CallFailed
  <2> QED
    BY <2>1, <2>2, <2>3, <2>4, <2>5 DEF EnterTool
<1>9. ASSUME NEW e \in Executors, Retry(e) PROVE TypeInv'
  <2>1. results' \in [RunIds -> [StepIdx -> {"none", "error", "value"}]]
    <3>1. results' = [results EXCEPT ![req[e].run][cur[e]] = "error"]
      BY <1>9 DEF Retry, SaveRetry
    <3> QED
      BY <3>1, CellTyped, ZenonT(30)
  <2>2. LedgerTypeOK'
    BY <1>9, <2>1 DEF Retry, SaveRetry
  <2> QED
    BY <1>9, <2>2 DEF Retry, PC
<1>10. ASSUME NEW e \in Executors, Observe(e) PROVE TypeInv'
  <2> DEFINE r == req[e].run
             i == cur[e]
             state == IF outcome[e] = "ok" THEN "SUCCEEDED" ELSE "FAILED_UNKNOWN"
             result == IF outcome[e] = "ok" THEN "value" ELSE "error"
  <2>o. ObserveEffect(r, i, outcome[e] = "ok")
    BY <1>10 DEF Observe
  <2>1. effects' \in [RunIds -> [StepIdx -> EffectStates \cup {"NO_ROW"}]]
    <3>1. effects' = [effects EXCEPT ![r][i] = state]
      BY <2>o DEF ObserveEffect
    <3>2. state \in EffectStates \cup {"NO_ROW"}
      BY DEF EffectStates
    <3>3. effects \in [RunIds -> [StepIdx -> EffectStates \cup {"NO_ROW"}]]
      OBVIOUS
    <3> HIDE DEF state
    <3> QED
      BY <3>1, <3>2, CellTyped, ZenonT(30)
  <2>2. results' \in [RunIds -> [StepIdx -> {"none", "error", "value"}]]
    <3>1. results' = [results EXCEPT ![r][i] = result]
      BY <2>o DEF ObserveEffect
    <3>2. result \in {"none", "error", "value"}
      OBVIOUS
    <3> HIDE DEF result
    <3> QED
      BY <3>1, <3>2, CellTyped, ZenonT(30)
  <2>3. events' \in [RunIds -> [StepIdx -> Nat]]
    <3>1. events \in [RunIds -> [StepIdx -> Nat]]
      OBVIOUS
    <3>2. events' = [events EXCEPT ![r][i] = events[r][i] + 1]
      BY <2>o DEF ObserveEffect
    <3> QED
      BY <3>1, <3>2, CountTyped, Zenon
  <2>4. LedgerTypeOK'
    BY <1>10, <2>1, <2>2, <2>3 DEF Observe, ObserveEffect
  <2>5. pc' \in [Executors -> PC] /\ cur' \in [Executors -> Nat]
        /\ outcome' \in [Executors -> {"none", "ok", "err"}]
    <3>1. CASE outcome[e] = "ok"
      <4>1. pc' = [pc EXCEPT ![e] = "step"] /\ cur' = [cur EXCEPT ![e] = cur[e] + 1]
            /\ outcome' = [outcome EXCEPT ![e] = "none"]
        BY <1>10, <3>1 DEF Observe
      <4> QED
        BY <4>1 DEF PC
    <3>2. CASE outcome[e] # "ok"
      BY <1>10, <3>2 DEF Observe, PC
    <3> QED
      BY <3>1, <3>2
  <2>6. ReqOK'
    BY <1>10 DEF Observe
  <2> QED
    BY <1>10, <2>4, <2>5, <2>6 DEF Observe
<1>11. ASSUME NEW e \in Executors, Halt(e) PROVE TypeInv'
  BY <1>11 DEF Halt, PC, ledgerVars
<1>12. ASSUME NEW e \in Executors, Finish(e) PROVE TypeInv'
  <2>1. LedgerTypeOK'
    BY <1>12 DEF Finish, FinishRun, ExitCodes
  <2> QED
    BY <1>12, <2>1, ReturnTyped DEF Finish
<1>13. ASSUME NEW e \in Executors, Crash(e) PROVE TypeInv'
  <2>1. crashed' \in [RunIds -> BOOLEAN]
    BY <1>13 DEF Crash, WorksOn, Executing
  <2> QED
    BY <1>13, <2>1, ReturnTyped DEF Crash, ledgerVars
<1>14. ASSUME NEW r \in RunIds, NEW plan \in Plans \cup {NoPlan},
              NEW code \in {"0", "1"}, RecordOnly(r, plan, code)
       PROVE TypeInv'
  <2>1. LedgerTypeOK'
    BY <1>14 DEF RecordOnly, RecordRun, Row, ExitCodes
  <2> QED
    BY <1>14, <2>1 DEF RecordOnly, procVars
<1>15. CASE UNCHANGED vars
  BY <1>15 DEF vars, ledgerVars, procVars
<1> HIDE DEF TypeInv, TypeOK, LedgerTypeOK, ReqOK
<1> QED
  BY <1>1, <1>2, <1>3, <1>4, <1>5, <1>6, <1>7, <1>8, <1>9, <1>10, <1>11, <1>12,
     <1>13, <1>14, <1>15 DEF Next, Step

\* Every variable keeps its type, with any number of processes and crashes.
THEOREM TypeCorrect == Spec => []TypeOK
<1>1. Spec => []TypeInv
  BY InitTyped, NextTyped, PTL DEF Spec
<1> QED
  BY <1>1, PTL DEF TypeInv

-----------------------------------------------------------------------------
\* The two halves of the invariant

LedgerInv ==
  LedgerShape /\ LedgerTellsTruth /\ OrderedEffects /\ AtMostOnce /\ ExitTellsOutcome

ProcInv(e) ==
  /\ CursorOK(e) /\ AttemptOK(e) /\ StatusOK(e)
  /\ Executing(e) => BoundAs(e, runs[req[e].run])
  /\ \A r \in RunIds, i \in StepIdx : Owns(e, r, i) => effects[r][i] = "DISPATCHING"

OneOwner ==
  \A e, f \in Executors, r \in RunIds, i \in StepIdx :
    Owns(e, r, i) /\ Owns(f, r, i) => f = e

\* The two halves make up IInv.
LEMMA Halves ==
  IInv <=> TypeOK /\ ReqOK /\ LedgerInv /\ OneOwner /\ \A e \in Executors : ProcInv(e)
<1> USE DEF ProcInv, OneOwner, LedgerInv
<1>1. SoleDispatcher <=>
        OneOwner /\ \A e \in Executors, r \in RunIds, i \in StepIdx :
                       Owns(e, r, i) => effects[r][i] = "DISPATCHING"
  BY DEF SoleDispatcher
<1> QED
  BY <1>1 DEF IInv, ProcessesOK, ExecutesAsBound

\* A process did not move.
Still(f) ==
  /\ pc'[f] = pc[f] /\ req'[f] = req[f] /\ cur'[f] = cur[f]
  /\ snap'[f] = snap[f] /\ attempt'[f] = attempt[f] /\ outcome'[f] = outcome[f]

\* What no transaction does: rewrite a row or a resolved step.
Monotone ==
  \A r \in RunIds :
    /\ runs[r] # NoRow => runs'[r] = runs[r]
    /\ \A i \in StepIdx :
         effects[r][i] \in {"SUCCEEDED", "FAILED_UNKNOWN"} => effects'[r][i] = effects[r][i]

\* What e may not do to a step another process owns.
RespectsOwner(f) ==
  \A r \in RunIds, i \in StepIdx :
    Owns(f, r, i) => effects'[r][i] = effects[r][i] /\ calls'[r][i] = calls[r][i]

\* A process keeps its half of the invariant while another one moves.
LEMMA OthersKeep ==
  ASSUME IInv, Monotone, NEW f \in Executors, Still(f), RespectsOwner(f)
  PROVE  ProcInv(f)'
<1> USE DEF Still, Monotone
<1>1. ProcInv(f) /\ TypeOK /\ ReqOK
  BY Halves
<1>2. ASSUME Executing(f) PROVE
        /\ req[f].run \in RunIds /\ HasLedger(req[f].run) /\ HasLedger(req[f].run)'
        /\ runs'[req[f].run] = runs[req[f].run] /\ BoundAs(f, runs[req[f].run])
  BY <1>1, <1>2 DEF ProcInv, BoundAs, HasLedger, ReqOK, Executing
<1>3. Executing(f)' <=> Executing(f)
  BY DEF Executing
<1>4. (Executing(f) => BoundAs(f, runs[req[f].run]))'
  BY <1>2, <1>3 DEF BoundAs
<1>5. CursorOK(f)'
  BY <1>1, <1>2, <1>3 DEF ProcInv, CursorOK
<1>6. pc[f] \in {"call", "retry", "observe"} =>
        /\ Executing(f) /\ cur[f] \in StepIdx /\ Owns(f, req[f].run, cur[f])
  <2> SUFFICES ASSUME pc[f] \in {"call", "retry", "observe"}
               PROVE  cur[f] \in StepIdx /\ Executing(f) /\ Owns(f, req[f].run, cur[f])
    OBVIOUS
  <2>1. req[f].plan \in Plans /\ cur[f] \in StepsOf(req[f].plan)
    BY <1>1 DEF ProcInv, CursorOK, ReqOK, Request
  <2> QED
    BY <2>1, PlansAssumption, SizesAssumption DEF StepsOf, StepIdx, Executing, Owns
<1>7. AttemptOK(f)'
  <2>1. pc[f] \in {"call", "retry", "observe"} =>
          calls'[req[f].run][cur[f]] = calls[req[f].run][cur[f]]
    BY <1>2, <1>6 DEF RespectsOwner
  <2> QED
    BY <1>1, <2>1 DEF ProcInv, AttemptOK, MayRetry
<1>8. StatusOK(f)'
  <2> SUFFICES ASSUME pc[f] = "finish" PROVE StatusOK(f)'
    BY DEF StatusOK
  <2>1. Executing(f)
    BY DEF Executing
  <2>2. req[f].plan \in Plans /\ runs[req[f].run].plan = req[f].plan
    BY <1>1, <1>2, <2>1 DEF BoundAs, ReqOK, Request
  <2>3. StepsOf(req[f].plan) \subseteq StepIdx
    BY <2>2, PlansAssumption, SizesAssumption DEF StepsOf, StepIdx
  <2> QED
    BY <1>1, <1>2, <2>1, <2>2, <2>3 DEF ProcInv, StatusOK, AllSucceeded
<1>9. \A r \in RunIds, i \in StepIdx : Owns(f, r, i)' => effects'[r][i] = "DISPATCHING"
  BY <1>1 DEF ProcInv, Owns, RespectsOwner
<1> QED
  BY <1>4, <1>5, <1>7, <1>8, <1>9 DEF ProcInv

\* A step of e keeps IInv if e keeps its own half, respects the steps of the
\* others, and comes to own only steps nobody owned.
LEMMA StepKeeps ==
  ASSUME IInv, TypeInv', NEW e, Monotone, LedgerInv', e \in Executors => ProcInv(e)',
         \A f \in Executors \ {e} : Still(f) /\ RespectsOwner(f),
         \A r \in RunIds, i \in StepIdx :
           Owns(e, r, i)' => Owns(e, r, i) \/ effects[r][i] = "INTENT_RECORDED"
  PROVE  IInv'
<1>1. \A f \in Executors : ProcInv(f)'
  BY OthersKeep
<1>2. OneOwner'
  <2> SUFFICES ASSUME NEW f \in Executors, NEW g \in Executors, NEW r \in RunIds,
                      NEW i \in StepIdx, Owns(f, r, i)', Owns(g, r, i)'
               PROVE  g = f
    BY DEF OneOwner
  <2>1. \A h \in Executors \ {e} : Owns(h, r, i)' <=> Owns(h, r, i)
    BY DEF Still, Owns
  <2>2. OneOwner /\ \A h \in Executors : Owns(h, r, i) => effects[r][i] = "DISPATCHING"
    BY Halves DEF ProcInv
  <2>3. CASE f # e /\ g # e
    BY <2>1, <2>2, <2>3 DEF OneOwner
  <2>4. CASE f = e /\ g # e
    BY <2>1, <2>2, <2>4 DEF OneOwner
  <2>5. CASE f # e /\ g = e
    BY <2>1, <2>2, <2>5 DEF OneOwner
  <2> QED
    BY <2>3, <2>4, <2>5
<1>3. (TypeOK /\ ReqOK /\ LedgerInv /\ OneOwner /\ \A f \in Executors : ProcInv(f))'
  BY <1>1, <1>2 DEF TypeInv
<1>4. (SoleDispatcher /\ ProcessesOK /\ ExecutesAsBound)'
  BY <1>3 DEF SoleDispatcher, OneOwner, ProcInv, ProcessesOK, ExecutesAsBound
<1> QED
  BY <1>3, <1>4 DEF IInv, LedgerInv

\* A step that leaves the ledger and the tools alone keeps the ledger half.
LEMMA LedgerSame ==
  ASSUME IInv, UNCHANGED <<ledgerVars, calls>>
  PROVE  LedgerInv' /\ Monotone /\ \A f \in Executors : RespectsOwner(f)
<1>1. LedgerInv
  BY Halves
<1>2. UNCHANGED <<runs, exit, effects, results, events, calls>>
  BY DEF ledgerVars
<1>3. \A r \in RunIds : HasLedger(r)' <=> HasLedger(r)
  BY <1>2 DEF HasLedger
<1>4. LedgerShape' /\ LedgerTellsTruth' /\ OrderedEffects'
  BY <1>1, <1>2, <1>3 DEF LedgerInv, LedgerShape, LedgerTellsTruth, OrderedEffects
<1>5. AtMostOnce' /\ ExitTellsOutcome'
  BY <1>1, <1>2, <1>3
  DEF LedgerInv, AtMostOnce, CallLimit, ExitTellsOutcome, AllSucceeded
<1> QED
  BY <1>2, <1>4, <1>5 DEF LedgerInv, Monotone, RespectsOwner

\* A process that returned holds nothing.
LEMMA Returned ==
  ASSUME TypeOK, NEW e \in Executors, Return(e)
  PROVE  /\ ProcInv(e)' /\ \A f \in Executors \ {e} : Still(f)
         /\ \A r \in RunIds, i \in StepIdx : ~Owns(e, r, i)'
<1>1. pc'[e] = "idle"
  BY DEF Return, TypeOK
<1>2. \A f \in Executors \ {e} : Still(f)
  BY DEF Return, Still, TypeOK
<1> QED
  BY <1>1, <1>2 DEF ProcInv, CursorOK, AttemptOK, StatusOK, Executing, Owns


-----------------------------------------------------------------------------
\* Steps that leave the ledger alone

\* Returning early (a refusal or a crash) keeps IInv.
LEMMA ReturnKeeps ==
  ASSUME IInv, TypeInv', NEW e \in Executors, Return(e), UNCHANGED <<ledgerVars, calls>>
  PROVE  IInv'
BY LedgerSame, Returned, StepKeeps DEF IInv

\* Accepting a request keeps IInv: nothing is claimed about a request yet.
LEMMA ArriveKeeps ==
  ASSUME IInv, TypeInv', NEW e \in Executors, Arrive(e)
  PROVE  IInv'
<1>1. \A at \in {"begin", "bind"} : \A run, plan, registry, auth, noWrite :
        Accept(e, at, run, plan, registry, auth, noWrite) =>
          /\ UNCHANGED <<ledgerVars, calls>> /\ pc'[e] \in {"begin", "bind"}
          /\ \A f \in Executors \ {e} : Still(f)
  BY DEF Accept, Still, IInv, TypeOK
<1>2. UNCHANGED <<ledgerVars, calls>> /\ pc'[e] \in {"begin", "bind"}
      /\ \A f \in Executors \ {e} : Still(f)
  BY <1>1 DEF Arrive, Submit, Recover, ReplayLive
<1>3. ProcInv(e)' /\ \A r \in RunIds, i \in StepIdx : ~Owns(e, r, i)'
  BY <1>2 DEF ProcInv, CursorOK, AttemptOK, StatusOK, Executing, Owns
<1> QED
  BY <1>2, <1>3, LedgerSame, StepKeeps

\* bound_effects establishes the bindings, and its snapshot is fresh.
LEMMA BindKeeps ==
  ASSUME IInv, TypeInv', NEW e \in Executors, Bind(e)
  PROVE  IInv'
<1> DEFINE r == req[e].run
<1>1. UNCHANGED <<ledgerVars, calls>> /\ \A f \in Executors \ {e} : Still(f)
  BY DEF Bind, Still, IInv, TypeOK
<1>2. pc'[e] = "step" /\ cur'[e] = 1 /\ req'[e] = req[e] /\ snap'[e] = effects[r]
  BY DEF Bind, IInv, TypeOK
<1>3. req[e].plan \in Plans /\ r \in RunIds
  BY DEF Bind, IInv, ReqOK, Request
<1>4. Len(req[e].plan) \in Nat
  BY <1>3, PlansAssumption
<1>5. CursorOK(e)'
  BY <1>1, <1>2, <1>4 DEF CursorOK, StepIdx, ledgerVars
<1>6. BoundAs(e, runs[r])'
  BY <1>1, <1>2 DEF Bind, Permitted, BoundTo, BoundAs, HasLedger, ledgerVars,
                    ValidAuthorization
<1>7. ProcInv(e)'
  BY <1>2, <1>5, <1>6 DEF ProcInv, AttemptOK, StatusOK, Owns
<1> QED
  BY <1>1, <1>2, <1>7, LedgerSame, StepKeeps DEF Owns

\* Reusing a recorded result: the snapshot's success is still there.
LEMMA ReuseKeeps ==
  ASSUME IInv, TypeInv', NEW e \in Executors, Reuse(e)
  PROVE  IInv'
<1>1. UNCHANGED <<ledgerVars, calls>> /\ \A f \in Executors \ {e} : Still(f)
  BY DEF Reuse, Still, IInv, TypeOK
<1>2. /\ pc[e] = "step" /\ pc'[e] = "step" /\ req'[e] = req[e] /\ snap'[e] = snap[e]
      /\ cur'[e] = cur[e] + 1 /\ cur[e] <= Len(req[e].plan)
      /\ snap[e][cur[e]] = "SUCCEEDED"
  BY DEF Reuse, AtTool, IInv, TypeOK
<1>3. ProcInv(e) /\ Executing(e) /\ Executing(e)'
  BY <1>2, Halves DEF Executing
<1>4. Len(req[e].plan) \in Nat /\ Len(req[e].plan) <= MaxSteps
  BY <1>2, PlansAssumption DEF IInv, ReqOK, Request
<1>5. CursorOK(e)'
  <2>1. cur[e] \in 1..(Len(req[e].plan) + 1)
    BY <1>3 DEF ProcInv, CursorOK
  <2>2. cur[e] \in StepIdx
    BY <1>2, <1>4, <2>1, SizesAssumption DEF StepIdx
  <2>3. cur'[e] \in 1..(Len(req[e].plan) + 1)
    BY <1>2, <1>4, <2>1
  <2>4. \A i \in StepIdx : i < cur[e] + 1 => i < cur[e] \/ i = cur[e]
    BY <2>1 DEF StepIdx
  <2> QED
    BY <1>1, <1>2, <1>3, <2>2, <2>3, <2>4 DEF ProcInv, CursorOK, ledgerVars
<1>6. ProcInv(e)'
  BY <1>1, <1>2, <1>3, <1>5
  DEF ProcInv, AttemptOK, StatusOK, Owns, BoundAs, HasLedger, ledgerVars
<1> QED
  BY <1>1, <1>2, <1>6, LedgerSame, StepKeeps DEF Owns

\* At the Halt step every tool call of the plan is confirmed.
LEMMA HaltKeeps ==
  ASSUME IInv, TypeInv', NEW e \in Executors, Halt(e)
  PROVE  IInv'
<1>1. UNCHANGED <<ledgerVars, calls>> /\ \A f \in Executors \ {e} : Still(f)
  BY DEF Halt, Still, IInv, TypeOK
<1>2. /\ pc[e] = "step" /\ pc'[e] = "finish" /\ req'[e] = req[e] /\ snap'[e] = snap[e]
      /\ cur'[e] = cur[e] /\ cur[e] = Len(req[e].plan) + 1 /\ outcome'[e] = "ok"
  BY DEF Halt, IInv, TypeOK
<1>3. ProcInv(e) /\ Executing(e) /\ Executing(e)'
  BY <1>2, Halves DEF Executing
<1>4. req[e].plan \in Plans /\ runs[req[e].run].plan = req[e].plan
  BY <1>2, <1>3 DEF IInv, ReqOK, Request, ProcInv, BoundAs
<1>5. AllSucceeded(req[e].run)
  <2>1. \A i \in StepsOf(req[e].plan) : i \in StepIdx /\ i < cur[e]
    BY <1>2, <1>4, PlansAssumption, SizesAssumption DEF StepsOf, StepIdx
  <2> QED
    BY <1>3, <1>4, <2>1 DEF ProcInv, CursorOK, AllSucceeded
<1>6. ProcInv(e)'
  BY <1>1, <1>2, <1>3, <1>5 DEF ProcInv, CursorOK, AttemptOK, StatusOK, Owns, BoundAs,
     HasLedger, AllSucceeded, ledgerVars
<1> QED
  BY <1>1, <1>2, <1>6, LedgerSame, StepKeeps DEF Owns


-----------------------------------------------------------------------------
\* Steps that change the ledger

\* begin_run fills a fresh row; nobody knew its id.
LEMMA BeginKeeps ==
  ASSUME IInv, TypeInv', NEW e \in Executors, NEW r \in RunIds, Begin(e, r)
  PROVE  IInv'
<1>1. \A f \in Executors \ {e} : Still(f)
  BY DEF Begin, Still, IInv, TypeOK
<1>2. /\ runs[r] = NoRow /\ HasLedger(r)' /\ runs'[r].plan = req[e].plan
      /\ runs'[r].plan \in Plans
      /\ \A i \in StepIdx : effects'[r][i] =
           IF i \in StepsOf(runs'[r].plan) THEN "INTENT_RECORDED" ELSE "NO_ROW"
  <2>1. req[e].plan \in Plans
    BY DEF Begin, IInv, ReqOK, Request
  <2>2. runs' = [runs EXCEPT ![r] = [ledger |-> TRUE, plan |-> req[e].plan,
                   contract |-> ContractDigest(req[e].registry), auth |-> req[e].auth]]
    BY DEF Begin, BeginRun
  <2>3. runs'[r].ledger /\ runs'[r].plan = req[e].plan /\ runs'[r] \in Row
    <3>1. req[e].registry \in RegistryType /\ req[e].auth \in AuthType \cup {NoAuth}
      BY DEF Begin, IInv, ReqOK, Request
    <3>2. ContractDigest(req[e].registry) \in ContractType
      BY <3>1, DigestTyped
    <3>3. runs'[r] = [ledger |-> TRUE, plan |-> req[e].plan,
                      contract |-> ContractDigest(req[e].registry), auth |-> req[e].auth]
      BY <2>2 DEF IInv, TypeOK, LedgerTypeOK
    <3> QED
      BY <2>1, <3>1, <3>2, <3>3 DEF Row
  <2>4. runs'[r] # NoRow
    BY <2>3, SentinelAssumption
  <2> QED
    BY <2>1, <2>3, <2>4 DEF Begin, BeginRun, HasLedger, IInv, TypeOK, LedgerTypeOK
<1>3. \A q \in RunIds \ {r} : runs'[q] = runs[q] /\ effects'[q] = effects[q]
  BY DEF Begin, BeginRun, IInv, TypeOK, LedgerTypeOK
<1>4. UNCHANGED <<exit, results, events, calls>>
  BY DEF Begin, BeginRun
<1>5. LedgerInv /\ ~HasLedger(r)
  BY <1>2, Halves DEF HasLedger
<1>6. /\ exit[r] = "null"
      /\ \A i \in StepIdx :
           /\ effects[r][i] = "NO_ROW" /\ calls[r][i] = 0
           /\ events[r][i] = 0 /\ results[r][i] = "none"
  BY <1>2, <1>5 DEF LedgerInv, LedgerShape, LedgerTellsTruth
<1>7. \A q \in RunIds \ {r} : HasLedger(q)' <=> HasLedger(q)
  BY <1>3 DEF HasLedger
<1>8. LedgerShape'
  <2>1. \A i \in StepIdx :
          effects'[r][i] = "NO_ROW" <=> i \notin StepsOf(runs'[r].plan)
    BY <1>2
  <2> QED
    BY <1>2, <1>3, <1>4, <1>5, <1>7, <2>1 DEF LedgerInv, LedgerShape, HasLedger
<1>9. LedgerTellsTruth' /\ OrderedEffects'
  <2>1. \A i \in StepIdx : effects'[r][i] \in {"NO_ROW", "INTENT_RECORDED"}
    BY <1>2
  <2> QED
    BY <1>3, <1>4, <1>5, <1>6, <2>1
    DEF LedgerInv, LedgerTellsTruth, OrderedEffects, EffectStates
<1>10. AtMostOnce' /\ ExitTellsOutcome'
  <2>1. AtMostOnce'
    <3>1. \A i \in StepIdx : ~(calls'[r][i] > 0)
      BY <1>4, <1>6
    <3> QED
      BY <1>3, <1>4, <1>5, <1>7, <3>1 DEF LedgerInv, AtMostOnce, CallLimit
  <2>2. ExitTellsOutcome'
    BY <1>3, <1>4, <1>5, <1>6, <1>7 DEF LedgerInv, ExitTellsOutcome, AllSucceeded
  <2> QED
    BY <2>1, <2>2
<1>11. Monotone
  BY <1>2, <1>3, <1>6 DEF Monotone
<1>12. \A f \in Executors : RespectsOwner(f)
  <2>1. \A f \in Executors, q \in RunIds, i \in StepIdx :
          Owns(f, q, i) => effects[q][i] = "DISPATCHING"
    BY Halves DEF ProcInv
  <2> QED
    BY <1>3, <1>4, <1>6, <2>1 DEF RespectsOwner
<1>13. pc'[e] = "bind"
  BY DEF Begin, IInv, TypeOK
<1>14. ProcInv(e)' /\ \A q \in RunIds, i \in StepIdx : ~Owns(e, q, i)'
  BY <1>13 DEF ProcInv, CursorOK, AttemptOK, StatusOK, Executing, Owns
<1> QED
  BY <1>1, <1>8, <1>9, <1>10, <1>11, <1>12, <1>14, StepKeeps DEF LedgerInv

\* record_run fills a fresh row that has no ledger.
LEMMA RecordKeeps ==
  ASSUME IInv, TypeInv', NEW r \in RunIds, NEW plan \in Plans \cup {NoPlan},
         NEW code \in {"0", "1"}, RecordOnly(r, plan, code)
  PROVE  IInv'
<1>1. \A f \in Executors : Still(f)
  BY DEF RecordOnly, procVars, Still
<1>2. runs[r] = NoRow /\ ~HasLedger(r) /\ ~HasLedger(r)' /\ runs'[r] # NoRow
  <2>1. runs'[r] \in Row /\ ~runs'[r].ledger
    BY DEF RecordOnly, RecordRun, Row, IInv, TypeOK, LedgerTypeOK
  <2> QED
    BY <2>1, SentinelAssumption DEF RecordOnly, RecordRun, HasLedger
<1>3. \A q \in RunIds \ {r} : runs'[q] = runs[q] /\ exit'[q] = exit[q]
  BY DEF RecordOnly, RecordRun, IInv, TypeOK, LedgerTypeOK
<1>4. UNCHANGED <<effects, results, events, calls>>
  BY DEF RecordOnly, RecordRun
<1>5. LedgerInv
  BY Halves
<1>6. \A q \in RunIds : HasLedger(q)' <=> HasLedger(q)
  BY <1>2, <1>3 DEF HasLedger
<1>7. \A q \in RunIds, i \in StepIdx : calls[q][i] > 0 => q # r
  BY <1>2, <1>5 DEF LedgerInv, AtMostOnce
<1>8. LedgerInv'
  <2>1. LedgerShape' /\ LedgerTellsTruth' /\ OrderedEffects'
    BY <1>2, <1>3, <1>4, <1>5, <1>6
    DEF LedgerInv, LedgerShape, LedgerTellsTruth, OrderedEffects
  <2>2. AtMostOnce' /\ ExitTellsOutcome'
    BY <1>2, <1>3, <1>4, <1>5, <1>6, <1>7
    DEF LedgerInv, AtMostOnce, CallLimit, ExitTellsOutcome, AllSucceeded
  <2> QED
    BY <2>1, <2>2 DEF LedgerInv
<1>9. Monotone /\ \A f \in Executors : RespectsOwner(f)
  BY <1>2, <1>3, <1>4 DEF Monotone, RespectsOwner
<1>10. \A f \in Executors : ProcInv(f)'
  BY <1>1, <1>9, OthersKeep
<1>11. \A e, q, i : Owns(e, q, i)' => Owns(e, q, i)
  BY DEF RecordOnly, procVars, Owns
<1> QED
  BY <1>1, <1>8, <1>9, <1>10, <1>11, StepKeeps


\* What the process half says about a process at a tool step.
LEMMA AtStep ==
  ASSUME IInv, NEW e \in Executors, Executing(e), cur[e] <= Len(req[e].plan)
  PROVE  /\ req[e].run \in RunIds /\ req[e].plan \in Plans /\ HasLedger(req[e].run)
         /\ runs[req[e].run] # NoRow /\ runs[req[e].run].plan = req[e].plan
         /\ cur[e] \in StepIdx /\ cur[e] \in StepsOf(req[e].plan)
         /\ StepsOf(req[e].plan) \subseteq StepIdx
         /\ \A i \in StepIdx : i < cur[e] => effects[req[e].run][i] = "SUCCEEDED"
<1>1. ProcInv(e)
  BY Halves
<1>2. req[e].run \in RunIds /\ req[e].plan \in Plans
  BY DEF Executing, IInv, ReqOK, Request
<1>3. HasLedger(req[e].run) /\ runs[req[e].run] # NoRow
      /\ runs[req[e].run].plan = req[e].plan
  BY <1>1 DEF ProcInv, BoundAs, HasLedger
<1>4. Len(req[e].plan) \in Nat /\ Len(req[e].plan) <= MaxSteps
  BY <1>2, PlansAssumption
<1>5. cur[e] \in 1..(Len(req[e].plan) + 1)
  BY <1>1 DEF ProcInv, CursorOK
<1>6. cur[e] \in StepIdx /\ cur[e] \in StepsOf(req[e].plan)
      /\ StepsOf(req[e].plan) \subseteq StepIdx
  BY <1>4, <1>5, SizesAssumption DEF StepIdx, StepsOf
<1> QED
  BY <1>1, <1>2, <1>3, <1>6 DEF ProcInv, CursorOK

\* A process at work on a step owns it, and the cursor is within the plan.
LEMMA AtOwned ==
  ASSUME IInv, NEW e \in Executors, pc[e] \in {"call", "retry", "observe"}
  PROVE  /\ Executing(e) /\ cur[e] <= Len(req[e].plan)
         /\ Owns(e, req[e].run, cur[e])
         /\ effects[req[e].run][cur[e]] = "DISPATCHING"
         /\ \A f \in Executors : Owns(f, req[e].run, cur[e]) => f = e
<1>1. ProcInv(e) /\ OneOwner
  BY Halves
<1>2. Executing(e) /\ Owns(e, req[e].run, cur[e])
  BY DEF Executing, Owns
<1>3. cur[e] \in StepsOf(req[e].plan)
  BY <1>1 DEF ProcInv, CursorOK
<1>4. req[e].plan \in Plans
  BY DEF IInv, ReqOK, Request
<1>5. cur[e] <= Len(req[e].plan)
  BY <1>3, <1>4, PlansAssumption DEF StepsOf
<1>6. req[e].run \in RunIds /\ cur[e] \in StepIdx
  BY <1>2, <1>5, AtStep
<1> QED
  BY <1>1, <1>2, <1>5, <1>6 DEF ProcInv, OneOwner

\* dispatch_effect opens the first unconfirmed step of the run.
LEMMA DispatchKeeps ==
  ASSUME IInv, TypeInv', NEW e \in Executors, Dispatch(e)
  PROVE  IInv'
<1> DEFINE r == req[e].run
           c == cur[e]
<1>1. \A f \in Executors \ {e} : Still(f)
  BY DEF Dispatch, Still, IInv, TypeOK
<1>2. /\ pc[e] = "step" /\ pc'[e] = "call" /\ req'[e] = req[e] /\ cur'[e] = cur[e]
      /\ snap'[e] = snap[e] /\ attempt'[e] = 1 /\ c <= Len(req[e].plan)
      /\ effects[r][c] = "INTENT_RECORDED"
  BY DEF Dispatch, AtTool, DispatchPermitted, IInv, TypeOK
<1>3. ProcInv(e) /\ Executing(e) /\ Executing(e)' /\ LedgerInv
  BY <1>2, Halves DEF Executing
<1>4. /\ r \in RunIds /\ req[e].plan \in Plans /\ HasLedger(r) /\ runs[r] # NoRow
      /\ runs[r].plan = req[e].plan /\ c \in StepIdx /\ c \in StepsOf(req[e].plan)
      /\ \A i \in StepIdx : i < c => effects[r][i] = "SUCCEEDED"
  BY <1>2, <1>3, AtStep
<1>5. UNCHANGED <<runs, exit, results, events, calls>>
  BY DEF Dispatch, DispatchEffect
<1>6. /\ effects'[r][c] = "DISPATCHING"
      /\ \A q \in RunIds, i \in StepIdx : q # r \/ i # c => effects'[q][i] = effects[q][i]
  BY <1>4 DEF Dispatch, DispatchEffect, IInv, TypeOK, LedgerTypeOK
<1>7. \A q \in RunIds : HasLedger(q)' <=> HasLedger(q)
  BY <1>5 DEF HasLedger
<1>8. LedgerShape'
  <2>1. \A q \in RunIds, i \in StepIdx : effects'[q][i] = "NO_ROW" <=> effects[q][i] = "NO_ROW"
    BY <1>2, <1>6
  <2> QED
    BY <1>3, <1>5, <1>7, <2>1 DEF LedgerInv, LedgerShape
<1>9. LedgerTellsTruth'
  BY <1>2, <1>3, <1>4, <1>5, <1>6 DEF LedgerInv, LedgerTellsTruth
<1>10. OrderedEffects'
  <2> SUFFICES ASSUME NEW q \in RunIds, NEW i \in StepIdx, NEW j \in StepIdx, i < j,
                      effects'[q][j] \in EffectStates \ {"INTENT_RECORDED"}
               PROVE  effects'[q][i] = "SUCCEEDED"
    BY DEF OrderedEffects
  <2>1. CASE q # r
    BY <1>3, <1>6, <2>1 DEF LedgerInv, OrderedEffects
  <2>2. CASE q = r /\ j = c
    BY <1>4, <1>6, <2>2 DEF StepIdx
  <2>3. CASE q = r /\ j # c
    <3>1. effects[r][i] = "SUCCEEDED"
      BY <1>3, <1>4, <1>6, <2>3 DEF LedgerInv, OrderedEffects
    <3> QED
      BY <1>2, <1>4, <1>6, <2>3, <3>1
  <2> QED
    BY <2>1, <2>2, <2>3
<1>11. AtMostOnce'
  BY <1>3, <1>5, <1>7 DEF LedgerInv, AtMostOnce, CallLimit
<1>12. Monotone
  BY <1>2, <1>5, <1>6 DEF Monotone
<1>13. ExitTellsOutcome'
  <2>1. \A q \in RunIds, i \in StepIdx :
          effects[q][i] \in {"SUCCEEDED", "FAILED_UNKNOWN"} => effects'[q][i] = effects[q][i]
    BY <1>12 DEF Monotone
  <2>2. \A q \in RunIds : HasLedger(q) => StepsOf(runs[q].plan) \subseteq StepIdx
    BY <1>3, PlansAssumption, SizesAssumption DEF LedgerInv, LedgerShape, StepsOf, StepIdx
  <2> QED
    BY <1>3, <1>5, <1>7, <2>1, <2>2 DEF LedgerInv, ExitTellsOutcome, AllSucceeded
<1>14. \A f \in Executors : RespectsOwner(f)
  <2>1. \A f \in Executors, q \in RunIds, i \in StepIdx :
          Owns(f, q, i) => effects[q][i] = "DISPATCHING"
    BY Halves DEF ProcInv
  <2> QED
    BY <1>2, <1>5, <1>6, <2>1 DEF RespectsOwner
<1>15. CursorOK(e)'
  BY <1>2, <1>3, <1>4, <1>6, <1>12 DEF ProcInv, CursorOK, Monotone
<1>16. AttemptOK(e)'
  <2>1. calls[r][c] = 0
    BY <1>2, <1>3, <1>4 DEF LedgerInv, LedgerTellsTruth
  <2>2. MaxAttempts(req[e].registry, req[e].plan[c].tool) \in Nat \ {0}
    BY RetriesAssumption DEF MaxAttempts
  <2> QED
    BY <1>2, <1>5, <2>1, <2>2 DEF AttemptOK
<1>17. ProcInv(e)'
  BY <1>2, <1>3, <1>5, <1>6, <1>15, <1>16, <1>7
  DEF ProcInv, StatusOK, BoundAs, HasLedger, Owns
<1>18. \A q \in RunIds, i \in StepIdx : Owns(e, q, i)' => effects[q][i] = "INTENT_RECORDED"
  BY <1>2 DEF Owns
<1>19. LedgerInv'
  BY <1>8, <1>9, <1>10, <1>11, <1>13 DEF LedgerInv
<1> QED
  BY <1>1, <1>12, <1>14, <1>17, <1>18, <1>19, StepKeeps


\* Entering the tool is counted against the limit bound with the run.
LEMMA CallKeeps ==
  ASSUME IInv, TypeInv', NEW e \in Executors, CallReturned(e) \/ CallFailed(e)
  PROVE  IInv'
<1> DEFINE r == req[e].run
           c == cur[e]
           limit == MaxAttempts(req[e].registry, req[e].plan[c].tool)
<1>1. \A f \in Executors \ {e} : Still(f)
  BY DEF CallReturned, CallFailed, EnterTool, Still, IInv, TypeOK
<1>2. /\ pc[e] = "call" /\ req'[e] = req[e] /\ cur'[e] = c
      /\ snap'[e] = snap[e] /\ attempt'[e] = attempt[e]
      /\ pc'[e] \in {"retry", "observe"} /\ (pc'[e] = "retry" => MayRetry(e))
  BY DEF CallReturned, CallFailed, EnterTool, IInv, TypeOK
<1>3. ProcInv(e) /\ Executing(e) /\ Executing(e)' /\ LedgerInv /\ c <= Len(req[e].plan)
      /\ effects[r][c] = "DISPATCHING" /\ Owns(e, r, c)
      /\ \A f \in Executors : Owns(f, r, c) => f = e
  BY <1>2, AtOwned, Halves DEF Executing
<1>4. /\ r \in RunIds /\ HasLedger(r) /\ runs[r].plan = req[e].plan
      /\ c \in StepIdx /\ c \in StepsOf(req[e].plan)
  BY <1>3, AtStep
<1>5. UNCHANGED <<runs, exit, effects, results, events>>
  BY DEF CallReturned, CallFailed, EnterTool, ledgerVars
<1>6. /\ calls'[r][c] = calls[r][c] + 1
      /\ \A q \in RunIds, i \in StepIdx : q # r \/ i # c => calls'[q][i] = calls[q][i]
  BY <1>4 DEF CallReturned, CallFailed, EnterTool, IInv, TypeOK
<1>7. attempt[e] \in 1..limit /\ calls[r][c] = attempt[e] - 1 /\ limit \in Nat
  BY <1>2, <1>3, RetriesAssumption DEF ProcInv, AttemptOK, MaxAttempts
<1>8. calls'[r][c] = attempt[e] /\ attempt[e] <= limit /\ attempt[e] > 0
  BY <1>6, <1>7
<1>9. runs[r].contract # NoContract /\ CallLimit(r, c) = limit
  <2>1. runs[r].contract = ContractDigest(req[e].registry)
    BY <1>3 DEF ProcInv, BoundAs
  <2>2. req[e].registry \in RegistryType
    BY <1>2 DEF IInv, ReqOK, Request
  <2>3. runs[r].contract \in ContractType
    BY <2>1, <2>2, DigestTyped
  <2>4. runs[r].contract.retrySafe = req[e].registry.retrySafe \cap req[e].registry.tools
    BY <2>1 DEF ContractDigest
  <2> QED
    BY <1>4, <2>3, <2>4, SentinelAssumption DEF CallLimit, MaxAttempts
<1>10. AtMostOnce'
  <2> SUFFICES ASSUME NEW q \in RunIds, NEW i \in StepIdx, calls'[q][i] > 0
               PROVE  /\ HasLedger(q) /\ runs[q].contract # NoContract
                      /\ i \in StepsOf(runs[q].plan) /\ calls'[q][i] <= CallLimit(q, i)
    BY <1>5 DEF AtMostOnce, HasLedger, CallLimit
  <2>1. CASE q = r /\ i = c
    BY <1>4, <1>8, <1>9, <2>1
  <2>2. CASE q # r \/ i # c
    BY <1>3, <1>6, <2>2 DEF LedgerInv, AtMostOnce
  <2> QED
    BY <2>1, <2>2
<1>11. LedgerTellsTruth'
  <2>1. \A q \in RunIds, i \in StepIdx :
          effects[q][i] # "DISPATCHING" => calls'[q][i] = calls[q][i]
    BY <1>3, <1>6
  <2> QED
    BY <1>3, <1>5, <2>1 DEF LedgerInv, LedgerTellsTruth
<1>12. LedgerShape' /\ OrderedEffects' /\ ExitTellsOutcome' /\ Monotone
  BY <1>3, <1>5 DEF LedgerInv, LedgerShape, HasLedger, OrderedEffects, ExitTellsOutcome,
     AllSucceeded, Monotone
<1>13. \A f \in Executors \ {e} : RespectsOwner(f)
  BY <1>3, <1>5, <1>6 DEF RespectsOwner
<1>14. ProcInv(e)'
  <2>1. CursorOK(e)' /\ StatusOK(e)'
    BY <1>2, <1>3, <1>5 DEF ProcInv, CursorOK, StatusOK
  <2>2. AttemptOK(e)'
    BY <1>2, <1>7, <1>8 DEF AttemptOK, MayRetry
  <2>3. BoundAs(e, runs[r])'
    BY <1>2, <1>3, <1>5 DEF ProcInv, BoundAs, HasLedger
  <2> QED
    BY <1>2, <1>3, <1>5, <2>1, <2>2, <2>3 DEF ProcInv, Owns
<1>15. \A q \in RunIds, i \in StepIdx : Owns(e, q, i)' => Owns(e, q, i)
  BY <1>2 DEF Owns
<1> QED
  BY <1>1, <1>10, <1>11, <1>12, <1>13, <1>14, <1>15, StepKeeps DEF LedgerInv

\* Saving the error of a failed attempt keeps the step in doubt.
LEMMA RetryKeeps ==
  ASSUME IInv, TypeInv', NEW e \in Executors, Retry(e)
  PROVE  IInv'
<1> DEFINE r == req[e].run
           c == cur[e]
<1>1. \A f \in Executors \ {e} : Still(f)
  BY DEF Retry, Still, IInv, TypeOK
<1>2. /\ pc[e] = "retry" /\ req'[e] = req[e] /\ cur'[e] = c
      /\ snap'[e] = snap[e] /\ attempt'[e] = attempt[e] + 1 /\ pc'[e] = "call"
  BY DEF Retry, IInv, TypeOK
<1>3. ProcInv(e) /\ Executing(e) /\ Executing(e)' /\ LedgerInv
      /\ effects[r][c] = "DISPATCHING" /\ c <= Len(req[e].plan)
  BY <1>2, AtOwned, Halves DEF Executing
<1>4. r \in RunIds /\ c \in StepIdx
  BY <1>3, AtStep
<1>5. UNCHANGED <<runs, exit, effects, events, calls>>
  BY DEF Retry, SaveRetry
<1>6. /\ results'[r][c] = "error"
      /\ \A q \in RunIds, i \in StepIdx : q # r \/ i # c => results'[q][i] = results[q][i]
  BY <1>4 DEF Retry, SaveRetry, IInv, TypeOK, LedgerTypeOK
<1>7. LedgerTellsTruth'
  BY <1>3, <1>5, <1>6 DEF LedgerInv, LedgerTellsTruth
<1>8. LedgerShape' /\ OrderedEffects' /\ ExitTellsOutcome' /\ Monotone /\ AtMostOnce'
  BY <1>3, <1>5 DEF LedgerInv, LedgerShape, HasLedger, OrderedEffects, ExitTellsOutcome,
     AllSucceeded, Monotone, AtMostOnce, CallLimit
<1>9. \A f \in Executors : RespectsOwner(f)
  BY <1>5 DEF RespectsOwner
<1>10. ProcInv(e)'
  <2>1. CursorOK(e)' /\ StatusOK(e)'
    BY <1>2, <1>3, <1>5 DEF ProcInv, CursorOK, StatusOK
  <2>2. AttemptOK(e)'
    <3> DEFINE limit == MaxAttempts(req[e].registry, req[e].plan[c].tool)
    <3>1. attempt[e] \in 1..limit /\ attempt[e] < limit /\ calls[r][c] = attempt[e]
          /\ limit \in Nat
      BY <1>2, <1>3, RetriesAssumption DEF ProcInv, AttemptOK, MayRetry, MaxAttempts
    <3> QED
      BY <1>2, <1>5, <3>1 DEF AttemptOK
  <2>3. BoundAs(e, runs[r])'
    BY <1>2, <1>3, <1>5 DEF ProcInv, BoundAs, HasLedger
  <2> QED
    BY <1>2, <1>3, <1>5, <2>1, <2>2, <2>3 DEF ProcInv, Owns
<1>11. \A q \in RunIds, i \in StepIdx : Owns(e, q, i)' => Owns(e, q, i)
  BY <1>2 DEF Owns
<1> QED
  BY <1>1, <1>7, <1>8, <1>9, <1>10, <1>11, StepKeeps DEF LedgerInv


\* Storing the outcome resolves the step its owner holds.
LEMMA ObserveKeeps ==
  ASSUME IInv, TypeInv', NEW e \in Executors, Observe(e)
  PROVE  IInv'
<1> DEFINE r == req[e].run
           c == cur[e]
           ok == outcome[e] = "ok"
           new == IF ok THEN "SUCCEEDED" ELSE "FAILED_UNKNOWN"
<1>1. \A f \in Executors \ {e} : Still(f)
  BY DEF Observe, Still, IInv, TypeOK
<1>2. /\ pc[e] = "observe" /\ req'[e] = req[e] /\ snap'[e] = snap[e]
      /\ ok => pc'[e] = "step" /\ cur'[e] = c + 1
      /\ ~ok => pc'[e] = "finish" /\ cur'[e] = c /\ outcome'[e] = outcome[e]
  BY DEF Observe, IInv, TypeOK
<1>3. ProcInv(e) /\ Executing(e) /\ Executing(e)' /\ LedgerInv /\ c <= Len(req[e].plan)
      /\ effects[r][c] = "DISPATCHING" /\ Owns(e, r, c)
      /\ \A f \in Executors : Owns(f, r, c) => f = e
  BY <1>2, AtOwned, Halves DEF Executing
<1>4. /\ r \in RunIds /\ HasLedger(r) /\ runs[r].plan = req[e].plan
      /\ req[e].plan \in Plans
      /\ c \in StepIdx /\ c \in StepsOf(req[e].plan)
      /\ \A i \in StepIdx : i < c => effects[r][i] = "SUCCEEDED"
  BY <1>3, AtStep
<1>5. UNCHANGED <<runs, exit, calls>>
  BY DEF Observe, ObserveEffect
<1>6. /\ effects'[r][c] = new
      /\ results'[r][c] = IF ok THEN "value" ELSE "error"
      /\ events'[r][c] = events[r][c] + 1
      /\ \A q \in RunIds, i \in StepIdx : q # r \/ i # c =>
           /\ effects'[q][i] = effects[q][i] /\ results'[q][i] = results[q][i]
           /\ events'[q][i] = events[q][i]
  <2>1. /\ effects' = [effects EXCEPT ![r][c] = new]
        /\ results' = [results EXCEPT ![r][c] = IF ok THEN "value" ELSE "error"]
        /\ events' = [events EXCEPT ![r][c] = events[r][c] + 1]
    BY DEF Observe, ObserveEffect
  <2> QED
    BY <1>4, <2>1 DEF IInv, TypeOK, LedgerTypeOK
<1>7. \A q \in RunIds : HasLedger(q)' <=> HasLedger(q)
  BY <1>5 DEF HasLedger
<1>8. LedgerShape'
  <2>1. \A q \in RunIds, i \in StepIdx : effects'[q][i] = "NO_ROW" <=> effects[q][i] = "NO_ROW"
    BY <1>3, <1>6
  <2> QED
    BY <1>3, <1>5, <1>7, <2>1 DEF LedgerInv, LedgerShape
<1>9. LedgerTellsTruth'
  <2>1. calls[r][c] > 0
    <3>1. attempt[e] \in 1..MaxAttempts(req[e].registry, req[e].plan[c].tool)
          /\ calls[r][c] = attempt[e]
      BY <1>2, <1>3 DEF ProcInv, AttemptOK
    <3>2. MaxAttempts(req[e].registry, req[e].plan[c].tool) \in Nat
      BY RetriesAssumption DEF MaxAttempts
    <3> QED
      BY <3>1, <3>2
  <2>2. events[r][c] = 0
    BY <1>3, <1>4 DEF LedgerInv, LedgerTellsTruth
  <2>3. /\ effects'[r][c] = new /\ calls'[r][c] > 0 /\ events'[r][c] = 1
        /\ results'[r][c] = IF ok THEN "value" ELSE "error"
    BY <1>5, <1>6, <2>1, <2>2
  <2> SUFFICES ASSUME NEW q \in RunIds, NEW i \in StepIdx
               PROVE
    /\ effects'[q][i] \in {"NO_ROW", "INTENT_RECORDED"} =>
         calls'[q][i] = 0 /\ events'[q][i] = 0 /\ results'[q][i] = "none"
    /\ effects'[q][i] = "DISPATCHING" => events'[q][i] = 0 /\ results'[q][i] # "value"
    /\ effects'[q][i] = "SUCCEEDED" =>
         calls'[q][i] > 0 /\ events'[q][i] = 1 /\ results'[q][i] = "value"
    /\ effects'[q][i] = "FAILED_UNKNOWN" =>
         calls'[q][i] > 0 /\ events'[q][i] = 1 /\ results'[q][i] = "error"
    BY DEF LedgerTellsTruth
  <2>4. CASE q = r /\ i = c
    BY <2>3, <2>4
  <2>5. CASE q # r \/ i # c
    BY <1>3, <1>5, <1>6, <2>5 DEF LedgerInv, LedgerTellsTruth
  <2> QED
    BY <2>4, <2>5
<1>10. OrderedEffects'
  <2> SUFFICES ASSUME NEW q \in RunIds, NEW i \in StepIdx, NEW j \in StepIdx, i < j,
                      effects'[q][j] \in EffectStates \ {"INTENT_RECORDED"}
               PROVE  effects'[q][i] = "SUCCEEDED"
    BY DEF OrderedEffects
  <2>1. effects[q][j] \in EffectStates \ {"INTENT_RECORDED"}
    BY <1>3, <1>6 DEF EffectStates
  <2>2. effects[q][i] = "SUCCEEDED"
    BY <1>3, <2>1 DEF LedgerInv, OrderedEffects
  <2> QED
    BY <1>3, <1>6, <2>2
<1>11. AtMostOnce'
  BY <1>3, <1>5, <1>7 DEF LedgerInv, AtMostOnce, CallLimit
<1>12. Monotone
  BY <1>3, <1>5, <1>6 DEF Monotone
<1>13. ExitTellsOutcome'
  <2>1. \A q \in RunIds, i \in StepIdx :
          effects[q][i] \in {"SUCCEEDED", "FAILED_UNKNOWN"} => effects'[q][i] = effects[q][i]
    BY <1>12 DEF Monotone
  <2>2. \A q \in RunIds : HasLedger(q) => StepsOf(runs[q].plan) \subseteq StepIdx
    BY <1>3, PlansAssumption, SizesAssumption DEF LedgerInv, LedgerShape, StepsOf, StepIdx
  <2> QED
    BY <1>3, <1>5, <1>7, <2>1, <2>2 DEF LedgerInv, ExitTellsOutcome, AllSucceeded
<1>14. \A f \in Executors \ {e} : RespectsOwner(f)
  BY <1>3, <1>5, <1>6 DEF RespectsOwner
<1>15. CursorOK(e)'
  <2>1. Len(req[e].plan) \in Nat
    BY <1>4, PlansAssumption
  <2>2. cur'[e] \in 1..(Len(req[e].plan) + 1) /\ pc'[e] \in {"step", "finish"}
    BY <1>2, <1>3, <2>1 DEF ProcInv, CursorOK
  <2>3. \A i \in StepIdx : snap[e][i] = "SUCCEEDED" \/ i < c => effects'[r][i] = "SUCCEEDED"
    BY <1>3, <1>4, <1>12 DEF ProcInv, CursorOK, Monotone
  <2>4. \A i \in StepIdx : i < cur'[e] => effects'[r][i] = "SUCCEEDED"
    <3>1. CASE ok
      <4>1. \A i \in StepIdx : i < c + 1 => i < c \/ i = c
        BY <1>4 DEF StepIdx
      <4>2. effects'[r][c] = "SUCCEEDED"
        BY <1>6, <3>1
      <4> QED
        BY <1>2, <2>3, <3>1, <4>1, <4>2
    <3>2. CASE ~ok
      BY <1>2, <2>3, <3>2
    <3> QED
      BY <3>1, <3>2
  <2> QED
    BY <1>2, <2>2, <2>3, <2>4 DEF CursorOK
<1>16. StatusOK(e)'
  BY <1>2, <1>4, <1>6 DEF StatusOK
<1>17. BoundAs(e, runs[r])'
  BY <1>2, <1>3, <1>5 DEF ProcInv, BoundAs, HasLedger
<1>18. ProcInv(e)'
  BY <1>2, <1>15, <1>16, <1>17 DEF ProcInv, AttemptOK, Owns
<1>19. LedgerInv' /\ \A q \in RunIds, i \in StepIdx : ~Owns(e, q, i)'
  BY <1>2, <1>8, <1>9, <1>10, <1>11, <1>13 DEF LedgerInv, Owns
<1> QED
  BY <1>1, <1>12, <1>14, <1>18, <1>19, StepKeeps

\* finish_run reports what the ledger shows.
LEMMA FinishKeeps ==
  ASSUME IInv, TypeInv', NEW e \in Executors, Finish(e)
  PROVE  IInv'
<1> DEFINE r == req[e].run
<1>1. Return(e) /\ UNCHANGED <<runs, effects, results, events, calls>>
  BY DEF Finish, FinishRun
<1>2. pc[e] = "finish" /\ Executing(e) /\ r \in RunIds
  BY DEF Finish, Executing, IInv, ReqOK
<1>3. ProcInv(e) /\ LedgerInv
  BY Halves
<1>4. HasLedger(r) /\ runs[r] # NoRow
  BY <1>2, <1>3 DEF ProcInv, BoundAs, HasLedger
<1>5. /\ exit'[r] = IF outcome[e] = "ok" THEN "0" ELSE "1"
      /\ \A q \in RunIds \ {r} : exit'[q] = exit[q]
  BY <1>2 DEF Finish, FinishRun, IInv, TypeOK, LedgerTypeOK
<1>6. LedgerShape'
  BY <1>1, <1>3, <1>4, <1>5 DEF LedgerInv, LedgerShape, HasLedger
<1>7. LedgerTellsTruth' /\ OrderedEffects' /\ AtMostOnce' /\ Monotone
  BY <1>1, <1>3 DEF LedgerInv, LedgerTellsTruth, OrderedEffects, AtMostOnce, CallLimit,
     HasLedger, Monotone
<1>8. ExitTellsOutcome'
  <2>1. IF outcome[e] = "ok" THEN AllSucceeded(r)
        ELSE \E i \in StepIdx : effects[r][i] = "FAILED_UNKNOWN"
    BY <1>2, <1>3 DEF ProcInv, StatusOK
  <2> QED
    BY <1>1, <1>3, <1>5, <2>1 DEF LedgerInv, ExitTellsOutcome, AllSucceeded, HasLedger
<1>9. \A f \in Executors : RespectsOwner(f)
  BY <1>1 DEF RespectsOwner
<1> QED
  BY <1>1, <1>6, <1>7, <1>8, <1>9, Returned, StepKeeps DEF LedgerInv, IInv

-----------------------------------------------------------------------------
\* The inductive invariant

\* Legacy runs hold intents only, and no process serves a request.
LEMMA InitHolds == Init => IInv
<1> SUFFICES ASSUME Init PROVE IInv
  OBVIOUS
<1>1. TypeOK /\ ReqOK
  BY InitTyped DEF TypeInv
<1>2. PICK legacy \in [LegacyRuns -> Plans] :
        /\ runs = [r \in RunIds |->
             IF r \in LegacyRuns THEN LegacyRow(legacy[r]) ELSE NoRow]
        /\ effects = [r \in RunIds |-> [i \in StepIdx |->
             IF r \in LegacyRuns /\ i \in StepsOf(legacy[r])
             THEN "INTENT_RECORDED" ELSE "NO_ROW"]]
  BY DEF Init, LedgerInit
<1>3. \A r \in RunIds : IF r \in LegacyRuns
        THEN HasLedger(r) /\ runs[r].plan = legacy[r] /\ legacy[r] \in Plans
             /\ runs[r] # NoRow
        ELSE ~HasLedger(r) /\ runs[r] = NoRow
  <2> SUFFICES ASSUME NEW r \in RunIds, r \in LegacyRuns
               PROVE  LegacyRow(legacy[r]) \in Row /\ LegacyRow(legacy[r]).ledger
                      /\ LegacyRow(legacy[r]).plan = legacy[r] /\ legacy[r] \in Plans
    BY <1>2, SentinelAssumption DEF HasLedger
  <2> QED
    BY DEF LegacyRow, Row
<1>4. /\ exit = [r \in RunIds |-> "null"]
      /\ results = [r \in RunIds |-> [i \in StepIdx |-> "none"]]
      /\ events = [r \in RunIds |-> [i \in StepIdx |-> 0]]
      /\ calls = [r \in RunIds |-> [i \in StepIdx |-> 0]]
      /\ \A e \in Executors : pc[e] = "idle"
  BY DEF Init, LedgerInit
<1>5. \A r \in RunIds, i \in StepIdx : effects[r][i] =
        IF r \in LegacyRuns /\ i \in StepsOf(legacy[r]) THEN "INTENT_RECORDED" ELSE "NO_ROW"
  BY <1>2
<1>6. LedgerInv
  BY <1>3, <1>4, <1>5 DEF LedgerInv, LedgerShape, LedgerTellsTruth, OrderedEffects,
     AtMostOnce, ExitTellsOutcome, EffectStates
<1>7. OneOwner /\ \A e \in Executors : ProcInv(e)
  BY <1>4 DEF OneOwner, ProcInv, CursorOK, AttemptOK, StatusOK, Executing, Owns
<1> QED
  BY <1>1, <1>6, <1>7, Halves

\* Every step of every process keeps IInv.
LEMMA NextHolds == IInv /\ [Next]_vars => IInv'
<1> SUFFICES ASSUME IInv, [Next]_vars PROVE IInv'
  OBVIOUS
<1>t. TypeInv'
  BY NextTyped DEF IInv, TypeInv
<1>1. ASSUME NEW e \in Executors, Arrive(e) PROVE IInv'
  BY <1>t, <1>1, ArriveKeeps
<1>2. ASSUME NEW e \in Executors, NEW r \in RunIds, Begin(e, r) PROVE IInv'
  BY <1>t, <1>2, BeginKeeps
<1>3. ASSUME NEW e \in Executors,
             BeginRefused(e) \/ BindRefused(e) \/ DispatchRefused(e) \/ Crash(e)
      PROVE  IInv'
  BY <1>t, <1>3, ReturnKeeps DEF BeginRefused, BindRefused, DispatchRefused, Crash
<1>4. ASSUME NEW e \in Executors, Bind(e) PROVE IInv'
  BY <1>t, <1>4, BindKeeps
<1>5. ASSUME NEW e \in Executors, Reuse(e) PROVE IInv'
  BY <1>t, <1>5, ReuseKeeps
<1>6. ASSUME NEW e \in Executors, Dispatch(e) PROVE IInv'
  BY <1>t, <1>6, DispatchKeeps
<1>7. ASSUME NEW e \in Executors, CallReturned(e) \/ CallFailed(e) PROVE IInv'
  BY <1>t, <1>7, CallKeeps
<1>8. ASSUME NEW e \in Executors, Retry(e) PROVE IInv'
  BY <1>t, <1>8, RetryKeeps
<1>9. ASSUME NEW e \in Executors, Observe(e) PROVE IInv'
  BY <1>t, <1>9, ObserveKeeps
<1>10. ASSUME NEW e \in Executors, Halt(e) PROVE IInv'
  BY <1>t, <1>10, HaltKeeps
<1>11. ASSUME NEW e \in Executors, Finish(e) PROVE IInv'
  BY <1>t, <1>11, FinishKeeps
<1>12. ASSUME NEW r \in RunIds, NEW plan \in Plans \cup {NoPlan}, NEW code \in {"0", "1"},
              RecordOnly(r, plan, code)
       PROVE  IInv'
  BY <1>t, <1>12, RecordKeeps
<1>13. CASE UNCHANGED vars
  <2>1. UNCHANGED <<ledgerVars, calls>> /\ \A f \in Executors : Still(f)
    BY <1>13 DEF vars, procVars, Still
  <2>2. LedgerInv' /\ Monotone /\ \A f \in Executors : RespectsOwner(f)
    BY <2>1, LedgerSame
  <2>3. \A f \in Executors : ProcInv(f)'
    BY <2>1, <2>2, OthersKeep
  <2>4. \A e, r, i : Owns(e, r, i)' => Owns(e, r, i)
    BY <1>13 DEF vars, procVars, Owns
  <2> QED
    BY <1>t, <2>1, <2>2, <2>3, <2>4, StepKeeps
<1> QED
  BY <1>1, <1>2, <1>3, <1>4, <1>5, <1>6, <1>7, <1>8, <1>9, <1>10, <1>11, <1>12, <1>13
  DEF Next, Step

\* IInv holds in every reachable state.
THEOREM InductiveInvariant == Spec => []IInv
BY InitHolds, NextHolds, PTL DEF Spec

\* No step's tool is entered more often than the contract bound with its run
\* allows, for any number of processes, recoveries and crashes.
THEOREM AtMostOnceHolds == Spec => []AtMostOnce
<1>1. IInv => AtMostOnce
  BY DEF IInv
<1> QED
  BY <1>1, InductiveInvariant, PTL

\* What recovery reads in the ledger is what happened.
THEOREM LedgerTellsTruthHolds == Spec => []LedgerTellsTruth
<1>1. IInv => LedgerTellsTruth
  BY DEF IInv
<1> QED
  BY <1>1, InductiveInvariant, PTL

\* Steps take effect in plan order; nothing is dispatched past a doubtful one.
THEOREM OrderedEffectsHolds == Spec => []OrderedEffects
<1>1. IInv => OrderedEffects
  BY DEF IInv
<1> QED
  BY <1>1, InductiveInvariant, PTL

\* A dispatched step has one writer.
THEOREM SoleDispatcherHolds == Spec => []SoleDispatcher
<1>1. IInv => SoleDispatcher
  BY DEF IInv
<1> QED
  BY <1>1, InductiveInvariant, PTL

\* The exit code of a ledger run agrees with its effects.
THEOREM ExitTellsOutcomeHolds == Spec => []ExitTellsOutcome
<1>1. IInv => ExitTellsOutcome
  BY DEF IInv
<1> QED
  BY <1>1, InductiveInvariant, PTL

\* A process executes the plan, contract and authorization its run is bound to.
THEOREM ExecutesAsBoundHolds == Spec => []ExecutesAsBound
<1>1. IInv => ExecutesAsBound
  BY DEF IInv
<1> QED
  BY <1>1, InductiveInvariant, PTL

=============================================================================
