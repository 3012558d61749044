---------------------------- MODULE ServerProofs ----------------------------
(***************************************************************************)
(* ApexServer implements Executor: every step of the callers, of the       *)
(* server and of the other processes is a step of Executor or leaves the   *)
(* ledger and the processes alone.  So what is proved of Executor holds of *)
(* every run that is started or recovered over HTTP.                       *)
(* From that and from ServerInv, which says where each submission stands   *)
(* and what runs in its name, follows what callers are told.               *)
(***************************************************************************)
EXTENDS ApexServer, ExecutorPromise, FiniteSetTheorems

\* What c sent is a message some caller sends: an approved plan under the
\* caller's own authorization id, a plan of Executor, or a run to replay.
MessageOK(c) ==
  /\ sent[c].route = "authorized-run" =>
       /\ c \in AuthIds /\ sent[c].plan \in Seq(ToolCall)
       /\ Len(sent[c].plan) <= MaxSteps => sent[c].plan \in Plans
  /\ sent[c].route = "run" => sent[c].plan \in Plans
  /\ sent[c].route = "replay" => sent[c].run \in RunIds

\* The requests that wait are of that kind, and the server has a registry.
WireOK ==
  /\ known \in {Down} \cup Registries
  /\ DOMAIN sent = Callers
  /\ backlog \in Seq(Callers)
  /\ \A i \in DOMAIN backlog : MessageOK(backlog[i])

LEMMA SendWired ==
  ASSUME WireOK, NEW c \in Callers, NEW message, Send(c, message),
         message.route = "authorized-run" =>
           /\ c \in AuthIds /\ message.plan \in Seq(ToolCall)
           /\ Len(message.plan) <= MaxSteps => message.plan \in Plans,
         message.route = "run" => message.plan \in Plans,
         message.route = "replay" => message.run \in RunIds
  PROVE  WireOK'
<1>1. sent' = [sent EXCEPT ![c] = message] /\ known' = known
  BY DEF Send
<1>2. MessageOK(c)'
  BY <1>1 DEF WireOK, MessageOK
<1>3. ASSUME NEW d \in Callers, MessageOK(d)
      PROVE  MessageOK(d)'
  <2>1. CASE d = c
    BY <1>2, <2>1
  <2>2. CASE d # c
    BY <1>1, <1>3, <2>2 DEF WireOK, MessageOK
  <2> QED
    BY <2>1, <2>2
<1>4. CASE backlog' = Append(backlog, c)
  <2>1. backlog' \in Seq(Callers)
    BY <1>4 DEF WireOK
  <2>2. ASSUME NEW i \in DOMAIN backlog'
        PROVE  MessageOK(backlog[i])'
    <3>1. backlog'[i] = c \/ (i \in DOMAIN backlog /\ backlog'[i] = backlog[i])
      BY <1>4, <2>2 DEF WireOK
    <3>2. backlog'[i] \in Callers
      BY <2>1, <2>2
    <3> QED
      BY <3>1, <3>2, <1>2, <1>3 DEF WireOK
  <2> QED
    BY <1>1, <2>1, <2>2 DEF WireOK
<1>5. CASE backlog' = backlog
  <2>1. ASSUME NEW i \in DOMAIN backlog'
        PROVE  MessageOK(backlog[i])'
    <3>1. backlog[i] \in Callers /\ MessageOK(backlog[i])
      BY <1>5, <2>1 DEF WireOK
    <3>2. MessageOK(backlog[i])'
      <4> DEFINE d == backlog[i]
      <4>1. MessageOK(d) => d \in Callers /\ backlog'[i] = d
        BY <1>5, <3>1
      <4> QED
        BY <1>1, <1>2, <1>5, <3>1 DEF WireOK, MessageOK
    <3> QED
      BY <3>2
  <2> QED
    BY <1>1, <1>5, <2>1 DEF WireOK
<1> QED
  BY <1>4, <1>5 DEF Send

\* A step that sends nothing keeps the requests, or a part of them.
LEMMA QuietWired ==
  ASSUME WireOK, sent' = sent, known' \in {Down} \cup Registries,
         \/ backlog' = backlog
         \/ backlog' = <<>>
         \/ backlog # <<>> /\ backlog' = Tail(backlog)
  PROVE  WireOK'
<1>1. backlog' \in Seq(Callers)
  <2>1. backlog \in Seq(Callers)
    BY DEF WireOK
  <2>2. <<>> \in Seq(Callers)
    OBVIOUS
  <2>3. backlog # <<>> => Tail(backlog) \in Seq(Callers)
    BY <2>1
  <2> QED
    BY <2>1, <2>2, <2>3
<1>2. ASSUME NEW i \in DOMAIN backlog'
      PROVE  \E j \in DOMAIN backlog : backlog'[i] = backlog[j]
  <2>1. CASE backlog # <<>> /\ backlog' = Tail(backlog)
    <3>1. i + 1 \in DOMAIN backlog /\ backlog'[i] = backlog[i + 1]
      BY <1>2, <2>1 DEF WireOK
    <3> QED
      BY <3>1
  <2> QED
    BY <1>2, <2>1
<1>3. ASSUME NEW i \in DOMAIN backlog'
      PROVE  MessageOK(backlog[i])'
  <2>1. PICK j \in DOMAIN backlog : backlog'[i] = backlog[j]
    BY <1>2, <1>3
  <2>2. MessageOK(backlog[j])
    BY DEF WireOK
  <2> QED
    BY <2>1, <2>2 DEF MessageOK
<1> QED
  BY <1>1, <1>3 DEF WireOK

LEMMA ServerInitWired == ServerInit => WireOK
BY DEF ServerInit, WireOK

LEMMA ServerNextWired == WireOK /\ [ServerNext]_serverVars => WireOK'
<1> SUFFICES ASSUME WireOK, [ServerNext]_serverVars
             PROVE  WireOK'
  OBVIOUS
<1>1. CASE UNCHANGED serverVars
  BY <1>1, QuietWired DEF serverVars, httpVars, WireOK
<1>2. ASSUME NEW c \in AuthIds, NEW q \in AsonRequests, NEW authority \in BOOLEAN,
             AsonSubmit(c, q, authority)
      PROVE  WireOK'
  <2>1. CASE \E why : AsonRefuses(c, why)
    BY <2>1, QuietWired DEF AsonRefuses, WireOK
  <2>2. CASE /\ Validates(q) /\ Canonical(q.plan)
             /\ Send(c, [route |-> "authorized-run", plan |-> q.plan, policy |-> q.policy,
                         run |-> NoRun])
    <3>1. q.plan \in Seq(ToolCall) /\ (Len(q.plan) <= MaxSteps => q.plan \in Plans)
      BY <2>2, AsonAssumption DEF AsonRequest
    <3>2. c \in Callers
      BY DEF Callers
    <3> QED
      BY <2>2, <3>1, <3>2, SendWired
  <2> QED
    BY <1>2, <2>1, <2>2 DEF AsonSubmit
<1>3. ASSUME NEW c \in Clients, Call(c)
      PROVE  WireOK'
  <2>1. c \in Callers
    BY DEF Callers
  <2>2. CASE \E plan \in Plans : Ask(c, "run", plan, NoRun)
    BY <2>1, <2>2, SendWired DEF Ask
  <2>3. CASE \E r \in RunIds : Ask(c, "replay", NoPlan, r)
    BY <2>1, <2>3, SendWired DEF Ask
  <2>4. CASE \E route \in {"task", "read"} : Ask(c, route, NoPlan, NoRun)
    BY <2>1, <2>4, SendWired DEF Ask
  <2> QED
    BY <1>3, <2>2, <2>3, <2>4 DEF Call
<1>4. ASSUME NEW c \in Callers, GiveUp(c)
      PROVE  WireOK'
  BY <1>4, QuietWired DEF GiveUp, WireOK
<1>5. CASE Serve
  BY <1>5, QuietWired
  DEF Serve, ServeAuthorized, ServePlan, ServeTask, ServeReplay, ServeRead, Take, WireOK
<1>6. CASE Handle \/ HandlerFails
  BY <1>6, QuietWired DEF Handle, HandlerFails, WireOK
<1>7. CASE ServerDies \/ ServerStarts
  BY <1>7, QuietWired DEF ServerDies, ServerStarts, WireOK
<1>8. CASE Elsewhere
  BY <1>8, QuietWired DEF Elsewhere, httpVars, WireOK
<1> QED
  BY <1>1, <1>2, <1>3, <1>4, <1>5, <1>6, <1>7, <1>8 DEF ServerNext

-----------------------------------------------------------------------------

\* A request the server takes is one Executor accepts, or changes nothing.
LEMMA ServeImplements ==
  ASSUME WireOK, NEW c \in Callers,
         ServeAuthorized(c) \/ ServePlan(c) \/ ServeTask(c) \/ ServeReplay(c) \/ ServeRead(c)
  PROVE  [Next]_vars
<1>1. Server \in Executors
  BY ServerAssumption
<1>2. MessageOK(c) /\ known \in Registries
  <2>1. Up /\ backlog # <<>> /\ c = Head(backlog)
    BY DEF ServeAuthorized, ServePlan, ServeTask, ServeReplay, ServeRead, Take
  <2>2. 1 \in DOMAIN backlog /\ c = backlog[1]
    BY <2>1 DEF WireOK
  <2> QED
    BY <2>1, <2>2 DEF WireOK, Up
<1>3. ASSUME NEW plan \in Plans, NEW auth \in Auths, Submit(Server, plan, known, auth)
      PROVE  [Next]_vars
  BY <1>1, <1>2, <1>3 DEF Next, Arrive
<1>4. NoAuth \in Auths
  BY DEF Auths
<1>5. CASE ServeAuthorized(c)
  <2>1. CASE Parses(sent[c].plan, known)
             /\ ValidAuthorization(Authorization(c), sent[c].plan)
    <3>1. sent[c].plan \in Plans /\ c \in AuthIds
      BY <1>2, <1>5, <2>1 DEF MessageOK, ServeAuthorized, Take, Parses
    <3>2. Authorization(c) \in Auths
      BY <3>1 DEF Authorization, Auths, AuthType
    <3> QED
      BY <1>3, <1>5, <2>1, <3>1, <3>2 DEF ServeAuthorized
  <2> QED
    BY <1>5, <2>1 DEF ServeAuthorized, AnswerAtOnce
<1>6. CASE ServePlan(c)
  <2>1. sent[c].plan \in Plans
    BY <1>2, <1>6 DEF MessageOK, ServePlan, Take
  <2> QED
    BY <1>3, <1>4, <1>6, <2>1 DEF ServePlan, AnswerAtOnce
<1>7. CASE ServeTask(c)
  <2>1. CASE \E r \in RunIds : RecordOnly(r, NoPlan, "1")
    BY <2>1 DEF Next
  <2> QED
    BY <1>3, <1>4, <1>7, <2>1 DEF ServeTask
<1>8. CASE ServeReplay(c)
  <2>1. sent[c].run \in RunIds
    BY <1>2, <1>8 DEF MessageOK, ServeReplay, Take
  <2>2. ASSUME NEW registry \in Registries, ReplayLive(Server, sent[c].run, registry, FALSE)
        PROVE  [Next]_vars
    BY <1>1, <2>1, <2>2 DEF Next, Arrive
  <2> QED
    BY <1>8, <2>2 DEF ServeReplay, AnswerAtOnce
<1>9. CASE ServeRead(c)
  BY <1>9 DEF ServeRead, AnswerAtOnce
<1> QED
  BY <1>5, <1>6, <1>7, <1>8, <1>9

\* Every step is a step of Executor, or a stutter.
LEMMA ServerStepImplements == WireOK /\ [ServerNext]_serverVars => [Next]_vars
<1> SUFFICES ASSUME WireOK, [ServerNext]_serverVars
             PROVE  [Next]_vars
  OBVIOUS
<1>0. Server \in Executors
  BY ServerAssumption
<1>1. CASE UNCHANGED vars
  BY <1>1
<1>2. CASE Serve
  BY <1>2, ServeImplements DEF Serve
<1>3. CASE Handle
  BY <1>0, <1>3 DEF Handle, Next
<1>4. CASE HandlerFails
  BY <1>0, <1>4 DEF HandlerFails, Next
<1>5. CASE ServerDies
  BY <1>0, <1>5 DEF ServerDies, Next
<1>6. CASE Elsewhere
  <2>1. PICK e \in Executors \ {Server} :
          \/ \E r \in RunIds, registry \in Registries : ReplayLive(e, r, registry, FALSE)
          \/ Step(e) \/ Crash(e)
    BY <1>6 DEF Elsewhere
  <2> QED
    BY <2>1 DEF Next, Arrive
<1>7. ASSUME NEW c, NEW message, Send(c, message)
      PROVE  UNCHANGED vars
  BY <1>7 DEF Send
<1>8. ASSUME NEW c, NEW q, NEW authority, AsonSubmit(c, q, authority)
      PROVE  UNCHANGED vars
  BY <1>7, <1>8 DEF AsonSubmit, AsonRefuses
<1>9. ASSUME NEW c, Call(c)
      PROVE  UNCHANGED vars
  BY <1>7, <1>9 DEF Call, Ask
<1>10. CASE UNCHANGED serverVars \/ ServerStarts \/ \E c \in Callers : GiveUp(c)
  BY <1>1, <1>10 DEF serverVars, ServerStarts, GiveUp
<1> QED
  BY <1>1, <1>2, <1>3, <1>4, <1>5, <1>6, <1>8, <1>9, <1>10 DEF ServerNext

\* The server, its callers and the processes beside it do nothing the
\* processes of Executor may not do.
THEOREM ServerImplementsExecutor == ServerSpec => ImplementsExecutor
<1>1. ServerInit => Init
  BY DEF ServerInit
<1> QED
  BY <1>1, ServerInitWired, ServerNextWired, ServerStepImplements, PTL
  DEF ServerSpec, Spec, ImplementsExecutor

\* Whatever callers send, give up and send again, and however often the server
\* dies, no step's tool is entered more often than its run's contract allows.
THEOREM ServedAtMostOnce == ServerSpec => []AtMostOnce
BY ServerImplementsExecutor, AtMostOnceHolds DEF ImplementsExecutor

\* Runs that are started over HTTP keep the promise of RunPromise: they settle
\* once, and as their calls went.
THEOREM ServedKeepsPromise == ServerSpec => KeepsPromise
BY ServerImplementsExecutor, KeepsPromiseHolds DEF ImplementsExecutor

-----------------------------------------------------------------------------
\* Which run belongs to which submission.

InName(r, c) == runs[r] # NoRow /\ runs[r].auth # NoAuth /\ runs[r].auth.id = c

Queued(c) == \E i \in DOMAIN backlog : backlog[i] = c

\* A caller waits once, or is served; one that has an answer, or asked for
\* nothing yet, does neither.
QueueOK ==
  /\ \A i, j \in DOMAIN backlog : backlog[i] = backlog[j] => i = j
  /\ \A c \in Callers :
       /\ serving = c => ~Queued(c)
       /\ answer[c] \notin {"waiting", "lost"} => ~Queued(c) /\ serving # c

\* Only the server begins runs: what it executes for a submission is the plan
\* that was sent, under the authorization of that submission.
CarrierOK ==
  /\ \A e \in Executors : e # Server => pc[e] # "begin"
  /\ serving = NoCaller <=> pc[Server] = "idle"
  /\ serving \in Callers =>
       req[Server].auth = IF serving \in AuthIds THEN Authorization(serving) ELSE NoAuth
  /\ serving \in AuthIds =>
       /\ req[Server].plan = sent[serving].plan
       /\ pc[Server] # "begin" => InName(req[Server].run, serving)

Beginning(c) == serving = c /\ pc[Server] = "begin"

Ran(c) == \E r \in RunIds : InName(r, c)

\* A request under way, or with a run, is an approved submission; it has one
\* run, of the plan it sent, and none while the server has not begun it.
SubmissionOK(c) ==
  /\ Queued(c) \/ serving = c \/ Ran(c) =>
       /\ sent[c] # Nothing /\ sent[c].route = "authorized-run"
       /\ Approves(sent[c].policy, sent[c].plan)
  /\ answer[c] = "none" \/ Queued(c) \/ Beginning(c) => ~Ran(c)
  /\ \A r, s \in RunIds : InName(r, c) /\ InName(s, c) => r = s
  /\ \A r \in RunIds : InName(r, c) => runs[r].ledger /\ runs[r].plan = sent[c].plan

\* The answer is true of the run.
AnswerOK(c) ==
  /\ answer[c] \in {"violations", "no_authority", "not_canonical", "400"} => ~Ran(c)
  /\ answer[c] = "0" => \E r \in RunIds : InName(r, c) /\ exit[r] = "0"
  /\ answer[c] = "1" => Ran(c)

ServerInv ==
  /\ ServerTypeOK /\ QueueOK /\ CarrierOK
  /\ \A c \in AuthIds : SubmissionOK(c) /\ AnswerOK(c)

\* What a step of a process does to the other processes, its own request and
\* the rows of the runs.
LEMMA StepMoves ==
  ASSUME TypeOK, NEW e \in Executors, Step(e)
  PROVE  /\ pc'[e] # "begin" /\ pc[e] # "idle"
         /\ \A f \in Executors : f # e => pc'[f] = pc[f] /\ req'[f] = req[f]
         /\ pc'[e] # "idle" =>
              req'[e].plan = req[e].plan /\ req'[e].auth = req[e].auth
         /\ pc[e] # "begin" =>
              runs' = runs /\ (pc'[e] # "idle" => req'[e].run = req[e].run)
         /\ pc[e] = "begin" => BeginRefused(e) \/ \E r \in RunIds : Begin(e, r)
<1> pc \in [Executors -> PC] /\ req \in [Executors -> Request \cup {NoRequest}]
  BY DEF TypeOK
<1>1. CASE \E r \in RunIds : Begin(e, r)
  <2>1. PICK r \in RunIds : Begin(e, r)
    BY <1>1
  <2>2. req'[e] = [req[e] EXCEPT !.run = r] /\ pc' = [pc EXCEPT ![e] = "bind"]
    BY <2>1 DEF Begin
  <2>3. req'[e].plan = req[e].plan /\ req'[e].auth = req[e].auth
    <3>1. CASE req[e] \in Request
      BY <2>2, <3>1 DEF Request
    <3> QED
      BY <2>1, <2>2, <3>1, SMTT(30) DEF Begin, Request
  <2> QED
    BY <2>1, <2>2, <2>3 DEF Begin
<1>2. CASE BeginRefused(e) \/ BindRefused(e) \/ DispatchRefused(e)
  BY <1>2 DEF BeginRefused, BindRefused, DispatchRefused, AtTool, Return, ledgerVars
<1>3. CASE Bind(e) \/ Reuse(e) \/ Dispatch(e) \/ Retry(e) \/ Halt(e)
  BY <1>3 DEF Bind, Reuse, Dispatch, Retry, Halt, AtTool, DispatchEffect, SaveRetry, ledgerVars
<1>4. CASE CallReturned(e) \/ CallFailed(e)
  BY <1>4 DEF CallReturned, CallFailed, EnterTool, ledgerVars
<1>5. CASE Observe(e)
  BY <1>5 DEF Observe, ObserveEffect
<1>6. CASE Finish(e)
  BY <1>6 DEF Finish, FinishRun, Return
<1> QED
  BY <1>1, <1>2, <1>3, <1>4, <1>5, <1>6 DEF Step

\* A run that ended well is not turned into a failure, whoever finishes it again.
LEMMA ExitStays ==
  ASSUME IInv, NEW e \in Executors, Step(e), NEW r \in RunIds, HasLedger(r),
         exit[r] = "0"
  PROVE  exit'[r] = "0"
<1> exit \in [RunIds -> ExitCodes] /\ AllSucceeded(r)
  BY DEF IInv, TypeOK, LedgerTypeOK, ExitTellsOutcome
<1>1. CASE Finish(e)
  <2>1. CASE req[e].run = r /\ outcome[e] # "ok"
    <3>1. cur[e] \in StepIdx /\ effects[r][cur[e]] = "FAILED_UNKNOWN"
      BY <1>1, <2>1 DEF IInv, ProcessesOK, StatusOK, Finish
    <3>2. cur[e] \in StepsOf(runs[r].plan)
      BY <3>1 DEF IInv, LedgerShape
    <3> QED
      BY <3>1, <3>2 DEF AllSucceeded
  <2> QED
    BY <1>1, <2>1 DEF Finish, FinishRun
<1>2. CASE ~Finish(e)
  BY <1>2 DEF Step, Begin, BeginRun, BeginRefused, Bind, BindRefused, Reuse, Dispatch,
    DispatchEffect, DispatchRefused, CallReturned, CallFailed, EnterTool, Retry, SaveRetry,
    Observe, ObserveEffect, Halt, ledgerVars
<1> QED
  BY <1>1, <1>2

\* A caller to which nothing happens, or whose answer is lost, keeps what is
\* known of it while its runs stay.
LEMMA CallerKeeps ==
  ASSUME NEW c \in AuthIds, SubmissionOK(c), AnswerOK(c),
         sent'[c] = sent[c], answer'[c] \in {answer[c], "lost"},
         Queued(c)' => Queued(c),
         serving' = c => serving = c \/ Queued(c),
         Beginning(c)' => Beginning(c) \/ Queued(c),
         \A r \in RunIds :
           /\ InName(r, c)' <=> InName(r, c)
           /\ InName(r, c) => runs'[r] = runs[r] /\ (exit[r] = "0" => exit'[r] = "0")
  PROVE  SubmissionOK(c)' /\ AnswerOK(c)'
<1>1. Ran(c)' <=> Ran(c)
  BY DEF Ran
<1>2. SubmissionOK(c)'
  <2>1. (Queued(c) \/ serving = c \/ Ran(c) =>
           /\ sent[c] # Nothing /\ sent[c].route = "authorized-run"
           /\ Approves(sent[c].policy, sent[c].plan))'
    BY <1>1 DEF SubmissionOK, Approves
  <2>2. (answer[c] = "none" \/ Queued(c) \/ Beginning(c) => ~Ran(c))'
    BY <1>1 DEF SubmissionOK
  <2>3. (\A r, s \in RunIds : InName(r, c) /\ InName(s, c) => r = s)'
    BY DEF SubmissionOK
  <2>4. (\A r \in RunIds : InName(r, c) => runs[r].ledger /\ runs[r].plan = sent[c].plan)'
    BY DEF SubmissionOK
  <2> QED
    BY <2>1, <2>2, <2>3, <2>4 DEF SubmissionOK
<1>3. AnswerOK(c)'
  <2>1. (answer[c] \in {"violations", "no_authority", "not_canonical", "400"} => ~Ran(c))'
    BY <1>1 DEF AnswerOK
  <2>2. (answer[c] = "0" => \E r \in RunIds : InName(r, c) /\ exit[r] = "0")'
    BY DEF AnswerOK
  <2>3. (answer[c] = "1" => Ran(c))'
    BY <1>1 DEF AnswerOK
  <2> QED
    BY <2>1, <2>2, <2>3 DEF AnswerOK
<1> QED
  BY <1>2, <1>3

\* The queue only shrinks, and who is served was at its head.
LEMMA QueueKeeps ==
  ASSUME QueueOK, backlog \in Seq(Callers),
         \/ backlog' = backlog
         \/ backlog' = <<>>
         \/ backlog # <<>> /\ backlog' = Tail(backlog),
         \A c \in Callers : serving' = c =>
           \/ serving = c
           \/ backlog # <<>> /\ c = Head(backlog) /\ backlog' = Tail(backlog),
         \A c \in Callers :
           \/ answer'[c] \in {answer[c], "lost"}
           \/ ~Queued(c)' /\ serving' # c
  PROVE  QueueOK' /\ \A c \in Callers : Queued(c)' => Queued(c)
<1>1. CASE backlog' = backlog \/ backlog' = <<>>
  BY <1>1 DEF QueueOK, Queued
<1>2. CASE backlog # <<>> /\ backlog' = Tail(backlog)
  <2>1. /\ \A i \in DOMAIN backlog' : i + 1 \in DOMAIN backlog /\ backlog'[i] = backlog[i + 1]
        /\ DOMAIN backlog' \subseteq Nat \ {0}
        /\ 1 \in DOMAIN backlog /\ Head(backlog) = backlog[1]
    BY <1>2
  <2>2. \A c \in Callers : Queued(c)' => Queued(c)
    BY <2>1 DEF Queued
  <2>3. ASSUME NEW c \in Callers, c = Head(backlog)
        PROVE  ~Queued(c)'
    <3> SUFFICES ASSUME NEW i \in DOMAIN backlog', backlog'[i] = c
                 PROVE  FALSE
      BY DEF Queued
    <3>1. i + 1 = 1 /\ i \in Nat \ {0}
      BY <2>1, <2>3 DEF QueueOK
    <3> QED
      BY <3>1
  <2>4. \A i, j \in DOMAIN backlog' : backlog'[i] = backlog'[j] => i = j
    <3> SUFFICES ASSUME NEW i \in DOMAIN backlog', NEW j \in DOMAIN backlog',
                        backlog'[i] = backlog'[j]
                 PROVE  i = j
      OBVIOUS
    <3>1. i + 1 = j + 1
      BY <2>1 DEF QueueOK
    <3>2. i \in Nat /\ j \in Nat
      BY <2>1
    <3> QED
      BY <3>1, <3>2
  <2>5. ASSUME NEW c \in Callers
        PROVE  /\ serving' = c => ~Queued(c)'
               /\ answer'[c] \notin {"waiting", "lost"} => ~Queued(c)' /\ serving' # c
    <3>1. serving' = c => ~Queued(c)'
      BY <2>2, <2>3 DEF QueueOK
    <3>2. answer'[c] = answer[c] /\ answer[c] \notin {"waiting", "lost"} =>
            ~Queued(c)' /\ serving' # c
      <4>1. c = Head(backlog) => Queued(c)
        BY <2>1 DEF Queued
      <4> QED
        BY <4>1, <1>2, <2>2 DEF QueueOK
    <3> QED
      BY <3>1, <3>2
  <2> QED
    BY <2>2, <2>4, <2>5 DEF QueueOK
<1> QED
  BY <1>1, <1>2

\* What a request that is taken leaves behind.
LEMMA Taken ==
  ASSUME QueueOK, backlog \in Seq(Callers), NEW c \in Callers, NEW route, Take(c, route)
  PROVE  /\ Queued(c) /\ ~Queued(c)' /\ serving # c
         /\ \A d \in Callers : Queued(d)' => Queued(d)
<1>1. /\ \A i \in DOMAIN backlog' : i + 1 \in DOMAIN backlog /\ backlog'[i] = backlog[i + 1]
      /\ DOMAIN backlog' \subseteq Nat \ {0}
      /\ 1 \in DOMAIN backlog /\ c = backlog[1]
  BY DEF Take
<1>2. Queued(c) /\ serving # c
  BY <1>1 DEF Queued, QueueOK
<1>3. ~Queued(c)'
  <2> SUFFICES ASSUME NEW i \in DOMAIN backlog', backlog'[i] = c
               PROVE  FALSE
    BY DEF Queued
  <2>1. i + 1 = 1 /\ i \in Nat \ {0}
    BY <1>1 DEF QueueOK
  <2> QED
    BY <2>1
<1>4. \A d \in Callers : Queued(d)' => Queued(d)
  BY <1>1 DEF Queued
<1> QED
  BY <1>2, <1>3, <1>4

\* What c sends is queued, or its answer is lost at once; for the others
\* nothing changes.
LEMMA SendKeeps ==
  ASSUME ServerInv, WireOK, NEW c \in Callers, NEW message \in Message, Send(c, message),
         c \in AuthIds => /\ message.route = "authorized-run"
                         /\ Approves(message.policy, message.plan)
  PROVE  ServerInv'
<1> USE DEF Send
<1>1. backlog \in Seq(Callers) /\ answer \in [Callers -> Answers]
      /\ sent \in [Callers -> {Nothing} \cup Message]
  BY DEF ServerInv, ServerTypeOK
<1>2. ServerTypeOK'
  <2>1. backlog' \in Seq(Callers)
    BY <1>1
  <2>2. sent' \in [Callers -> {Nothing} \cup Message]
    <3> DEFINE Sent == {Nothing} \cup Message
    <3>1. sent \in [Callers -> Sent] /\ message \in Sent /\ sent' = [sent EXCEPT ![c] = message]
      BY <1>1
    <3> HIDE DEF Sent
    <3>2. sent' \in [Callers -> Sent]
      BY <3>1
    <3> QED
      BY <3>2 DEF Sent
  <2>3. answer' \in [Callers -> Answers]
    BY <1>1 DEF Answers
  <2>4. known' = known /\ serving' = serving
    OBVIOUS
  <2> QED
    BY <2>1, <2>2, <2>3, <2>4 DEF ServerInv, ServerTypeOK
<1>3. ~Queued(c) /\ serving # c
  BY DEF ServerInv, QueueOK
<1>4. ASSUME NEW d \in Callers
      PROVE  Queued(d)' => Queued(d) \/ (d = c /\ answer'[c] = "waiting")
  <2>1. CASE backlog' = backlog
    BY <2>1 DEF Queued
  <2>2. CASE backlog' = Append(backlog, c) /\ answer' = [answer EXCEPT ![c] = "waiting"]
    <3>1. \A i \in DOMAIN backlog' :
            (i \in DOMAIN backlog /\ backlog'[i] = backlog[i]) \/ backlog'[i] = c
      BY <1>1, <2>2
    <3> QED
      BY <1>1, <2>2, <3>1 DEF Queued
  <2> QED
    BY <2>1, <2>2
<1>5. QueueOK'
  <2>1. \A i, j \in DOMAIN backlog' : backlog'[i] = backlog'[j] => i = j
    <3>1. CASE backlog' = backlog
      BY <3>1 DEF ServerInv, QueueOK
    <3>2. CASE backlog' = Append(backlog, c)
      <4>1. \A i \in DOMAIN backlog : backlog[i] # c
        BY <1>3 DEF Queued
      <4>2. \A i \in DOMAIN backlog' :
              \/ i \in DOMAIN backlog /\ backlog'[i] = backlog[i]
              \/ i = Len(backlog) + 1 /\ backlog'[i] = c
        BY <1>1, <3>2
      <4> QED
        BY <4>1, <4>2 DEF ServerInv, QueueOK
    <3> QED
      BY <3>1, <3>2
  <2>2. ASSUME NEW d \in Callers
        PROVE  /\ serving' = d => ~Queued(d)'
               /\ answer'[d] \notin {"waiting", "lost"} => ~Queued(d)' /\ serving' # d
    <3>1. serving' = serving
      OBVIOUS
    <3>2. CASE d = c
      BY <1>1, <1>3, <3>1, <3>2
    <3>3. CASE d # c
      <4>1. answer'[d] = answer[d] /\ (Queued(d)' => Queued(d))
        BY <1>1, <1>4, <3>3
      <4> QED
        BY <3>1, <4>1 DEF ServerInv, QueueOK
    <3> QED
      BY <3>2, <3>3
  <2> QED
    BY <2>1, <2>2 DEF QueueOK
<1>6. CarrierOK'
  <2>1. \A d \in Callers : d # c => sent'[d] = sent[d]
    BY <1>1
  <2>2. serving \in AuthIds => Authorization(serving)' = Authorization(serving)
    BY <1>3, <2>1 DEF Authorization, Callers
  <2> QED
    BY <1>3, <2>1, <2>2 DEF ServerInv, CarrierOK, InName, vars, ledgerVars, procVars, Callers
<1>7. ASSUME NEW d \in AuthIds
      PROVE  SubmissionOK(d)' /\ AnswerOK(d)'
  <2>1. d \in Callers /\ SubmissionOK(d) /\ AnswerOK(d)
    BY DEF ServerInv, Callers
  <2>2. CASE d # c
    <3>1. sent'[d] = sent[d] /\ answer'[d] = answer[d] /\ (Queued(d)' => Queued(d))
      BY <1>1, <1>4, <2>1, <2>2
    <3>2. \A r \in RunIds : InName(r, d)' <=> InName(r, d)
      BY DEF InName, vars, ledgerVars
    <3> QED
      BY <2>1, <3>1, <3>2, CallerKeeps DEF Beginning, vars, ledgerVars, procVars
  <2>3. CASE d = c
    <3>1. /\ sent'[c] = message /\ message # Nothing /\ answer'[c] \in {"waiting", "lost"}
      BY <1>1, MessageAssumption
    <3>2. ~Ran(c) /\ ~Beginning(c)' /\ serving' # c
      BY <1>3, <2>1, <2>3 DEF SubmissionOK, Beginning
    <3>3. \A r \in RunIds : ~InName(r, c)'
      BY <3>2 DEF Ran, InName, vars, ledgerVars
    <3>4. SubmissionOK(c)'
      BY <2>3, <3>1, <3>2, <3>3 DEF SubmissionOK, Ran, Approves
    <3>5. AnswerOK(c)'
      BY <3>1, <3>3 DEF AnswerOK, Ran
    <3> QED
      BY <2>3, <3>4, <3>5
  <2> QED
    BY <2>2, <2>3
<1> QED
  BY <1>2, <1>5, <1>6, <1>7 DEF ServerInv

\* ASON refuses; a caller gives up; a server starts.
LEMMA CallersKeep ==
  ASSUME ServerInv, WireOK,
         \/ \E c \in AuthIds, why \in {"violations", "no_authority", "not_canonical"} :
              AsonRefuses(c, why)
         \/ \E c \in Callers : GiveUp(c)
         \/ ServerStarts
  PROVE  ServerInv'
<1>1. backlog \in Seq(Callers) /\ answer \in [Callers -> Answers] /\ QueueOK
  BY DEF ServerInv, ServerTypeOK
<1>2. /\ UNCHANGED <<vars, backlog, serving, sent>>
      /\ known' \in {Down} \cup Registries
      /\ answer' \in [Callers -> Answers]
      /\ \A c \in Callers :
           \/ answer'[c] \in {answer[c], "lost"}
           \/ /\ answer[c] = "none"
              /\ answer'[c] \in {"violations", "no_authority", "not_canonical"}
  <2>1. CASE \E c \in AuthIds, why \in {"violations", "no_authority", "not_canonical"} :
               AsonRefuses(c, why)
    BY <1>1, <2>1 DEF AsonRefuses, WireOK, Answers, Callers
  <2>2. CASE \E c \in Callers : GiveUp(c)
    BY <1>1, <2>2 DEF GiveUp, WireOK, Answers
  <2>3. CASE ServerStarts
    BY <1>1, <2>3 DEF ServerStarts
  <2> QED
    BY <2>1, <2>2, <2>3
<1>3. ServerTypeOK'
  BY <1>2 DEF ServerInv, ServerTypeOK
<1>4. \A c \in Callers : Queued(c)' <=> Queued(c)
  BY <1>2 DEF Queued
<1>5. QueueOK'
  BY <1>1, <1>2, <1>4 DEF QueueOK
<1>6. CarrierOK'
  BY <1>2 DEF ServerInv, CarrierOK, InName, Authorization, vars, ledgerVars, procVars
<1>7. ASSUME NEW c \in AuthIds
      PROVE  SubmissionOK(c)' /\ AnswerOK(c)'
  <2>1. /\ c \in Callers /\ SubmissionOK(c) /\ AnswerOK(c)
        /\ \A r \in RunIds : InName(r, c)' <=> InName(r, c)
        /\ runs' = runs /\ exit' = exit /\ sent' = sent
        /\ (Beginning(c)' <=> Beginning(c)) /\ (Queued(c)' <=> Queued(c))
        /\ (Ran(c)' <=> Ran(c)) /\ serving' = serving
    BY <1>2, <1>4 DEF ServerInv, Callers, InName, Ran, Beginning, vars, ledgerVars, procVars
  <2>2. CASE answer'[c] \in {answer[c], "lost"}
    BY <2>1, <2>2, CallerKeeps
  <2>3. CASE answer[c] = "none" /\ answer'[c] \in {"violations", "no_authority", "not_canonical"}
    <3>1. SubmissionOK(c)'
      BY <2>1, <2>3 DEF SubmissionOK, Approves
    <3>2. ~Ran(c)'
      BY <2>1, <2>3 DEF SubmissionOK
    <3> QED
      BY <2>3, <3>1, <3>2 DEF AnswerOK
  <2> QED
    BY <1>2, <2>1, <2>2, <2>3
<1> QED
  BY <1>3, <1>5, <1>6, <1>7 DEF ServerInv

\* A request that is taken and answered at once; rows of others may appear.
LEMMA AnsweredKeeps ==
  ASSUME ServerInv, WireOK, NEW c \in Callers, NEW route, Take(c, route),
         NEW result \in {"400", "0", "1"}, Reply(c, result), serving' = serving,
         UNCHANGED procVars,
         \A d \in AuthIds, r \in RunIds :
           /\ InName(r, d)' <=> InName(r, d)
           /\ InName(r, d) => runs'[r] = runs[r] /\ exit'[r] = exit[r],
         c \in AuthIds => result = "400"
  PROVE  ServerInv'
<1>1. backlog \in Seq(Callers) /\ answer \in [Callers -> Answers] /\ QueueOK
      /\ backlog # <<>> /\ c = Head(backlog) /\ backlog' = Tail(backlog)
      /\ sent' = sent /\ known' = known
  BY DEF ServerInv, ServerTypeOK, Take
<1>2. /\ answer' \in [Callers -> Answers]
      /\ \A d \in Callers : d # c => answer'[d] = answer[d]
      /\ answer'[c] \in {answer[c], result}
      /\ answer[c] # "none"
  <2>1. Queued(c)
    BY <1>1, Taken
  <2> QED
    BY <1>1, <2>1 DEF Reply, Answers, QueueOK
<1>3. /\ Queued(c) /\ ~Queued(c)' /\ serving # c
      /\ \A d \in Callers : Queued(d)' => Queued(d)
  BY <1>1, Taken
<1>4. QueueOK'
  BY <1>1, <1>2, <1>3, QueueKeeps
<1>5. ServerTypeOK'
  <2>1. backlog' \in Seq(Callers)
    BY <1>1
  <2> QED
    BY <1>1, <1>2, <2>1 DEF ServerInv, ServerTypeOK
<1>6. CarrierOK'
  <2>1. serving = NoCaller /\ serving \notin Callers /\ serving \notin AuthIds
    BY ServerAssumption DEF Take, Callers
  <2> QED
    BY <1>1, <2>1 DEF ServerInv, CarrierOK, procVars
<1>7. ASSUME NEW d \in AuthIds
      PROVE  SubmissionOK(d)' /\ AnswerOK(d)'
  <2>1. /\ d \in Callers /\ SubmissionOK(d) /\ AnswerOK(d)
        /\ (Beginning(d)' <=> Beginning(d)) /\ (Queued(d)' => Queued(d))
        /\ (Ran(d)' <=> Ran(d))
    BY <1>3 DEF ServerInv, Callers, Ran, Beginning, procVars
  <2>2. CASE answer'[d] = answer[d]
    BY <1>1, <2>1, <2>2, CallerKeeps
  <2>3. CASE answer'[d] # answer[d]
    <3>1. d = c /\ answer'[c] = "400" /\ ~Ran(c) /\ ~Ran(c)'
      BY <1>2, <1>3, <2>1, <2>3 DEF SubmissionOK
    <3>2. SubmissionOK(c)'
      <4>1. \A r \in RunIds : ~InName(r, c)'
        BY <3>1 DEF Ran
      <4> QED
        BY <1>1, <1>3, <3>1, <4>1 DEF SubmissionOK, Ran
    <3>3. AnswerOK(c)'
      BY <3>1 DEF AnswerOK
    <3> QED
      BY <3>1, <3>2, <3>3
  <2> QED
    BY <2>2, <2>3
<1> QED
  BY <1>4, <1>5, <1>6, <1>7 DEF ServerInv

\* A request the server begins to execute.
LEMMA AcceptedKeeps ==
  ASSUME ServerInv, WireOK, TypeOK, NEW c \in Callers, NEW route, Take(c, route),
         serving' = c, answer' = answer,
         NEW at \in {"begin", "bind"}, NEW run, NEW plan, NEW registry, NEW auth, NEW noWrite,
         Accept(Server, at, run, plan, registry, auth, noWrite),
         IF c \in AuthIds
         THEN at = "begin" /\ plan = sent[c].plan /\ auth = Authorization(c)
         ELSE auth = NoAuth
  PROVE  ServerInv'
<1>0. Server \in Executors /\ pc \in [Executors -> PC]
      /\ req \in [Executors -> Request \cup {NoRequest}] /\ NoCaller \notin Callers
  BY ServerAssumption DEF TypeOK
<1>1. backlog \in Seq(Callers) /\ QueueOK
      /\ backlog # <<>> /\ c = Head(backlog) /\ backlog' = Tail(backlog)
      /\ sent' = sent /\ known' = known
  BY DEF ServerInv, ServerTypeOK, Take
<1>2. /\ pc'[Server] = at /\ req'[Server].auth = auth /\ req'[Server].plan = plan
      /\ \A e \in Executors : e # Server => pc'[e] = pc[e]
      /\ runs' = runs /\ exit' = exit
  BY <1>0 DEF Accept, ledgerVars
<1>3. /\ Queued(c) /\ ~Queued(c)' /\ serving # c
      /\ \A d \in Callers : Queued(d)' => Queued(d)
  BY <1>1, Taken
<1>4. QueueOK'
  BY <1>1, QueueKeeps
<1>5. ServerTypeOK'
  <2>1. backlog' \in Seq(Callers)
    BY <1>1
  <2> QED
    BY <1>1, <2>1 DEF ServerInv, ServerTypeOK
<1>6. CarrierOK'
  BY <1>0, <1>1, <1>2 DEF ServerInv, CarrierOK, Authorization
<1>7. ASSUME NEW d \in AuthIds
      PROVE  SubmissionOK(d)' /\ AnswerOK(d)'
  <2>1. /\ d \in Callers /\ SubmissionOK(d) /\ AnswerOK(d)
        /\ \A r \in RunIds : InName(r, d)' <=> InName(r, d)
    BY <1>2 DEF ServerInv, Callers, InName
  <2>2. (serving' = d => Queued(d)) /\ (Beginning(d)' => Queued(d)) /\ (Queued(d)' => Queued(d))
    BY <1>3, <2>1 DEF Beginning
  <2> QED
    BY <1>1, <1>2, <2>1, <2>2, CallerKeeps
<1> QED
  BY <1>4, <1>5, <1>6, <1>7 DEF ServerInv

\* What is sent for an authorization id is what ASON approved.
LEMMA ApprovedSends ==
  ASSUME NEW q \in AsonRequests, Validates(q)
  PROVE  /\ [route |-> "authorized-run", plan |-> q.plan, policy |-> q.policy,
             run |-> NoRun] \in Message
         /\ Approves(q.policy, q.plan)
<1>1. q \in AsonRequest
  BY AsonAssumption
<1>2. q.plan \in Seq(ToolCall) /\ q.policy \in Policy
  BY <1>1 DEF AsonRequest
<1>3. ASSUME NEW i \in StepsOf(q.plan)
      PROVE  /\ \/ Class[q.plan[i].tool] = "reads"
                \/ Class[q.plan[i].tool] = "writes" /\ q.policy.radius # "none"
                \/ Class[q.plan[i].tool] = "network" /\ q.policy.radius = "network"
             /\ q.policy.allowed = {} \/ q.plan[i].tool \in q.policy.allowed
  <2>1. Permits(q.policy, q.plan[i].tool)
    BY <1>3 DEF Validates
  <2>2. q.plan[i].tool \in Tools
    <3>1. q.plan[i] \in ToolCall
      BY <1>2, <1>3 DEF StepsOf
    <3> QED
      BY <3>1 DEF ToolCall
  <2>3. Class[q.plan[i].tool] \in {"reads", "writes", "network"}
    BY <2>1, <2>2, ServerAssumption DEF Permits
  <2>4. q.policy.radius \in {"none", "local", "network"}
    BY <1>2 DEF Policy, Radii
  <2>5. Class[q.plan[i].tool] \notin BlockedBy(q.policy.radius)
    BY <2>1 DEF Permits
  <2>6. /\ q.policy.radius = "none" => BlockedBy(q.policy.radius) = {"writes", "network"}
        /\ q.policy.radius = "local" => BlockedBy(q.policy.radius) = {"network"}
    BY <2>4 DEF BlockedBy
  <2>7. q.policy.allowed = {} \/ q.plan[i].tool \in q.policy.allowed
    BY <2>1 DEF Permits
  <2> QED
    BY <2>3, <2>4, <2>5, <2>6, <2>7
<1>4. Approves(q.policy, q.plan)
  BY <1>3 DEF Approves, Validates
<1> QED
  BY <1>2, <1>4 DEF Message, Routes

LEMMA AsonKeeps ==
  ASSUME ServerInv, WireOK, NEW c \in AuthIds, NEW q \in AsonRequests,
         NEW authority \in BOOLEAN, AsonSubmit(c, q, authority)
  PROVE  ServerInv'
<1>1. CASE \E why \in {"violations", "no_authority", "not_canonical"} : AsonRefuses(c, why)
  BY <1>1, CallersKeep
<1>2. CASE /\ Validates(q)
           /\ Send(c, [route |-> "authorized-run", plan |-> q.plan, policy |-> q.policy,
                       run |-> NoRun])
  <2>1. c \in Callers
    BY DEF Callers
  <2> QED
    BY <1>2, <2>1, ApprovedSends, SendKeeps
<1> QED
  BY <1>1, <1>2 DEF AsonSubmit

LEMMA CallAsks ==
  ASSUME ServerInv, WireOK, NEW c \in Clients, Call(c)
  PROVE  ServerInv'
<1>1. c \in Callers /\ c \notin AuthIds
  BY ServerAssumption DEF Callers
<1>2. ASSUME NEW route \in {"run", "replay", "task", "read"}, NEW plan \in Plans \cup {NoPlan},
             NEW run \in RunIds \cup {NoRun}, Ask(c, route, plan, run)
      PROVE  ServerInv'
  <2>1. [route |-> route, plan |-> plan, policy |-> Nothing, run |-> run] \in Message
    BY PlansAssumption DEF Message, Routes
  <2> QED
    BY <1>1, <1>2, <2>1, SendKeeps DEF Ask
<1>3. CASE \E plan \in Plans : Ask(c, "run", plan, NoRun)
  BY <1>2, <1>3
<1>4. CASE \E r \in RunIds : Ask(c, "replay", NoPlan, r)
  BY <1>2, <1>4
<1>5. CASE \E route \in {"task", "read"} : Ask(c, route, NoPlan, NoRun)
  BY <1>2, <1>5
<1> QED
  BY <1>3, <1>4, <1>5 DEF Call

\* The server takes a request.
LEMMA ServeKeeps ==
  ASSUME ServerInv, WireOK, TypeOK, NEW c \in Callers,
         ServeAuthorized(c) \/ ServePlan(c) \/ ServeTask(c) \/ ServeReplay(c) \/ ServeRead(c)
  PROVE  ServerInv'
<1>1. PICK route \in Routes : Take(c, route) /\ sent[c].route = route
  BY DEF ServeAuthorized, ServePlan, ServeTask, ServeReplay, ServeRead, Take, Routes
<1>2. /\ c \in AuthIds => sent[c].route = "authorized-run"
      /\ serving = NoCaller /\ known \in Registries
  <2>1. Queued(c)
    BY <1>1, Taken DEF ServerInv, ServerTypeOK
  <2> QED
    BY <1>1, <2>1 DEF ServerInv, SubmissionOK, Take, WireOK, Up
<1>3. ASSUME NEW result \in {"400", "0", "1"}, Reply(c, result), UNCHANGED <<vars, serving>>,
             c \in AuthIds => result = "400"
      PROVE  ServerInv'
  <2>1. \A d \in AuthIds, r \in RunIds :
          /\ InName(r, d)' <=> InName(r, d)
          /\ InName(r, d) => runs'[r] = runs[r] /\ exit'[r] = exit[r]
    BY <1>3 DEF InName, vars, ledgerVars
  <2> QED
    BY <1>1, <1>3, <2>1, AnsweredKeeps DEF vars
<1>4. CASE ServeAuthorized(c)
  <2>0. c \in AuthIds
    <3>1. 1 \in DOMAIN backlog /\ c = backlog[1]
      BY <1>1 DEF Take, WireOK
    <3>2. MessageOK(c)
      BY <3>1 DEF WireOK
    <3> QED
      BY <1>4, <3>2 DEF MessageOK, ServeAuthorized, Take
  <2>1. CASE Parses(sent[c].plan, known) /\ ValidAuthorization(Authorization(c), sent[c].plan)
    BY <1>1, <1>4, <2>0, <2>1, AcceptedKeeps DEF ServeAuthorized, Submit
  <2>2. CASE ~(Parses(sent[c].plan, known) /\ ValidAuthorization(Authorization(c), sent[c].plan))
    BY <1>3, <1>4, <2>2 DEF ServeAuthorized, AnswerAtOnce
  <2> QED
    BY <2>1, <2>2
<1>5. CASE ServePlan(c)
  <2>1. c \notin AuthIds
    BY <1>2, <1>5 DEF ServePlan, Take
  <2> QED
    BY <1>1, <1>3, <1>5, <2>1, AcceptedKeeps DEF ServePlan, AnswerAtOnce, Submit
<1>6. CASE ServeTask(c)
  <2>1. c \notin AuthIds
    BY <1>2, <1>6 DEF ServeTask, Take
  <2>2. ASSUME NEW r \in RunIds, RecordOnly(r, NoPlan, "1"), Reply(c, "1"), UNCHANGED serving
        PROVE  ServerInv'
    <3>1. /\ runs[r] = NoRow /\ runs'[r].auth = NoAuth
          /\ \A s \in RunIds : s # r => runs'[s] = runs[s] /\ exit'[s] = exit[s]
      BY <2>2 DEF RecordOnly, RecordRun, TypeOK, LedgerTypeOK
    <3>2. \A d \in AuthIds, s \in RunIds :
            /\ InName(s, d)' <=> InName(s, d)
            /\ InName(s, d) => runs'[s] = runs[s] /\ exit'[s] = exit[s]
      BY <3>1 DEF InName
    <3> QED
      BY <1>1, <2>1, <2>2, <3>2, AnsweredKeeps DEF RecordOnly
  <2> QED
    BY <1>1, <1>6, <2>1, <2>2, AcceptedKeeps DEF ServeTask, Submit
<1>7. CASE ServeReplay(c)
  <2>1. c \notin AuthIds
    BY <1>2, <1>7 DEF ServeReplay, Take
  <2>2. ASSUME NEW r, NEW registry, ReplayLive(Server, r, registry, FALSE),
               serving' = c, UNCHANGED answer
        PROVE  ServerInv'
    BY <1>1, <2>1, <2>2, AcceptedKeeps DEF ReplayLive
  <2> QED
    BY <1>3, <1>7, <2>1, <2>2 DEF ServeReplay, AnswerAtOnce
<1>8. CASE ServeRead(c)
  <2>1. c \notin AuthIds
    BY <1>2, <1>8 DEF ServeRead, Take
  <2> QED
    BY <1>3, <1>8, <2>1 DEF ServeRead, AnswerAtOnce
<1> QED
  BY <1>4, <1>5, <1>6, <1>7, <1>8

-----------------------------------------------------------------------------

\* A handler that ends, by its answer, by an exception or with the server.
LEMMA EndedKeeps ==
  ASSUME ServerInv, TypeOK, serving' = NoCaller, UNCHANGED sent,
         known' \in {Down} \cup Registries, backlog' = backlog \/ backlog' = <<>>,
         pc'[Server] = "idle",
         \A e \in Executors : e # Server => pc'[e] = pc[e],
         runs' = runs,
         \A c \in AuthIds, r \in RunIds :
           InName(r, c) /\ exit[r] = "0" => exit'[r] = "0",
         answer' \in [Callers -> Answers],
         \A c \in Callers :
           \/ answer'[c] \in {answer[c], "lost"}
           \/ /\ c = serving
              /\ c \in AuthIds =>
                   \/ answer'[c] = "500"
                   \/ /\ answer'[c] \in {"0", "1"} /\ Ran(c)
                      /\ answer'[c] = "0" => \E r \in RunIds : InName(r, c) /\ exit'[r] = "0"
  PROVE  ServerInv'
<1>0. NoCaller \notin Callers /\ \A c \in AuthIds : c \in Callers
  BY ServerAssumption DEF Callers
<1>1. ServerTypeOK'
  <2>1. <<>> \in Seq(Callers)
    OBVIOUS
  <2> QED
    BY <2>1 DEF ServerInv, ServerTypeOK
<1>2. \A c \in Callers : Queued(c)' => Queued(c)
  BY DEF Queued
<1>3. QueueOK'
  BY <1>0, <1>2 DEF ServerInv, QueueOK
<1>4. CarrierOK'
  BY <1>0 DEF ServerInv, CarrierOK
<1>5. ASSUME NEW c \in AuthIds
      PROVE  SubmissionOK(c)' /\ AnswerOK(c)'
  <2>1. /\ c \in Callers /\ SubmissionOK(c) /\ AnswerOK(c)
        /\ \A r \in RunIds : InName(r, c)' <=> InName(r, c)
        /\ serving' # c /\ ~Beginning(c)' /\ (Queued(c)' => Queued(c))
    BY <1>0, <1>2 DEF ServerInv, InName, Beginning
  <2>2. CASE answer'[c] \in {answer[c], "lost"}
    BY <2>1, <2>2, CallerKeeps
  <2>3. CASE /\ c = serving
             /\ \/ answer'[c] = "500"
                \/ /\ answer'[c] \in {"0", "1"} /\ Ran(c)
                   /\ answer'[c] = "0" => \E r \in RunIds : InName(r, c) /\ exit'[r] = "0"
    <3>1. ~Queued(c)' /\ (Ran(c)' <=> Ran(c)) /\ answer'[c] # "none"
      BY <1>0, <2>1, <2>3 DEF ServerInv, QueueOK, Ran
    <3>2. SubmissionOK(c)'
      BY <2>1, <2>3, <3>1 DEF SubmissionOK, Approves
    <3>3. AnswerOK(c)'
      BY <2>1, <2>3, <3>1 DEF AnswerOK
    <3> QED
      BY <3>2, <3>3
  <2> QED
    BY <1>0, <2>2, <2>3
<1> QED
  BY <1>1, <1>3, <1>4, <1>5 DEF ServerInv

\* The server begins the run of the request it handles.
LEMMA BegunKeeps ==
  ASSUME ServerInv, IInv, NEW r \in RunIds, Begin(Server, r),
         UNCHANGED <<known, backlog, serving, sent, answer>>
  PROVE  ServerInv'
<1>0. /\ NoCaller \notin Callers /\ Server \in Executors /\ \A c \in AuthIds : c \in Callers
      /\ pc \in [Executors -> PC] /\ req \in [Executors -> Request \cup {NoRequest}]
      /\ runs \in [RunIds -> Row \cup {NoRow}] /\ req[Server] \in Request
  BY ServerAssumption DEF IInv, TypeOK, LedgerTypeOK, ReqOK, Begin, Callers
<1>1. /\ runs[r] = NoRow /\ runs'[r].ledger /\ runs'[r].plan = req[Server].plan
      /\ runs'[r].auth = req[Server].auth /\ runs'[r] # NoRow
      /\ \A s \in RunIds : s # r => runs'[s] = runs[s]
      /\ exit' = exit /\ pc[Server] = "begin"
  <2>1. runs'[r] \in Row
    BY <1>0 DEF Begin, BeginRun, Row, Request, ContractDigest, ContractType, RegistryType
  <2> QED
    BY <1>0, <2>1, SentinelAssumption DEF Begin, BeginRun
<1>2. /\ pc'[Server] = "bind" /\ req'[Server].run = r
      /\ req'[Server].plan = req[Server].plan /\ req'[Server].auth = req[Server].auth
      /\ \A e \in Executors : e # Server => pc'[e] = pc[e]
  <2>1. req'[Server] = [req[Server] EXCEPT !.run = r]
    BY <1>0 DEF Begin
  <2>2. pc' = [pc EXCEPT ![Server] = "bind"]
    BY DEF Begin
  <2> QED
    BY <1>0, <2>1, <2>2 DEF Request
<1>3. serving \in Callers
  BY <1>1 DEF ServerInv, CarrierOK, ServerTypeOK
<1>4. \A c \in AuthIds : InName(r, c)' <=> c = serving
  <2>1. CASE serving \in AuthIds
    <3>1. req[Server].auth = Authorization(serving) /\ req[Server].plan = sent[serving].plan
      BY <1>3, <2>1 DEF ServerInv, CarrierOK
    <3>2. req[Server].plan \in Plans
      BY <1>0 DEF Request
    <3>3. Authorization(serving) \in AuthType /\ Authorization(serving).id = serving
      BY <2>1, <3>1, <3>2 DEF Authorization, AuthType
    <3>4. Authorization(serving) # NoAuth
      BY <3>3, SentinelAssumption
    <3> QED
      BY <1>1, <3>1, <3>3, <3>4 DEF InName
  <2>2. CASE serving \notin AuthIds
    BY <1>1, <1>3, <2>2 DEF ServerInv, CarrierOK, InName
  <2> QED
    BY <2>1, <2>2
<1>5. \A c \in AuthIds, s \in RunIds : s # r => (InName(s, c)' <=> InName(s, c))
  BY <1>1 DEF InName
<1>6. \A c \in Callers : Queued(c)' <=> Queued(c)
  BY DEF Queued
<1>7. ServerTypeOK' /\ QueueOK'
  BY <1>6 DEF ServerInv, ServerTypeOK, QueueOK
<1>8. CarrierOK'
  BY <1>0, <1>1, <1>2, <1>3, <1>4 DEF ServerInv, CarrierOK, Authorization
<1>9. ASSUME NEW c \in AuthIds
      PROVE  SubmissionOK(c)' /\ AnswerOK(c)'
  <2>1. /\ c \in Callers /\ SubmissionOK(c) /\ AnswerOK(c) /\ ~InName(r, c)
        /\ ~Beginning(c)' /\ (Queued(c)' <=> Queued(c))
    BY <1>0, <1>1, <1>2, <1>6 DEF ServerInv, InName, Beginning
  <2>2. CASE c # serving
    <3>1. \A s \in RunIds : InName(s, c)' <=> InName(s, c)
      BY <1>4, <1>5, <2>1, <2>2
    <3>2. \A s \in RunIds : InName(s, c) => runs'[s] = runs[s]
      BY <1>1, <2>1
    <3> QED
      BY <1>1, <2>1, <2>2, <3>1, <3>2, CallerKeeps
  <2>3. CASE c = serving
    <3>1. ~Ran(c) /\ ~Queued(c) /\ answer[c] \in {"waiting", "lost"}
      BY <1>0, <1>1, <2>1, <2>3 DEF SubmissionOK, Beginning, ServerInv, QueueOK
    <3>2. \A s \in RunIds : InName(s, c)' <=> s = r
      BY <1>4, <1>5, <2>3, <3>1 DEF Ran
    <3>3. runs'[r].plan = sent[c].plan /\ runs'[r].ledger
      BY <1>1, <2>3 DEF ServerInv, CarrierOK
    <3>4. SubmissionOK(c)'
      BY <2>1, <2>3, <3>1, <3>2, <3>3 DEF SubmissionOK, Approves
    <3>5. AnswerOK(c)'
      BY <3>1 DEF AnswerOK
    <3> QED
      BY <3>4, <3>5
  <2> QED
    BY <2>2, <2>3
<1> QED
  BY <1>7, <1>8, <1>9 DEF ServerInv

\* The server goes on with what it executes, or ends it and answers.
LEMMA HandleKeeps ==
  ASSUME ServerInv, IInv, Handle
  PROVE  ServerInv'
<1>0. /\ NoCaller \notin Callers /\ Server \in Executors /\ \A c \in AuthIds : c \in Callers
      /\ TypeOK /\ Step(Server) /\ serving \in Callers
      /\ UNCHANGED <<known, backlog, sent>>
  BY ServerAssumption DEF IInv, Handle, ServerInv, ServerTypeOK, Callers
<1>1. /\ pc'[Server] # "begin"
      /\ \A e \in Executors : e # Server => pc'[e] = pc[e]
      /\ pc'[Server] # "idle" =>
           req'[Server].plan = req[Server].plan /\ req'[Server].auth = req[Server].auth
      /\ pc[Server] # "begin" =>
           runs' = runs /\ (pc'[Server] # "idle" => req'[Server].run = req[Server].run)
      /\ pc[Server] = "begin" =>
           BeginRefused(Server) \/ \E r \in RunIds : Begin(Server, r)
  BY <1>0, StepMoves
<1>2. \A c \in AuthIds, r \in RunIds : InName(r, c) /\ exit[r] = "0" => exit'[r] = "0"
  <2> SUFFICES ASSUME NEW c \in AuthIds, NEW r \in RunIds, InName(r, c), exit[r] = "0"
               PROVE  exit'[r] = "0"
    OBVIOUS
  <2>1. HasLedger(r)
    BY DEF ServerInv, SubmissionOK, InName, HasLedger
  <2> QED
    BY <1>0, <2>1, ExitStays
<1>3. ASSUME pc[Server] = "begin"
      PROVE  ServerInv'
  <2>1. CASE \E r \in RunIds : Begin(Server, r)
    <3>1. pc'[Server] = "bind"
      BY <1>0, <2>1 DEF Begin, TypeOK
    <3> QED
      BY <1>0, <2>1, <3>1, BegunKeeps DEF Handle
  <2>2. CASE BeginRefused(Server)
    <3>1. serving \notin AuthIds
      BY <1>0, <2>2 DEF BeginRefused, ServerInv, CarrierOK, ValidAuthorization, Authorization
    <3>2. req[Server].auth = NoAuth
      BY <1>0, <3>1 DEF ServerInv, CarrierOK
    <3> QED
      BY <2>2, <3>2 DEF BeginRefused
  <2> QED
    BY <1>1, <1>3, <2>1, <2>2
<1>4. ASSUME pc[Server] # "begin", pc'[Server] # "idle"
      PROVE  ServerInv'
  <2>1. serving' = serving /\ answer' = answer /\ runs' = runs
    BY <1>1, <1>4 DEF Handle
  <2>2. \A c \in Callers : Queued(c)' <=> Queued(c)
    BY <1>0 DEF Queued
  <2>3. ServerTypeOK' /\ QueueOK'
    BY <1>0, <2>1, <2>2 DEF ServerInv, ServerTypeOK, QueueOK
  <2>4. CarrierOK'
    <3>1. req'[Server].run = req[Server].run
      BY <1>1, <1>4
    <3>2. serving \in AuthIds => InName(req[Server].run, serving)'
      BY <1>4, <2>1, <3>1 DEF ServerInv, CarrierOK, InName
    <3>3. pc[Server] # "idle"
      BY <1>0 DEF ServerInv, CarrierOK
    <3> QED
      BY <1>0, <1>1, <1>4, <2>1, <3>2, <3>3 DEF ServerInv, CarrierOK, Authorization
  <2>5. ASSUME NEW c \in AuthIds
        PROVE  SubmissionOK(c)' /\ AnswerOK(c)'
    <3>1. /\ SubmissionOK(c) /\ AnswerOK(c) /\ (Queued(c)' <=> Queued(c)) /\ ~Beginning(c)'
          /\ \A r \in RunIds : InName(r, c)' <=> InName(r, c)
      BY <1>0, <1>1, <2>1, <2>2 DEF ServerInv, InName, Beginning
    <3> QED
      BY <1>0, <1>2, <2>1, <3>1, CallerKeeps
  <2> QED
    BY <2>3, <2>4, <2>5 DEF ServerInv
<1>5. ASSUME pc[Server] # "begin", pc'[Server] = "idle"
      PROVE  ServerInv'
  <2>1. serving' = NoCaller /\ Reply(serving, ExitCode) /\ runs' = runs
    BY <1>1, <1>5 DEF Handle
  <2>2. /\ answer' \in [Callers -> Answers]
        /\ \A c \in Callers : c # serving => answer'[c] = answer[c]
        /\ answer'[serving] \in {answer[serving], ExitCode}
    BY <1>0, <2>1 DEF Reply, ServerInv, ServerTypeOK, Answers, ExitCode
  <2>3. ExitCode \in {"0", "1"}
    BY DEF ExitCode
  <2>4. ASSUME serving \in AuthIds
        PROVE  /\ Ran(serving)
               /\ ExitCode = "0" => \E r \in RunIds : InName(r, serving) /\ exit'[r] = "0"
    <3>1. InName(req[Server].run, serving) /\ pc[Server] # "idle"
      BY <1>0, <1>5, <2>4 DEF ServerInv, CarrierOK
    <3>2. req[Server].run \in RunIds
      BY <1>0, <1>5, <3>1 DEF IInv, ReqOK
    <3>3. ASSUME ExitCode = "0"
          PROVE  exit'[req[Server].run] = "0"
      <4>1. pc[Server] = "finish" /\ outcome[Server] = "ok"
        BY <3>3 DEF ExitCode
      <4>2. Finish(Server)
        BY <1>0, <4>1 DEF Step, Begin, BeginRefused, Bind, BindRefused, Reuse, Dispatch,
          DispatchRefused, AtTool, CallReturned, CallFailed, EnterTool, Retry, Observe, Halt
      <4>3. exit' = [exit EXCEPT ![req[Server].run] = "0"]
        BY <4>1, <4>2 DEF Finish, FinishRun
      <4> QED
        BY <1>0, <3>2, <4>3 DEF TypeOK, LedgerTypeOK
    <3> QED
      BY <3>1, <3>2, <3>3 DEF Ran
  <2>5. \A c \in Callers :
           \/ answer'[c] \in {answer[c], "lost"}
           \/ /\ c = serving
              /\ c \in AuthIds =>
                   \/ answer'[c] = "500"
                   \/ /\ answer'[c] \in {"0", "1"} /\ Ran(c)
                      /\ answer'[c] = "0" => \E r \in RunIds : InName(r, c) /\ exit'[r] = "0"
    BY <2>2, <2>3, <2>4
  <2>6. known' \in {Down} \cup Registries
    BY <1>0 DEF ServerInv, ServerTypeOK
  <2> QED
    BY <1>0, <1>1, <1>2, <1>5, <2>1, <2>2, <2>5, <2>6, EndedKeeps
<1> QED
  BY <1>3, <1>4, <1>5

\* A handler that raises, a server that dies.
LEMMA BrokenKeeps ==
  ASSUME ServerInv, IInv, HandlerFails \/ ServerDies
  PROVE  ServerInv'
<1>0. /\ NoCaller \notin Callers /\ Server \in Executors /\ \A c \in AuthIds : c \in Callers
      /\ pc \in [Executors -> PC] /\ TypeOK
      /\ answer \in [Callers -> Answers] /\ known \in {Down} \cup Registries
      /\ serving \in Callers \cup {NoCaller} /\ UNCHANGED sent /\ serving' = NoCaller
  BY ServerAssumption
  DEF IInv, TypeOK, ServerInv, ServerTypeOK, Callers, HandlerFails, ServerDies
<1>1. /\ \A e \in Executors : e # Server => pc'[e] = pc[e]
      /\ runs' = runs /\ exit' = exit /\ pc'[Server] = "idle"
  <2>1. CASE Crash(Server)
    BY <1>0, <2>1 DEF Crash, Return, ledgerVars
  <2>2. CASE serving = NoCaller /\ UNCHANGED vars
    BY <1>0, <2>2 DEF ServerInv, CarrierOK, vars, ledgerVars, procVars
  <2> QED
    BY <2>1, <2>2 DEF HandlerFails, ServerDies
<1>2. CASE HandlerFails
  <2>1. serving \in Callers
    BY <1>0, <1>2 DEF HandlerFails
  <2>2. serving \in AuthIds => sent[serving].route = "authorized-run"
    BY <2>1 DEF ServerInv, SubmissionOK
  <2>3. /\ answer' \in [Callers -> Answers]
        /\ \A c \in Callers : c # serving => answer'[c] = answer[c]
        /\ serving \in AuthIds => answer'[serving] \in {answer[serving], "500"}
    BY <1>0, <1>2, <2>1, <2>2 DEF HandlerFails, Reply, Answers
  <2>4. known' = known /\ backlog' = backlog
    BY <1>2 DEF HandlerFails
  <2> QED
    BY <1>0, <1>1, <2>3, <2>4, EndedKeeps
<1>3. CASE ServerDies
  <2>1. /\ answer' \in [Callers -> Answers]
        /\ \A c \in Callers : answer'[c] \in {answer[c], "lost"}
    BY <1>0, <1>3 DEF ServerDies, Answers
  <2>2. known' = Down /\ backlog' = <<>>
    BY <1>3 DEF ServerDies
  <2> QED
    BY <1>0, <1>1, <2>1, <2>2, EndedKeeps
<1> QED
  BY <1>2, <1>3

\* The processes beside the server begin no runs.
LEMMA BesideKeeps ==
  ASSUME ServerInv, IInv, Elsewhere
  PROVE  ServerInv'
<1>0. /\ Server \in Executors /\ \A c \in AuthIds : c \in Callers
      /\ pc \in [Executors -> PC] /\ req \in [Executors -> Request \cup {NoRequest}] /\ TypeOK
      /\ UNCHANGED httpVars
  BY ServerAssumption DEF IInv, TypeOK, Callers, Elsewhere
<1>1. PICK e \in Executors \ {Server} :
        \/ \E r \in RunIds, registry \in Registries : ReplayLive(e, r, registry, FALSE)
        \/ Step(e) \/ Crash(e)
  BY DEF Elsewhere
<1>2. pc[e] # "begin"
  BY DEF ServerInv, CarrierOK
<1>3. /\ pc'[Server] = pc[Server] /\ req'[Server] = req[Server]
      /\ \A f \in Executors : f # Server => pc'[f] # "begin"
      /\ runs' = runs
      /\ \A c \in AuthIds, r \in RunIds : InName(r, c) /\ exit[r] = "0" => exit'[r] = "0"
  <2>1. CASE \E r \in RunIds, registry \in Registries : ReplayLive(e, r, registry, FALSE)
    BY <1>0, <2>1 DEF ReplayLive, Accept, ledgerVars, ServerInv, CarrierOK
  <2>2. CASE Crash(e)
    BY <1>0, <2>2 DEF Crash, Return, ledgerVars, ServerInv, CarrierOK
  <2>3. CASE Step(e)
    <3>1. /\ pc'[Server] = pc[Server] /\ req'[Server] = req[Server]
          /\ \A f \in Executors : f # Server => pc'[f] # "begin"
          /\ runs' = runs
      BY <1>0, <1>2, <2>3, StepMoves DEF ServerInv, CarrierOK
    <3>2. ASSUME NEW c \in AuthIds, NEW r \in RunIds, InName(r, c), exit[r] = "0"
          PROVE  exit'[r] = "0"
      <4>1. HasLedger(r)
        BY <3>2 DEF ServerInv, SubmissionOK, InName, HasLedger
      <4> QED
        BY <2>3, <3>2, <4>1, ExitStays
    <3> QED
      BY <3>1, <3>2
  <2> QED
    BY <1>1, <2>1, <2>2, <2>3
<1>4. UNCHANGED <<known, backlog, serving, sent, answer>>
  BY <1>0 DEF httpVars
<1>5. \A c \in Callers : Queued(c)' <=> Queued(c)
  BY <1>4 DEF Queued
<1>6. ServerTypeOK' /\ QueueOK'
  BY <1>4, <1>5 DEF ServerInv, ServerTypeOK, QueueOK
<1>7. CarrierOK'
  BY <1>3, <1>4 DEF ServerInv, CarrierOK, Authorization, InName
<1>8. ASSUME NEW c \in AuthIds
      PROVE  SubmissionOK(c)' /\ AnswerOK(c)'
  <2>1. /\ SubmissionOK(c) /\ AnswerOK(c) /\ (Queued(c)' <=> Queued(c))
        /\ (Beginning(c)' <=> Beginning(c))
        /\ \A r \in RunIds : InName(r, c)' <=> InName(r, c)
    BY <1>0, <1>3, <1>4, <1>5 DEF ServerInv, InName, Beginning
  <2> QED
    BY <1>3, <1>4, <2>1, CallerKeeps
<1> QED
  BY <1>6, <1>7, <1>8 DEF ServerInv

LEMMA ServerInitInv == ServerInit => ServerInv
<1> SUFFICES ASSUME ServerInit
             PROVE  ServerInv
  OBVIOUS
<1>0. NoCaller \notin Callers /\ Server \in Executors /\ \A c \in AuthIds : c \in Callers
  BY ServerAssumption DEF Callers
<1>1. \A r \in RunIds : runs[r] = NoRow \/ runs[r].auth = NoAuth
  <2>1. PICK legacy \in [LegacyRuns -> Plans] :
          runs = [r \in RunIds |-> IF r \in LegacyRuns THEN LegacyRow(legacy[r]) ELSE NoRow]
    BY DEF ServerInit, Init, LedgerInit
  <2>2. ASSUME NEW r \in RunIds
        PROVE  runs[r] = NoRow \/ runs[r].auth = NoAuth
    <3>1. runs[r] = IF r \in LegacyRuns THEN LegacyRow(legacy[r]) ELSE NoRow
      BY <2>1
    <3> QED
      BY <3>1 DEF LegacyRow
  <2> QED
    BY <2>2
<1>2. \A c \in AuthIds, r \in RunIds : ~InName(r, c)
  BY <1>1 DEF InName
<1>3. \A c \in Callers : ~Queued(c) /\ serving # c /\ answer[c] = "none"
  BY <1>0 DEF ServerInit, Queued
<1>4. ServerTypeOK
  BY DEF ServerInit, ServerTypeOK, Answers
<1>5. QueueOK /\ CarrierOK
  BY <1>0, <1>3 DEF ServerInit, Init, QueueOK, CarrierOK
<1>6. \A c \in AuthIds : SubmissionOK(c) /\ AnswerOK(c)
  BY <1>0, <1>2, <1>3 DEF SubmissionOK, AnswerOK, Ran
<1> QED
  BY <1>4, <1>5, <1>6 DEF ServerInv

LEMMA ServerNextInv ==
  ServerInv /\ IInv /\ WireOK /\ [ServerNext]_serverVars => ServerInv'
<1> SUFFICES ASSUME ServerInv, IInv, WireOK, [ServerNext]_serverVars
             PROVE  ServerInv'
  OBVIOUS
<1>0. TypeOK
  BY DEF IInv
<1>1. CASE UNCHANGED serverVars
  <2>1. UNCHANGED <<known, backlog, serving, sent, answer, pc, req, runs, exit>>
    BY <1>1 DEF serverVars, httpVars, vars, ledgerVars, procVars
  <2>2. (\A c \in Callers : Queued(c)' <=> Queued(c))
        /\ (\A c \in AuthIds, r \in RunIds : InName(r, c)' <=> InName(r, c))
        /\ (\A c \in AuthIds : Beginning(c)' <=> Beginning(c))
    BY <2>1 DEF Queued, InName, Beginning
  <2>3. ServerTypeOK' /\ QueueOK'
    BY <2>1, <2>2 DEF ServerInv, ServerTypeOK, QueueOK
  <2>4. CarrierOK'
    BY <2>1 DEF ServerInv, CarrierOK, Authorization, InName
  <2>5. ASSUME NEW c \in AuthIds
        PROVE  SubmissionOK(c)' /\ AnswerOK(c)'
    <3>1. c \in Callers /\ SubmissionOK(c) /\ AnswerOK(c)
      BY DEF ServerInv, Callers
    <3> QED
      BY <2>1, <2>2, <3>1, CallerKeeps
  <2> QED
    BY <2>3, <2>4, <2>5 DEF ServerInv
<1>2. CASE \E c \in AuthIds, q \in AsonRequests, authority \in BOOLEAN :
             AsonSubmit(c, q, authority)
  BY <1>2, AsonKeeps
<1>3. CASE \E c \in Clients : Call(c)
  BY <1>3, CallAsks
<1>4. CASE (\E c \in Callers : GiveUp(c)) \/ ServerStarts
  BY <1>4, CallersKeep
<1>5. CASE Serve
  BY <1>0, <1>5, ServeKeeps DEF Serve
<1>6. CASE Handle
  BY <1>6, HandleKeeps
<1>7. CASE HandlerFails \/ ServerDies
  BY <1>7, BrokenKeeps
<1>8. CASE Elsewhere
  BY <1>8, BesideKeeps
<1> QED
  BY <1>1, <1>2, <1>3, <1>4, <1>5, <1>6, <1>7, <1>8 DEF ServerNext

\* Where each submission stands, what runs in its name, and what its caller was
\* told agree in every reachable state.
THEOREM ServerInvariant == ServerSpec => []ServerInv
<1>1. ServerSpec => []IInv
  BY ServerImplementsExecutor, InductiveInvariant DEF ImplementsExecutor
<1>2. ServerSpec => []WireOK
  BY ServerInitWired, ServerNextWired, PTL DEF ServerSpec
<1> QED
  BY <1>1, <1>2, ServerInitInv, ServerNextInv, PTL DEF ServerSpec

\* Every variable of server and callers keeps its type.
THEOREM ServerTyped == ServerSpec => []ServerTypeOK
<1>1. ServerInv => ServerTypeOK
  BY DEF ServerInv
<1> QED
  BY <1>1, ServerInvariant, PTL

\* A submission of ASON gives at most one run, of the plan its policy approved,
\* whatever becomes of the caller, the server and the connection.
THEOREM OneRunPerAuthorizationHolds == ServerSpec => []OneRunPerAuthorization
<1>1. ServerInv => OneRunPerAuthorization
  <2> SUFFICES ASSUME ServerInv, NEW c \in AuthIds
               PROVE  /\ Cardinality(RunsOf(c)) <= 1
                      /\ \A r \in RunsOf(c) :
                           /\ sent[c] # Nothing /\ sent[c].route = "authorized-run"
                           /\ runs[r].plan = sent[c].plan
                           /\ Approves(sent[c].policy, runs[r].plan)
    BY DEF OneRunPerAuthorization
  <2>1. SubmissionOK(c)
    BY DEF ServerInv
  <2>2. \A r : r \in RunsOf(c) <=> r \in RunIds /\ InName(r, c)
    BY DEF RunsOf, InName
  <2>3. Cardinality(RunsOf(c)) <= 1
    <3>1. CASE RunsOf(c) = {}
      BY <3>1, FS_EmptySet
    <3>2. CASE RunsOf(c) # {}
      <4>1. PICK r : r \in RunsOf(c)
        BY <3>2
      <4>2. RunsOf(c) = {r}
        BY <2>1, <2>2, <4>1 DEF SubmissionOK
      <4> QED
        BY <4>2, FS_Singleton
    <3> QED
      BY <3>1, <3>2
  <2> QED
    BY <2>1, <2>2, <2>3 DEF SubmissionOK, Ran
<1> QED
  BY <1>1, ServerInvariant, PTL

\* What a submission came back with is true of its run.
THEOREM AnswerTellsRunHolds == ServerSpec => []AnswerTellsRun
<1>1. ServerInv /\ IInv => AnswerTellsRun
  <2> SUFFICES ASSUME ServerInv, IInv, NEW c \in AuthIds
               PROVE  /\ answer[c] \in {"violations", "no_authority", "not_canonical", "400"} =>
                           RunsOf(c) = {}
                      /\ answer[c] = "0" => \E r \in RunsOf(c) : exit[r] = "0" /\ AllSucceeded(r)
                      /\ answer[c] = "1" => RunsOf(c) # {}
    BY DEF AnswerTellsRun
  <2>1. SubmissionOK(c) /\ AnswerOK(c)
    BY DEF ServerInv
  <2>2. \A r : r \in RunsOf(c) <=> r \in RunIds /\ InName(r, c)
    BY DEF RunsOf, InName
  <2>3. \A r \in RunIds : InName(r, c) /\ exit[r] = "0" => AllSucceeded(r)
    BY <2>1 DEF IInv, ExitTellsOutcome, HasLedger, SubmissionOK, InName
  <2> QED
    BY <2>1, <2>2, <2>3 DEF AnswerOK, Ran
<1>2. ServerSpec => []IInv
  BY ServerImplementsExecutor, InductiveInvariant DEF ImplementsExecutor
<1> QED
  BY <1>1, <1>2, ServerInvariant, PTL

=============================================================================
