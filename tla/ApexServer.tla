----------------------------- MODULE ApexServer -----------------------------
(***************************************************************************)
(* apex/server.py and its client packages/ason: HTTP callers, a server     *)
(* that serves one request at a time (threaded=False) and executes plans   *)
(* as one process of Executor, beside other processes on the same ledger.  *)
(* A request waits in the backlog of the listening socket.  A caller that  *)
(* gives up leaves its request there, and the server still serves it; a    *)
(* server that dies takes its backlog along, and the ledger stays.         *)
(*                                                                         *)
(* A caller makes one call; whoever tries again is another caller.  A      *)
(* caller of ASON is named by its authorization id, a fresh uuid4 for each *)
(* submission; Clients are the other callers of the API.                   *)
(***************************************************************************)
EXTENDS Executor

CONSTANTS
  Server,        \* the executor that is `apex serve`
  Clients,       \* callers that do not use ASON
  AsonRequests,  \* the plans and policies submitted to ASON
  Class,         \* Class[t]: how the validator classifies tool t
  SelfTools,     \* tools that call this very server
  NonJson,       \* argument objects that are no JSON (NaN, a set, a lone surrogate)
  NoCaller,      \* the server serves nobody
  Nothing,       \* not sent yet
  Down           \* no server is running

Callers == AuthIds \cup Clients

Radii == {"none", "local", "network"}
Policy == [maxSteps : 1..(MaxSteps + 1), allowed : SUBSET Tools, radius : Radii]
AsonRequest == [plan : Seq(ToolCall), policy : Policy]

ASSUME ServerAssumption ==
  /\ Server \in Executors
  /\ SelfTools \subseteq Tools /\ NonJson \subseteq Args
  /\ Class \in [Tools -> {"reads", "writes", "network", "shell", "unknown"}]
  /\ AuthIds \cap Clients = {} /\ NoCaller \notin Callers

VARIABLES
  known,    \* _REGISTRY, built when the server started; Down while there is none
  backlog,  \* callers whose requests wait, oldest first
  serving,  \* the caller whose request is being handled
  sent,     \* sent[c]: what c asked for
  answer    \* answer[c]: what c came back with

httpVars == <<known, backlog, serving, sent, answer>>
serverVars == <<vars, httpVars>>

Up == known # Down

\* "1" is also the exit code of a request that was blocked; "lost" is a timeout
\* or a broken connection.
Answers == {"none", "waiting", "violations", "no_authority", "not_canonical",
            "400", "500", "lost", "0", "1"}
Routes == {"authorized-run", "run", "task", "replay", "read"}
Message == [route : Routes, plan : {NoPlan} \cup Seq(ToolCall),
            policy : {Nothing} \cup Policy, run : {NoRun} \cup RunIds]

ASSUME MessageAssumption == Nothing \notin Message

-----------------------------------------------------------------------------
\* ASON

\* MUTANT of BlockedBy: without a blast radius only writes are blocked.
BlockedByLess(radius) == IF radius = "none" THEN {"writes"} ELSE {}

\* _BLAST_RADIUS_BLOCKS
BlockedBy(radius) ==
  [none |-> {"writes", "network"}, local |-> {"network"}, network |-> {}][radius]

\* The checks of a step: an empty allowed_tools allows every classified tool.
Permits(policy, tool) ==
  /\ Class[tool] \notin {"shell", "unknown"}
  /\ Class[tool] \notin BlockedBy(policy.radius)
  /\ policy.allowed # {} => tool \in policy.allowed

\* validate: the arguments of a step are not looked at.
Validates(q) ==
  /\ Len(q.plan) <= q.policy.maxSteps
  /\ \A i \in StepsOf(q.plan) : Permits(q.policy, q.plan[i].tool)

\* The plan can be digested and encoded (allow_nan=False).
Canonical(plan) == \A i \in StepsOf(plan) : plan[i].args \notin NonJson

\* What ASON sends, and APEX has room for, is a plan of the executor.
ASSUME AsonAssumption ==
  \A q \in AsonRequests :
    /\ q \in AsonRequest
    /\ Validates(q) /\ Canonical(q.plan) /\ Len(q.plan) <= MaxSteps => q.plan \in Plans

\* Bytes reach the server's socket, or the connection is refused.
Send(c, message) ==
  /\ answer[c] = "none"
  /\ sent' = [sent EXCEPT ![c] = message]
  /\ IF Up
     THEN backlog' = Append(backlog, c) /\ answer' = [answer EXCEPT ![c] = "waiting"]
     ELSE answer' = [answer EXCEPT ![c] = "lost"] /\ UNCHANGED backlog
  /\ UNCHANGED <<vars, known, serving>>

AsonRefuses(c, why) ==
  /\ answer[c] = "none"
  /\ answer' = [answer EXCEPT ![c] = why]
  /\ UNCHANGED <<vars, known, backlog, serving, sent>>

\* submit: the policy is not sent along, and stays here for the properties.
AsonSubmit(c, q, authority) ==
  \/ ~Validates(q) /\ AsonRefuses(c, "violations")
  \/ Validates(q) /\ ~authority /\ AsonRefuses(c, "no_authority")
  \/ Validates(q) /\ authority /\ ~Canonical(q.plan) /\ AsonRefuses(c, "not_canonical")
  \/ /\ Validates(q) /\ authority /\ Canonical(q.plan)
     /\ Send(c, [route |-> "authorized-run", plan |-> q.plan, policy |-> q.policy,
                 run |-> NoRun])

\* Any other caller of the API.
Ask(c, route, plan, run) ==
  Send(c, [route |-> route, plan |-> plan, policy |-> Nothing, run |-> run])

\* MUTANT of GiveUp: the same request is sent once more.
GiveUpResends(c) ==
  /\ answer[c] = "waiting"
  /\ answer' = [answer EXCEPT ![c] = "lost"]
  /\ backlog' = IF Up THEN Append(backlog, c) ELSE backlog
  /\ UNCHANGED <<vars, known, serving, sent>>

\* urlopen(timeout=310), or the connection breaks.  The request stays.
GiveUp(c) ==
  /\ answer[c] = "waiting"
  /\ answer' = [answer EXCEPT ![c] = "lost"]
  /\ UNCHANGED <<vars, known, backlog, serving, sent>>

-----------------------------------------------------------------------------
\* The server

\* The answer reaches a caller that still waits.
Reply(c, result) ==
  answer' = [answer EXCEPT ![c] = IF @ = "waiting" THEN result ELSE @]

\* The next request is taken from the backlog.
Take(c, route) ==
  /\ Up /\ serving = NoCaller
  /\ backlog # <<>> /\ c = Head(backlog) /\ sent[c].route = route
  /\ backlog' = Tail(backlog)
  /\ UNCHANGED <<known, sent>>

AnswerAtOnce(c, result) ==
  /\ Reply(c, result)
  /\ UNCHANGED <<vars, serving>>

\* parse_plan: the limit on the steps includes the halt.
Parses(plan, registry) == Len(plan) <= MaxSteps /\ ValidPlan(plan, registry)

\* _authorization
Authorization(c) == [id |-> c, plan |-> sent[c].plan, decision |-> TRUE]

\* api_authorized_run
ServeAuthorized(c) ==
  /\ Take(c, "authorized-run")
  /\ IF Parses(sent[c].plan, known) /\ ValidAuthorization(Authorization(c), sent[c].plan)
     THEN /\ Submit(Server, sent[c].plan, known, Authorization(c))
          /\ serving' = c
          /\ UNCHANGED answer
     ELSE AnswerAtOnce(c, "400")

\* api_run with a plan
ServePlan(c) ==
  /\ Take(c, "run")
  /\ IF Parses(sent[c].plan, known)
     THEN /\ Submit(Server, sent[c].plan, known, NoAuth)
          /\ serving' = c
          /\ UNCHANGED answer
     ELSE AnswerAtOnce(c, "400")

\* MUTANT of ServeTask: a task without a plan is recorded as successful.
ServeTaskSucceeds(c) ==
  /\ Take(c, "task")
  /\ \/ /\ \E plan \in Plans : Submit(Server, plan, known, NoAuth)
        /\ serving' = c
        /\ UNCHANGED answer
     \/ /\ \E r \in RunIds : RoomForRun /\ RecordRun(r, NoPlan, "0")
        /\ Reply(c, "0")
        /\ UNCHANGED <<procVars, calls, crashed, serving>>

\* api_run with a task: the planner gives any valid plan, or none.
ServeTask(c) ==
  /\ Take(c, "task")
  /\ \/ /\ \E plan \in Plans : Submit(Server, plan, known, NoAuth)
        /\ serving' = c
        /\ UNCHANGED answer
     \/ /\ \E r \in RunIds : RecordOnly(r, NoPlan, "1")
        /\ Reply(c, "1")
        /\ UNCHANGED serving

\* api_replay in mode live: replay_main builds a registry of its own, which may
\* fail; _capture_main turns whatever it raises into exit code 1.
ServeReplay(c) ==
  /\ Take(c, "replay")
  /\ \/ \E registry \in Registries :
          /\ ReplayLive(Server, sent[c].run, registry, FALSE)
          /\ serving' = c
          /\ UNCHANGED answer
     \/ AnswerAtOnce(c, "1")

\* /runs, /runs/<id>, /export, /health, and /replay in the other modes
ServeRead(c) == Take(c, "read") /\ AnswerAtOnce(c, "0")

Serve ==
  \E c \in Callers :
    ServeAuthorized(c) \/ ServePlan(c) \/ ServeTask(c) \/ ServeReplay(c) \/ ServeRead(c)

\* MUTANT of Returns: there is no timeout, and the server waits for itself.
ReturnsNever == pc[Server] = "call" /\ req[Server].plan[cur[Server]].tool \in SelfTools

\* A tool that calls this server gets no answer while the server executes it:
\* its own timeout, or SIGALRM, ends the call.
Returns ==
  pc[Server] = "call" /\ req[Server].plan[cur[Server]].tool \in SelfTools => CallFailed(Server)

\* MUTANT of ExitCode: every run that finished is a success.
ExitCodeFinished == IF pc[Server] = "finish" THEN "0" ELSE "1"

\* MUTANT of ExitCode: the status ERROR is not in the table of _state_response.
ExitCodeUnknown == IF pc[Server] = "finish" /\ outcome[Server] = "ok" THEN "0" ELSE "2"

\* _state_response
ExitCode == IF pc[Server] = "finish" /\ outcome[Server] = "ok" THEN "0" ELSE "1"

\* The handler executes its plan; when run_plan returns, it answers.
Handle ==
  /\ Up /\ serving # NoCaller
  /\ Step(Server) /\ Returns
  /\ IF pc'[Server] = "idle"
     THEN Reply(serving, ExitCode) /\ serving' = NoCaller
     ELSE UNCHANGED <<answer, serving>>
  /\ UNCHANGED <<known, backlog, sent>>

\* MUTANT of HandlerFails: whatever goes wrong is the fault of the request.
HandlerBlamesRequest ==
  /\ Up /\ serving # NoCaller
  /\ Crash(Server)
  /\ Reply(serving, IF sent[serving].route = "replay" THEN "1" ELSE "400")
  /\ serving' = NoCaller
  /\ UNCHANGED <<known, backlog, sent>>

\* An exception leaves run_plan (SQLite's "database is locked"); _capture_main
\* turns that of a replay into exit code 1.
HandlerFails ==
  /\ Up /\ serving # NoCaller
  /\ Crash(Server)
  /\ Reply(serving, IF sent[serving].route = "replay" THEN "1" ELSE "500")
  /\ serving' = NoCaller
  /\ UNCHANGED <<known, backlog, sent>>

ServerDies ==
  /\ Up
  /\ IF serving = NoCaller THEN UNCHANGED vars ELSE Crash(Server)
  /\ known' = Down
  /\ backlog' = <<>> /\ serving' = NoCaller
  /\ answer' = [c \in Callers |-> IF answer[c] = "waiting" THEN "lost" ELSE answer[c]]
  /\ UNCHANGED sent

\* serve_main
ServerStarts ==
  /\ ~Up
  /\ known' \in Registries
  /\ UNCHANGED <<vars, backlog, serving, sent, answer>>

-----------------------------------------------------------------------------

ServerInit ==
  /\ Init
  /\ known = Down
  /\ backlog = <<>> /\ serving = NoCaller
  /\ sent = [c \in Callers |-> Nothing]
  /\ answer = [c \in Callers |-> "none"]

Call(c) ==
  \/ \E plan \in Plans : Ask(c, "run", plan, NoRun)
  \/ \E r \in RunIds : Ask(c, "replay", NoPlan, r)
  \/ \E route \in {"task", "read"} : Ask(c, route, NoPlan, NoRun)

\* Another process replays a run (what it submits itself has runs of its own).
Elsewhere ==
  /\ \E e \in Executors \ {Server} :
       \/ \E r \in RunIds, registry \in Registries : ReplayLive(e, r, registry, FALSE)
       \/ Step(e) \/ Crash(e)
  /\ UNCHANGED httpVars

ServerNext ==
  \/ \E c \in AuthIds, q \in AsonRequests, authority \in BOOLEAN : AsonSubmit(c, q, authority)
  \/ \E c \in Clients : Call(c)
  \/ \E c \in Callers : GiveUp(c)
  \/ Serve \/ Handle \/ HandlerFails
  \/ ServerDies \/ ServerStarts
  \/ Elsewhere

ServerSpec == ServerInit /\ [][ServerNext]_serverVars

\* The server thread goes on while the server lives.
FairServerSpec == ServerSpec /\ WF_serverVars(Serve \/ Handle)

-----------------------------------------------------------------------------
\* Properties

\* Every variable keeps its type.
ServerTypeOK ==
  /\ known \in {Down} \cup Registries
  /\ backlog \in Seq(Callers)
  /\ serving \in Callers \cup {NoCaller}
  /\ sent \in [Callers -> {Nothing} \cup Message]
  /\ answer \in [Callers -> Answers]

\* Server and callers add nothing to what the processes of Executor may do:
\* whatever is proved of them holds of every run the API starts or recovers.
ImplementsExecutor == Spec

\* What a policy approves: only classes within its blast radius, of its tools.
Approves(policy, plan) ==
  /\ Len(plan) <= policy.maxSteps
  /\ \A i \in StepsOf(plan) :
       /\ Class[plan[i].tool] = "reads" \/ (Class[plan[i].tool] = "writes" /\ policy.radius # "none")
            \/ (Class[plan[i].tool] = "network" /\ policy.radius = "network")
       /\ policy.allowed = {} \/ plan[i].tool \in policy.allowed

RunsOf(c) == {r \in RunIds : runs[r] # NoRow /\ runs[r].auth # NoAuth /\ runs[r].auth.id = c}

\* A submission gives at most one run, of the plan its policy approved, whether
\* the caller waits, gives up or meets a server that dies; and no other caller,
\* and no recovery, gives one in its name.
OneRunPerAuthorization ==
  \A c \in AuthIds :
    /\ Cardinality(RunsOf(c)) <= 1
    /\ \A r \in RunsOf(c) :
         /\ sent[c] # Nothing /\ sent[c].route = "authorized-run"
         /\ runs[r].plan = sent[c].plan
         /\ Approves(sent[c].policy, runs[r].plan)

\* What a submission came back with is true of its run: exit code 0 means that
\* every step is confirmed; a refusal, by ASON or by the server, means that
\* no part of the plan was run, also where the server finds fault with what ASON
\* accepted: a plan too long with the halt that ASON adds, a tool the server
\* lacks, or arguments, which ASON never looks at.
AnswerTellsRun ==
  \A c \in AuthIds :
    /\ answer[c] \in {"violations", "no_authority", "not_canonical", "400"} => RunsOf(c) = {}
    /\ answer[c] = "0" => \E r \in RunsOf(c) : exit[r] = "0" /\ AllSucceeded(r)
    /\ answer[c] = "1" => RunsOf(c) # {}

Pending(c) == serving = c \/ \E i \in DOMAIN backlog : backlog[i] = c

\* Every request leaves the server, also behind a long run and behind a tool
\* that calls the server it runs in.
RequestsLeave == \A c \in Callers : Pending(c) ~> ~Pending(c)

=============================================================================
