# Verification of Axiom APEX

TLA+ modules, TLC configurations and TLAPS proofs for the parts of this
repository whose correctness is a matter of order: who may run an effect, how
often, after which crash, and who may say how it ended. Every definition is
translated from the code under `src/`; `PROJECT.json` maps each one to its lines.

## 1. Inventory

### Components, their state and operations

| Component | State it keeps | Operations that change it | Module |
|---|---|---|---|
| Effect ledger `apex/history.py` | SQLite tables `runs`, `ledger_runs`, `registry_bindings`, `authorizations`, `effects`, `events` | `begin_run`, `bound_effects` (read), `dispatch_effect`, `observe_effect`, `finish_run`, `record_run`, schema migration in `_conn` | `EffectLedger` |
| Execution kernel `apex/core/loop.py` | locals of one process: the effect states it read, the step, the attempt | `run`, `run_plan`, `_run_prepared`, `_execute`, `_finish` | `Executor`, `RunPromise` |
| Replay `apex/replay.py` | none | `apex replay` live, dry, simulate, `--no-write`, `--diff` | `Executor` (live) |
| `apex history` `apex/__main__.py` | none | lists the runs | `HistoryView` |
| Harness store `packages/harness` | SQLite tables `tasks`, `task_state`, `resources`, `leases`, `attempts`, `canonical_results` | `submit_task`, `register_resource`, `reap_expired`, `acquire_lease`, `record_attempt`, `commit_accepted` | `HarnessStore`, `TaskLifecycle` |
| Planner, audit `apex/core/planner.py`, `safety.py` | none | generate, validate, audit and serialise a plan | outcome only, in `Executor` |
| Tools, memory `apex/core/tools.py`, `memory_store.py` | files, the `kv` table | a tool's effect; `build_registry` | a tool call that returns or fails; `RemoteTools` (where the registry comes from) |
| HTTP server `apex/server.py` | the registry built at start, the requests waiting at its socket, the one it handles | `/run`, `/authorized-run`, `/replay`; `/runs`, `/export`, `/health` only read | `ApexServer` |
| ASON `packages/ason` | none that outlives a submission | `validate`, `_apex_plan`, `_authorization`, `submit` | `ApexServer` (authorizations in `EffectLedger`) |
| Recursive self-improvement `apex/rsi.py` | Git branches and working tree, the report | measure, admit and commit a candidate per cycle | `RsiCycle`, `RsiMeasured` |
| Swarm `apex/core/swarm.py` | table `swarm_runs`, subprocesses | dispatch batches, record | `Swarm` |
| RSI sandbox `apex/_rsi_sandbox.py`, `_rsi_scope.py` | one process group, its pipes, a deadline | `run`, `_capture`, the launcher and its verifier | `Sandbox` |
| Tool loader, MCP client `apex/core/toolloader.py`, `mcp.py` | the registry under construction, the listing at hand | load files, list servers page by page, call a tool | `RemoteTools` |
| HTTP API clients `packages/api` | the retries that are left | a request with retries and redirects | `RemoteTools` |
| Providers, configuration, benchmarks, export, RAG adapters | none that outlives a call | model calls, measurement, output | not modelled |

### How they interact

Every live execution, whether started by `apex run`, by `apex replay`, by a
swarm worker or by a request to `apex serve` (which is how ASON executes), ends
in `_run_prepared`, and every one of those processes opens the same SQLite file.
Nothing else coordinates them: there is no lock around a run, so two processes
may recover the same run at the same moment. The ledger is therefore the whole
synchronisation: `dispatch_effect` is a compare-and-set on one row, committed
before the tool is entered; everything else a process knows about a run it read
once, in `bound_effects`. ASON adds an authorization that binds a run to one
approved plan. The harness store is a second, independent SQLite authority with
the same style: one `BEGIN IMMEDIATE` transaction per method, but time (lease
expiry) plays a part.

The server adds a queue in front of one such process, and a caller that cannot
tell a lost answer from a run that never began. ASON is a client of the server.
The registry every process executes under is assembled at its start from
built-in tools, files and what MCP servers list. Recursive self-improvement
evaluates each candidate in a sandbox, whose processes must not outlive it.

### What is hard here, and what makes each component correct

- *Ledger and kernel.* A process may die between any two transactions, and
  inside a tool. Others may recover the run, at once or later, under a registry
  that has changed, with or without an authorization, from a snapshot that is
  going stale. Correct means: a tool is not entered more often than the run's
  own contract allows; the ledger tells what happened; steps happen in order;
  an uncertain step stops the run for ever; the exit code is true whoever
  writes it; processes that race never leave a run abandoned between them.
- *Harness store.* The clock is read before a wait of up to five seconds for
  the lock; leases expire while workers still work; workers answer late or
  twice. Correct means: work under two leases never overlaps on a task or a
  resource; two tables name the same authority; retries need positive evidence
  and are bounded; an outcome, once recorded, is final.
- *Recursive self-improvement.* One run moves the shared Git checkout from branch
  to branch for up to an hour; each git command may fail, the process may be
  killed, and what it leaves behind is what the next run starts from. Correct
  means: whatever is committed was measured, on top of the sources its baselines
  were measured on, and beat them on training and holdout tasks although single
  measurements are noise; accepted branches are cumulative and never move, nor does
  the origin; a run that ends by itself leaves the checkout as it was, and nothing on a
  branch that was not accepted.
- *Swarm.* The dispatcher starts processes it may not live to see the end of, and
  drains their output one after the other. Correct means: batches never overlap,
  the table tells what became of each worker, the result counts every failure,
  and a full pipe holds up only its own worker.
- *Server and ASON.* One request at a time, behind a run that may take minutes
  and call the server itself; the caller's timeout is shorter than the run; the
  server may die with requests in its queue and come back with another registry.
  Correct means: a submission gives at most one run, of what its policy approved;
  what the caller is told is true of that run; every request leaves the queue.
- *Sandbox.* The controller may die between any two steps of a start-up in which
  one process becomes the next by `exec`; the candidate may write without end,
  leave processes behind or never exit. Correct means: nothing outlives the
  evaluation or its controller, and a result is all of the output, within limits
  that were really applied.
- *Remote tools.* A listing may fail at any page, or never end; an answer may be
  lost after the request was applied. Correct means: the registry holds whole
  listings in a fixed order of precedence, a start-up that cannot register a tool
  ends rather than runs under half a listing, and a request is applied no more
  often than its method and client allow.

The complete list, each at its line, is `hazards` in `PROJECT.json`.

## 2. Modules

    EffectLedger <--EXTENDS-- Executor <--EXTENDS-- MCExecutor                  (TLC)
                                 |     <--EXTENDS-- HistoryView <-- MCHistory   (TLC)
                                 |     <--EXTENDS-- ApexServer  <-- MCServer    (TLC)
                                 |     <--EXTENDS-- ExecutorSafety <-- ExecutorPromise (TLAPS)
                                 '-- INSTANCE RunPromise   (the abstract specification)
    ServerProofs EXTENDS ApexServer, ExecutorPromise                            (TLAPS)

    HarnessStore <-- MCHarness (TLC), HarnessProofs (TLAPS)
       '-- INSTANCE TaskLifecycle   (the abstract specification)
    RemoteTools  <-- MCRemote  (TLC), RemoteProofs  (TLAPS)
    RsiCycle     <-- MCRsiRules (TLC)
       '-- RsiMeasured <-- MCRsi (TLC), RsiProofs (TLAPS)
    Sandbox      <-- SandboxProofs (TLAPS); TLC checks it directly
    Swarm        <-- SwarmProofs   (TLAPS); TLC checks it directly

**EffectLedger** has one operator per transaction of `history.py`; a
`with _conn()` block is one SQLite transaction, hence one atomic change.
`runs[r]` gathers the immutable row of a run with its bindings; `effects`,
`results`, `events` are the columns that recovery reads. `bound_effects` runs
four SELECTs without a common snapshot, but the rows of the first three are
never updated, so the whole takes effect at the fourth.

**Executor** is any number of processes over that ledger. `pc` says between
which two transactions a process stands:

| `pc` | code |
|---|---|
| `begin` | plan accepted, before `begin_run` (loop.py:242) |
| `bind` | before `bound_effects` (loop.py:107) |
| `step` | at the head of the loop over the plan (loop.py:128) |
| `call` | DISPATCHING is committed, before the tool is entered (loop.py:156) |
| `retry`, `observe` | the attempt ended, before `observe_effect` (loop.py:169, 187) |
| `finish` | before `finish_run` (loop.py:56) |

`Crash` is possible at every place and loses all locals. `calls` (entries into
tool code) and `crashed` are history variables: no guard reads them.

**RunPromise** is what a caller is promised of a run: steps open in order, each
is entered at most as often as accepted, a step ends confirmed or lost, a lost
step is the end of all progress, and the verdict follows. It knows no process,
snapshot or recovery. `Executor!KeepsPromise` is the refinement.

**HistoryView** puts `apex history` beside the executors: one transaction, then
one formatted line after another.

**HarnessStore** has one action per public method that writes. Callers are an
open environment: any method, any argument, any time; a worker that dies simply
calls no more. The time a method works with is any value within `LockWait` of
the clock; `record_attempt` lets the caller say when the work was completed, so
there it is any earlier time. A method that raises rolls back, so a refusal is
no action, including the reaping `record_attempt` does before it refuses an
expired lease.

**TaskLifecycle** is what a submitter is promised of a task: it is worked on under
one grant at a time, on a resource that serves one grant at a time; a grant may be
taken back, only the grant that is held reports, reports are bounded, and the one
candidate accepted is the one published. It knows no rows, clocks or reaping.
`HarnessStore!KeepsLifecycle` is the refinement: a lease is a grant, an attempt a
report, `active_lease` the grant that is held.

**RsiCycle** is `run_rsi` on a repository of branches, a checked-out branch (`head`)
and a working tree. The sources are the set of changes applied to them, and a
candidate patch is one change of one file, so that a `git checkout` with leftovers is
carried along or refused as Git does it. Scores, tokens and wall time only decide: a
candidate passes or fails, a budget ends or does not, whichever. Every command inside
the `try` may raise, and so may those before it; `git branch -D` of a rejected branch
may fail without anyone noticing (`check=False`); `Kill` is possible everywhere;
between runs the operator may discard the working tree and check out any branch.
`admitted` and `kept` are history variables.

**RsiMeasured** puts the measurements on top: every baseline, and every candidate
on the training and the holdout tasks, is an outcome of three runs of the benchmark,
any of `Outcomes`, and `MaterialGain`, `ResourceGuard` and the order of the
candidates decide as the code does, in whole numbers. Its steps are those of
`RsiCycle`, with what was measured beside them. `evidence` is a history variable.

**Swarm** is `run_swarm` with its workers. A task is its position in the list; a
worker runs and ends, well or not, and one that fills its pipe ends only when the
dispatcher drains it, or with an error when there is no dispatcher any more.
`Stop` is any exception (`Popen`, a locked database), interrupt or kill.

**ApexServer** composes callers, one server and other processes with `Executor`:
the server is one of its executors, whose steps are taken inside a handler. A
request waits in `backlog`, the queue of the listening socket, until the server
takes it; a caller that gives up, or whose connection breaks, leaves it there. A
submission of ASON validates first, without a look at the arguments, encodes the
plan, then sends; the server parses it against its own registry, which may refuse
its length, a tool or the arguments. The authorization id is fresh, so
whoever submits again is another caller. `ServerDies` loses the queue and the
locals of the run, `ServerStarts` reads a registry. `ServerProofs` shows that all
of it is a refinement of `Executor`.

**Sandbox** is one evaluation. `outer` is the process the controller started,
named by what it executes at the moment: the launcher, which checks its parent,
asks to be killed with it and checks again, `systemd-run`, the verifier,
Bubblewrap, the candidate. Output is counted in units, and of stderr only its
beginning is kept, because that is what the code decides by. The kernel is
external: it kills a PID namespace some time after its first process is gone.

**RemoteTools** has two parts that share the registry. Start-up loads files and lists
the configured servers, page after page, from services that fail, page in circles or
drip. Of a listing that has arrived each definition is registered, is skipped, or
raises: the registration is outside the `try` that skips a server, and a schema whose
`type` is a list next to `x-mcp-header` (mcp.py:129), or an object (mcp.py:171),
raises `TypeError`, which ends the program (`aborted`). A request is sent, applied,
answered, lost or refused; `copies` are the sent requests the service has not applied
yet, also those whose client gave up. How often a request is tried again follows
`urllib3.Retry` as `requests.post` and `APIClient` configure it.

### Abstractions

- SHA-256 is collision-free: a plan digest stands for its plan, a contract
  digest for the part of the registry it covers (names, schemas and `retry_safe`;
  the `impl` field of a registry stands for code behind it, which is not covered).
- A plan is the sequence of its tool calls, each a tool with an argument object;
  `parse_plan` makes one final Halt mandatory, so it is implicit.
- The schemas of a registry (`input_spec`, `required`) are the set of calls they
  accept: `_validate_args` tells a call that is accepted from one that is not.
- A tool's effect is that it was entered; it returns or fails (an exception,
  SIGALRM, a normalised `{"ok": false}`), and a crash may come before, inside or
  after it.
- Error wording, tracing, JSON and printing are left out.
- A database error (SQLite gives up after five seconds) unwinds the process with
  the ledger as it is: the same as `Crash`.
- `LegacyRuns` are the runs of a release before registry bindings, which
  `_conn` migrates and `CHANGELOG.md` line 6 speaks of.
- Two lines of the code turn out to be redundant in the model. `observe_effect`
  checks its row count, which `SoleDispatcher` shows is never 0. And `_execute`
  refuses uncertain steps before it starts; without that check every safety
  property still holds, because the compare-and-set of the dispatch stops the
  process at the same step: the check only makes the refusal earlier.

## 3. Runs

| run | question | distinct states |
|---|---|---|
| `races` | can interleavings, crashes and stale snapshots break or prolong a run? | about 630,000 |
| `fair` | does a run that is executed settle, and is all of it RunPromise? | about 98,000 |
| `bindings` | can another plan, registry or authorization execute a run? | about 152,000 |
| `server` | is a submission run once, as approved, and truly answered? | about 257,000 |
| `harness` | are leases exclusive, retries bounded, outcomes final, and a task's life as promised? | about 361,000 |
| `rsi` | is everything committed better than what it stands on, whatever is measured, and whatever failed before? | about 1,652,000 |
| `swarm` | do batches stay apart, and does the result count every failure? | about 50,000 |
| `sandbox` | does an evaluation end, whole, and does nothing outlive it? | about 9,700 |
| `remote` | is a registry whole, and a request applied as often as allowed? | about 346,000 |
| `no_write` | does `--no-write` reject only plans that write? (violated) | |
| `history_cli` | does `apex history` find an incomplete run? (violated) | |
| `rsi_rules` | does the rules experiment restore the checkout? (violated) | |

`races`: three processes, one run of `read, send, read`, `read` retry-safe with
two attempts, and a second registry that calls `send` retry-safe too. Three
processes are what the hardest case needs: one that dispatched, one that bound
before, one that recovers. The dangerous step stands in the middle, with a
confirmed step before it and one behind it. One run is enough because no
transaction touches two runs, and no state of a process refers to two. A
process may die and come back as often as it likes; nothing bounds crashes.
Processes are interchangeable, so `Executors` is a symmetry set (the run has no
liveness property).

Its properties: `AtMostOnce`, `LedgerTellsTruth`, `OrderedEffects`, `SoleDispatcher`,
`ExitTellsOutcome`, `OnlyCrashesAbandon`, `DoubtFreezesRun`, `WorkCountsDown` (each
stated in words in `Executor.tla`) and the type invariant. The inductive invariant of
the proofs was checked on this instance before it was proved.

`fair`: two processes, same plan, no symmetry. `RunsSettle` needs fairness:
weak fairness of `Step(e)`, the next statement of a live process. The code
justifies it where it can: tools are ended by SIGALRM (`_timeout`, loop.py:29),
the retry loop is bounded and there is no wait on another process. A crash is
never forced and never excluded. `KeepsPromise` checks the refinement.

`bindings`: one process, but two runs (one of the older release), three plans (an
empty one and two that differ in an argument), five registries (same, relaxed,
rebuilt with the same contract, widened to the other argument, reduced) and all
authorizations over two identities.

`server`: one submission through ASON (of four plans under two policies, of which
three are approved; one of those has no room for the halt and one is no JSON), one
other caller, the server and a process that replays on the command line, two runs, two
registries of which one refuses the arguments of the plan. Two runs are what a second
run of the same submission would need, one other caller what a full queue, a replay of
the submitted run and a request behind a long run need. `RequestsLeave` assumes that
the server's thread goes on while the server lives (`WF` of `Serve \/ Handle`);
nothing is assumed of restarts or callers. It covers a tool that calls the very server
it runs in: its timeout, or SIGALRM, ends the call, and the run goes on with a failed
step.

`harness`: two tasks and two resources of unlike specs, three leases, times 0
to 2, contexts of one size, time to live 1 or 2, a clock that is stale by at
most 1. Three leases let a task be leased again after an expiry while the other
one is leased, and give it one retry more than its budget if the count were
wrong. Tasks, resources and leases are each interchangeable. `KeepsLifecycle`
checks the refinement of `TaskLifecycle`.

`rsi`: two runs of two cycles, two changes of one file. Two runs show what a run
makes of another's leftovers, two cycles that accepted branches build on each other
and are measured anew, two changes that there is a choice. With one file a leftover
is carried to the origin in the first cycle and makes `finally` refuse the checkout
in the second, where it edits what the accepted branch has changed; leftovers that
pass each other in different files are covered by the proofs only. Each measurement
is one of three outcomes: slow, quick, and quickest at a price in CPU time which
the slow baseline allows and the quick one does not. Each has one run in three that
says otherwise, as noise would. Behaviours are followed to the third admission
(`FewAdmissions`): two are enough for two commits, of one run or of two; and of a
cycle of the last run, after which nothing comes, to the third candidate. The run has
no fairness: `RunCountsDown` bounds the steps of a run whatever the machine does.

`swarm`: five tasks in batches of two, so that there is a batch after a full one
and a last one that is short; any subset of the workers fills its pipe, and the
operator is asked or not. `BatchEnds` assumes that workers end, which is
`RunsSettle`, and that a dispatcher that is not stopped keeps running; the
operator may leave the question unanswered for ever. This run really stops, so
deadlock is not checked in it.

`sandbox`: an output limit of 3 units of at most 6, so that output stays below, at
and beyond the limit, in reads of any size. `EvaluationEnds` assumes the kernel,
the controller while it lives and the three statements of the launcher before it
becomes `systemd-run`; nothing is assumed of `systemd-run`, Bubblewrap or the
candidate. An evaluation stops, so deadlock is not checked in this run.

`remote`: three configured servers, two of them with the same name and one unusable,
five listings (one page, two pages, two of which the second cannot be registered,
pages in a circle, a page that drips), two files of which one overrides a built-in
tool, and one request with up to two retries. `StartupCompletes` assumes the next page
or failure of a listing that does not drip: `requests` gives up after 15 seconds of
silence. It promises nothing for listings in a circle or dripping ones, because the
code puts no bound on either: start-up hangs there. It ends `aborted` only at a server
that lists a definition which cannot be registered. This run stops too.

Bounds, all named: `RunIds` with the guard `RoomForRun` (a fresh id is always
there), `MaxSteps`, `Leases`, `MaxTime`, `LockWait` (the five seconds of the lock
wait), `Cycles`, `MaxRuns`, `Limit`, `MaxOutput`, `MaxRetries`, `Offers`. Deadlock is
checked in every run but `swarm`, `sandbox` and `remote`: no other run stops.

### Disagreements found

- **`apex replay --no-write`** (`no_write`). `replay_main` removes `write_file`
  from the registry, and the contract digest is computed from that registry, so
  it never agrees with the one bound at `begin_run`: every replay of a run that
  was begun with `write_file` in the registry is refused, not only "plans
  requiring `write_file`" (`docs/execution.md:34`).
- **`apex history`** (`history_cli`). The line format `{row["exit_code"]:>4}`
  raises `TypeError` for `None`, so the listing ends at the first incomplete
  run, the very run `docs/execution.md:49` says it finds.
- **`apex rsi --generator rules`** (`rsi_rules`). The loop checks out the last
  accepted branch and, when no rule applies to it any more, leaves before the
  `try` whose `finally` restores the origin; `docs/rsi.md:49` says the experiment
  "restores the original checkout".
- **MCP start-up** (no run of its own: the run `remote` has it as the outcome
  `aborted`). `docs/integrations.md:56` says that unsupported tool schemas are
  skipped; a schema that makes the registration raise ends `apex` with a traceback
  instead, since `main` and `serve_main` catch `ValueError` only.

## 4. Proofs

For every set of processes, callers, runs, tools, plans, registries, tasks,
workers, leases, branches and limits, from the assumptions named in the modules
only (plans are sequences of tool calls of bounded length, sentinels are distinct,
bounds are natural numbers).

| module | theorems | result |
|---|---|---|
| ExecutorSafety | `TypeCorrect`, `InductiveInvariant` | `Spec => []TypeOK`, `Spec => []IInv` |
| | `AtMostOnceHolds`, `LedgerTellsTruthHolds`, `OrderedEffectsHolds`, `SoleDispatcherHolds`, `ExitTellsOutcomeHolds`, `ExecutesAsBoundHolds` | the invariants of the ledger |
| ExecutorPromise | `DoubtFreezesRunHolds`, `OnlyCrashesAbandonHolds` | an uncertain step freezes its run; races alone abandon none |
| | `KeepsPromiseHolds` | Executor implements RunPromise |
| | `WorkCountsDownHolds` | every step of a process brings it nearer to its reply |
| ServerProofs | `ServerImplementsExecutor`, `ServedAtMostOnce`, `ServedKeepsPromise` | what the API starts or recovers is what the processes may do |
| | `ServerInvariant`, `ServerTyped`, `OneRunPerAuthorizationHolds`, `AnswerTellsRunHolds` | a submission is run once, as approved, and truly answered |
| SandboxProofs | `SandboxTyped`, `TetheredHolds`, `ResultIsWholeHolds` | nothing outlives its controller; results are whole |
| HarnessProofs | `HarnessInvariant`, `HarnessTyped`, `OneAuthorityHolds`, `ExclusiveWorkHolds`, `RetriesNeedEvidenceHolds`, `StateTellsAttemptsHolds`, `CommittedWithinLimitsHolds`, `OutcomesAreFinalHolds` | the invariants of the run `harness`, and what they imply of a task's outcome |
| | `KeepsLifecycleHolds` | HarnessStore implements TaskLifecycle |
| RemoteProofs | `AppliedAsAllowedHolds` | a request is applied no more often than allowed |
| SwarmProofs | `SwarmInvariant`, `SwarmTyped`, `OneBatchAtATimeHolds`, `RowsTellWorkersHolds`, `ResultCountsFailuresHolds` | every safety property of the run `swarm` |
| RsiProofs | `RsiInvariant`, `RsiTyped`, `EveryCommitAdmittedHolds`, `AcceptedCumulativeHolds`, `EndsWhereItBeganHolds`, `AcceptedStayHolds`, `RunCountsDownHolds` | branches and the working tree, with three properties of the run `rsi`, and its end |
| | `MeasuredInvariant`, `MeasuredOKHolds`, `EveryCommitImprovesHolds`, `UntriedAreSlowerHolds` | the measurements, with the other properties of the run `rsi` |

### Along which argument

*Ledger and processes.* None of the safety properties is inductive alone: that a
tool is entered at most so often depends on who may still be about to enter it.
`IInv` adds

- `ReqOK` and `LedgerShape`: which process has a run, which steps have a row;
- `CursorOK`: everything a process has behind it, or holds as SUCCEEDED in its
  snapshot, *is* SUCCEEDED. This is why a stale snapshot is harmless: the only
  state it is used for is a final one;
- `AttemptOK`: the attempt counter counts the entries into the open step;
- `StatusOK`: the status about to be written is what the ledger says.

The proof that a step preserves `IInv` has two halves per action. The *ledger
half* shows that the row of the run that changes is still right. The *process
half* shows it for the process that moved; for all others a frame lemma
(`OthersKeep`) says that a change which keeps SUCCEEDED final, touches no step
another process owns, and keeps the immutable rows, keeps their invariants.
`SoleDispatcher` provides the middle condition.

*An uncertain step.* A process that could still act on the run is either at a step
before the doubtful one (then `OrderedEffects` says that step is SUCCEEDED and is
not dispatched), at the doubtful one (then the compare-and-set refuses it), or
behind it (then `CursorOK` contradicts the doubt).

*Abandoned runs.* `OnlyCrashesAbandon` needs to know who finishes what others are
refused. `Leads` names a process that has the run and will not be refused: one
whose step is open or that is about to finish, one that may still bind, or one
between steps of a run without uncertain steps whose snapshot shows everything
that is confirmed ahead of it. `Led` says that every unfinished run no crash has
hit has one. A process that is refused was refused by a row another one wrote, and
that one leads.

*Refinement.* `KeepsPromise` is a step simulation: accepting a plan (`Begin`) is
`Accept`, the dispatch of a step is `Open`, the entry into its tool is `Enter`,
its observation is `Confirm` or `Lose`, the finish of a run is `Close`, and
everything else stutters. A crash stutters as well, which is the point: the
promise does not know of crashes.

*Server.* The only thing to show is that each request the server takes is one the
executor accepts; `WireOK` says so of all that wait. Everything proved of
`Executor` then holds of the API.

That a caller is told the truth needs more, and `ServerInv` says it: where each
submission stands (in the queue once, at the server, or neither), that only the
server begins runs and does so for the submission it serves, and that a submission
that waits or is just being begun has no run yet. A second run would need a second
place in the queue. With `ExitTellsOutcome` an exit code 0 is then true for good.

*Sandbox.* The invariant ties the stages to what may have been written: before
Bubblewrap there is neither a candidate nor a banner, behind it the limits are
applied, and exit code 0 comes from the candidate only; what the controller has
read at each of its steps is the rest. `Tethered` is inductive beside it.

*Harness store.* `HInv` makes the tables agree row by row: a lease is in a task's
`active_lease` exactly while unreleased, a lease is released by its attempt or because
it has expired, and a task has at most one decisive attempt, from which its state
follows. Work that may still go on after an expiry is separated by time: a lease is
only reaped when its expiry lies behind the clock.

*The life of a task.* `KeepsLifecycle` is again a step simulation, from `HInv`.
`reap_expired` takes grants back, and so does `acquire_lease` before it gives one:
the resource it then finds free serves no task but those whose grants it took.
`record_attempt` is a report, because a lease that is not the task's `active_lease`
any more is refused; the attempts of a task count its reports, since a reaped lease
leaves none. `commit_accepted` publishes the one accepted attempt, and stutters
when it is called again; so does the clock.

*Counting down.* For every process `Ahead` is a number of steps computed from where
it stands, the length of its plan, the step and the attempt. Each of its steps makes
that number smaller, and no other process makes it larger, because none touches
its locals. A run of `apex rsi` counts cycles, candidates and the pool in the same
way; that the pool never holds more than was tried is the invariant it needs. The
two theorems are what can be proved of the end of a run: what is left to TLC for a
process is that one which keeps going can go on (`RunsSettle`). A run of `apex rsi`
always has a next step, because each of its commands may raise.

*Requests.* What was applied plus the copies under way is at most one more than the
retries used that may repeat an effect, and no more than those while the client
is connecting again.

*Swarm.* A task is before, in or behind the batch at hand, and that decides what
its worker and its rows may be; the counters are cardinalities of sets of tasks.

*Recursive self-improvement.* The invariant says for each place in `run_rsi` which
branch is checked out, whether the working tree is clean and which branches
exist; a later run inherits only what the end of the one before leaves. That a
commit holds exactly the admitted change on top of the measured sources follows
from the clean tree when the patch is applied. A branch that was not accepted holds
what its parent holds unless a commit was made on it, and then an exception is on
its way (`TrialOK`): so whether git deletes it or not, nothing new outlives a run
that ends by itself.

*Measurements.* Every step of `RsiMeasured` is one of `RsiCycle`, so `RsiInv` holds,
and beside it `MeasuredInv`: who is in the pool passed in training, every admission
has evidence that passed on both cohorts, and nothing left in the pool is ahead of
what is committed. The rest is about three numbers: all but one are at least their
median, and all but one are at most it (`MedianSides`), so a difference between two
medians is one between all runs but one on each side.

### Only model-checked

`RunsSettle`, `BatchEnds`, `RequestsLeave`, `EvaluationEnds` and
`StartupCompletes`: liveness under fairness is out of the prover's
reach, but see *Counting down*. Every other property a passing run checks is proved.

### Only proved

`StateTellsAttempts`, `CommittedWithinLimits` and `OutcomesAreFinal` of
HarnessStore and `EveryCommitAdmitted` of RsiCycle are theorems that no run checks.
`KeepsLifecycle` has the order of states, reports and publications in another form,
`EveryCommitImproves` asks more than `EveryCommitAdmitted`, and the limits of a
committed result are those its lease was granted under, since specs never change.

## 5. Not modelled, and why

- Dry, simulate and diff replays, export, evidence reports and benchmarks read
  and print. The RAG adapters re-export another package. The argument parsers
  and the configuration are read once. Providers are external.
- Server: a wrong API key or a malformed body is refused before anything changes.
- Plans: how a model is asked for one, and its syntax. `parse_plan` is modelled by
  what an executed plan must be (known tools, accepted arguments, limit with the
  halt); which arguments a schema accepts is a parameter of the registry.
- MCP: headers and the translation of schemas; they decide whether a definition is
  registered, skipped or raises, which the model chooses.
- API clients: `_rate_limit` waits between calls of one client object. It is local
  to its process, takes no lock and is bypassed by transport retries, so it bounds
  nothing that could be stated of the service.
- Sandbox: the mounts and limits themselves are arguments of external programs.
- Recursive self-improvement: how a patch is asked for, parsed and restricted to
  the allowed files. The measurements are whole numbers where the code has floats;
  the volume of work is a constant of the benchmark, so the check that it agrees is
  left out; and the later measurement of a patch that is generated twice counts.
- Three hazards have no property. An expired lease does not count as an attempt, so
  a worker that always dies is retried without bound (`harness.py:369`); nothing in
  the package promises a bound. And the working tree of a run of `apex rsi` is
  checked once at its start (`rsi.py:432`): an edit by hand in between would be
  committed with a candidate. `docs/rsi.md` asks for a tree one can discard, and
  the model lets the operator act between runs only. And a server that returns a
  `nextCursor` for ever keeps start-up listing (`mcp.py:239`): nothing bounds the
  pages, so `StartupCompletes` has to assume that listings end.
- Sandbox: an `execve` of Bubblewrap that fails behind the banner gives exit code 125
  and reads like a candidate that failed; the model has it, and `ResultIsWhole`
  therefore says of exit code 0 only that it is the candidate's own.

## 6. What is left

1. Count-downs for the swarm's dispatcher and for the sandbox's controller, beside
   `BatchEnds` and `EvaluationEnds`.
2. The restriction of a candidate patch to the allowed files (`_validate_patch`).
