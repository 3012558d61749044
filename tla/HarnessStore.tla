---------------------------- MODULE HarnessStore ----------------------------
(***************************************************************************)
(* packages/harness/axiom_harness/harness.py: the SQLite store through     *)
(* which any number of workers and coordinators lease tasks, record        *)
(* attempts and commit results.  A public method is one BEGIN IMMEDIATE    *)
(* transaction, hence one action; a refused call rolls back and changes    *)
(* nothing.  Callers are free: any method may be called at any time with   *)
(* any arguments, so a worker that dies simply calls no more.              *)
(*                                                                         *)
(* A method reads the clock (_now) before it waits up to five seconds for  *)
(* the write lock, so the time it works with may be stale when its         *)
(* transaction runs.  An attempt is identified with its lease              *)
(* (attempts.lease_id is UNIQUE), a digest with whether it is the expected *)
(* one.                                                                    *)
(***************************************************************************)
EXTENDS Naturals, FiniteSets

CONSTANTS
  Tasks, Resources,
  Leases,         \* lease ids (bounds the number of leases granted)
  Capabilities,
  TaskSpecs,      \* the task specs that may be submitted
  ResourceSpecs,  \* the resource specs that may be registered
  Sizes,          \* sizes of a context handed to a worker
  Ttls,           \* values of ttl_seconds
  MaxTime,        \* bound of the clock
  LockWait,       \* how stale a time may be when its transaction runs
  NoLimit,        \* context_budget or context_limit None
  Nothing         \* an absent row, or NULL

VARIABLES
  spec,      \* spec[t]: immutable row of tasks
  resource,  \* resource[r]: immutable row of resources
  state,     \* state[t]: column state of task_state
  active,    \* active[t]: column active_lease_id of task_state
  leases,    \* leases[l]: row of leases
  attempts,  \* attempts[l]: row of attempts recorded under lease l
  canonical, \* canonical[t]: the attempt of canonical_results
  clock      \* the wall clock

vars == <<spec, resource, state, active, leases, attempts, canonical, clock>>

TaskStates == {"READY", "LEASED", "BLOCKED", "UNKNOWN", "FAILED", "COMMITTED"}
Outcomes == {"FAILED", "REJECTED", "UNKNOWN", "ACCEPTED"}

Limits == Nat \cup {NoLimit}
TaskSpec == [caps : SUBSET Capabilities, mutation : 0..4, budget : Limits, retries : Nat]
ResourceSpec ==
  [caps : SUBSET Capabilities, mutation : 0..4, zeroSpend : BOOLEAN, limit : Limits]
Lease == [task : Tasks, resource : Resources, size : Sizes, expires : Nat, released : BOOLEAN]
Attempt == [outcome : Outcomes, retrySafe : BOOLEAN]

ASSUME SpecsAssumption == TaskSpecs \subseteq TaskSpec /\ ResourceSpecs \subseteq ResourceSpec
ASSUME HarnessNumbers ==
  Sizes \subseteq Nat /\ Ttls \subseteq Nat \ {0} /\ MaxTime \in Nat /\ LockWait \in Nat
ASSUME HarnessSentinels ==
  /\ NoLimit \notin Nat /\ Nothing \notin Resources
  /\ Nothing \notin Lease /\ Nothing \notin Attempt /\ Nothing \notin Leases
  /\ Nothing \notin TaskSpec /\ Nothing \notin ResourceSpec /\ Nothing \notin TaskStates

-----------------------------------------------------------------------------

\* The times a method may work with when its transaction runs.
Now == {t \in 0..clock : clock <= t + LockWait}

Fits(size, limit) == limit # NoLimit => size <= limit

\* _eligible
Eligible(task, res) ==
  /\ res.zeroSpend
  /\ task.caps \subseteq res.caps
  /\ res.mutation >= task.mutation
  /\ task.budget # NoLimit => Fits(task.budget, res.limit)

Unreleased(l) == leases[l] # Nothing /\ ~leases[l].released

\* MUTANT of Expired: a lease is reaped one second early.
ExpiredEarly(now) == {l \in Leases : Unreleased(l) /\ leases[l].expires <= now + 1}

\* The SELECT of _reap_expired_tx.
Expired(now) == {l \in Leases : Unreleased(l) /\ leases[l].expires <= now}

\* The attempts at a task.
Tried(t) == {l \in Leases : attempts[l] # Nothing /\ leases[l].task = t}

\* The tasks _reap_expired_tx returns to READY.
Recovered(now) == {t \in Tasks : state[t] = "LEASED" /\ active[t] \in Expired(now)}

ReapedLeases(now) ==
  [l \in Leases |-> IF l \in Expired(now) THEN [leases[l] EXCEPT !.released = TRUE]
                    ELSE leases[l]]
ReapedState(now) == [t \in Tasks |-> IF t \in Recovered(now) THEN "READY" ELSE state[t]]

\* MUTANT of ReapedActive: the task keeps its lease id.
ReapedActiveKept(now) == active

ReapedActive(now) == [t \in Tasks |-> IF t \in Recovered(now) THEN Nothing ELSE active[t]]

-----------------------------------------------------------------------------

\* submit_task: idempotent for the same spec, refused for another one.
SubmitTask(t, s) ==
  /\ spec[t] \in {Nothing, s}
  /\ spec' = [spec EXCEPT ![t] = s]
  /\ state' = [state EXCEPT ![t] = IF spec[t] = Nothing THEN "READY" ELSE @]
  /\ UNCHANGED <<resource, active, leases, attempts, canonical, clock>>

\* register_resource: likewise.
RegisterResource(r, s) ==
  /\ resource[r] \in {Nothing, s}
  /\ resource' = [resource EXCEPT ![r] = s]
  /\ UNCHANGED <<spec, state, active, leases, attempts, canonical, clock>>

\* reap_expired
Reap(now) ==
  /\ Expired(now) # {}
  /\ leases' = ReapedLeases(now)
  /\ state' = ReapedState(now)
  /\ active' = ReapedActive(now)
  /\ UNCHANGED <<spec, resource, attempts, canonical, clock>>

\* The state check and the unique indices of acquire_lease, after reaping: a
\* refusal takes the reaping back with it.
LeaseFree(l, t, r, now) ==
  /\ leases[l] = Nothing
  /\ ReapedState(now)[t] = "READY"
  /\ \A k \in Leases : Unreleased(k) /\ k \notin Expired(now) =>
       leases[k].task # t /\ leases[k].resource # r

\* acquire_lease; the lease runs from the time read before the lock wait.
Acquire(l, t, r, size, ttl, now) ==
  /\ spec[t] # Nothing /\ resource[r] # Nothing
  /\ Eligible(spec[t], resource[r])
  /\ Fits(size, spec[t].budget) /\ Fits(size, resource[r].limit)
  /\ LeaseFree(l, t, r, now)
  /\ leases' = [ReapedLeases(now) EXCEPT ![l] =
       [task |-> t, resource |-> r, size |-> size, expires |-> now + ttl, released |-> FALSE]]
  /\ state' = [ReapedState(now) EXCEPT ![t] = "LEASED"]
  /\ active' = [ReapedActive(now) EXCEPT ![t] = l]
  /\ UNCHANGED <<spec, resource, attempts, canonical, clock>>

\* MUTANT of NextState: the retryable task gets a state of its own.
NextStateUndeclared(t, outcome, retrySafe) ==
  IF outcome = "ACCEPTED" THEN "BLOCKED"
  ELSE IF outcome = "UNKNOWN" THEN "UNKNOWN"
  ELSE IF retrySafe /\ Cardinality(Tried(t)) + 1 <= spec[t].retries THEN "RETRY"
  ELSE "FAILED"

\* MUTANT of NextState: the attempt being recorded is not counted.
NextStateOneMore(t, outcome, retrySafe) ==
  IF outcome = "ACCEPTED" THEN "BLOCKED"
  ELSE IF outcome = "UNKNOWN" THEN "UNKNOWN"
  ELSE IF retrySafe /\ Cardinality(Tried(t)) <= spec[t].retries THEN "READY"
  ELSE "FAILED"

\* The task's state after one more attempt.
NextState(t, outcome, retrySafe) ==
  IF outcome = "ACCEPTED" THEN "BLOCKED"
  ELSE IF outcome = "UNKNOWN" THEN "UNKNOWN"
  ELSE IF retrySafe /\ Cardinality(Tried(t)) + 1 <= spec[t].retries THEN "READY"
  ELSE "FAILED"

\* MUTANT of RecordAttempt: an answer that comes in time is taken whether or not
\* its lease is still the task's authority.
RecordAttemptAnyLease(l, outcome, retrySafe, completed) ==
  /\ outcome = "UNKNOWN" => ~retrySafe
  /\ leases[l] # Nothing /\ leases[l].expires > completed
  /\ attempts[l] = Nothing
  /\ LET t == leases[l].task IN
       /\ attempts' = [attempts EXCEPT ![l] = [outcome |-> outcome, retrySafe |-> retrySafe]]
       /\ leases' = [leases EXCEPT ![l].released = TRUE]
       /\ state' = [state EXCEPT ![t] = NextState(t, outcome, retrySafe)]
       /\ active' = [active EXCEPT ![t] = Nothing]
  /\ UNCHANGED <<spec, resource, canonical, clock>>

\* record_attempt; the caller may say when the work was completed.  A lease
\* expired by then is refused, and the reaping that comes before the refusal
\* is rolled back with it.
RecordAttempt(l, outcome, retrySafe, completed) ==
  /\ outcome = "UNKNOWN" => ~retrySafe
  /\ Unreleased(l)
  /\ leases[l].expires > completed
  /\ attempts[l] = Nothing
  /\ LET t == leases[l].task IN
       /\ state[t] = "LEASED" /\ active[t] = l
       /\ attempts' = [attempts EXCEPT ![l] = [outcome |-> outcome, retrySafe |-> retrySafe]]
       /\ leases' = [leases EXCEPT ![l].released = TRUE]
       /\ state' = [state EXCEPT ![t] = NextState(t, outcome, retrySafe)]
       /\ active' = [active EXCEPT ![t] = Nothing]
  /\ UNCHANGED <<spec, resource, canonical, clock>>

\* commit_accepted; for the canonical attempt it returns the stored receipt.
CommitAccepted(l) ==
  /\ attempts[l] # Nothing /\ attempts[l].outcome = "ACCEPTED"
  /\ LET t == leases[l].task IN
       \/ /\ canonical[t] = l
          /\ UNCHANGED <<canonical, state, active>>
       \/ /\ canonical[t] = Nothing
          /\ state[t] = "BLOCKED"
          /\ canonical' = [canonical EXCEPT ![t] = l]
          /\ state' = [state EXCEPT ![t] = "COMMITTED"]
          /\ active' = [active EXCEPT ![t] = Nothing]
  /\ UNCHANGED <<spec, resource, leases, attempts, clock>>

Tick ==
  /\ clock < MaxTime
  /\ clock' = clock + 1
  /\ UNCHANGED <<spec, resource, state, active, leases, attempts, canonical>>

-----------------------------------------------------------------------------

Init ==
  /\ spec = [t \in Tasks |-> Nothing]
  /\ resource = [r \in Resources |-> Nothing]
  /\ state = [t \in Tasks |-> Nothing]
  /\ active = [t \in Tasks |-> Nothing]
  /\ leases = [l \in Leases |-> Nothing]
  /\ attempts = [l \in Leases |-> Nothing]
  /\ canonical = [t \in Tasks |-> Nothing]
  /\ clock = 0

Next ==
  \/ \E t \in Tasks, s \in TaskSpecs : SubmitTask(t, s)
  \/ \E r \in Resources, s \in ResourceSpecs : RegisterResource(r, s)
  \/ \E now \in Now : Reap(now)
  \/ \E l \in Leases, t \in Tasks, r \in Resources, size \in Sizes, ttl \in Ttls, now \in Now :
       Acquire(l, t, r, size, ttl, now)
  \/ \E l \in Leases, outcome \in Outcomes, retrySafe \in BOOLEAN, completed \in 0..clock :
       RecordAttempt(l, outcome, retrySafe, completed)
  \/ \E l \in Leases : CommitAccepted(l)
  \/ Tick

Spec == Init /\ [][Next]_vars

-----------------------------------------------------------------------------
\* Properties

\* Every variable keeps its type.
TypeOK ==
  /\ spec \in [Tasks -> TaskSpecs \cup {Nothing}]
  /\ resource \in [Resources -> ResourceSpecs \cup {Nothing}]
  /\ state \in [Tasks -> TaskStates \cup {Nothing}]
  /\ active \in [Tasks -> Leases \cup {Nothing}]
  /\ leases \in [Leases -> Lease \cup {Nothing}]
  /\ attempts \in [Leases -> Attempt \cup {Nothing}]
  /\ canonical \in [Tasks -> Leases \cup {Nothing}]
  /\ clock \in 0..MaxTime

\* task_state and leases, two tables that reaping, leasing and recording
\* update in turn, name the same authority: a task is LEASED exactly while its
\* active lease is its one unreleased lease.
OneAuthority ==
  /\ \A t \in Tasks :
       {l \in Leases : Unreleased(l) /\ leases[l].task = t} =
         IF state[t] = "LEASED" THEN {active[t]} ELSE {}
  /\ \A t \in Tasks : active[t] # Nothing <=> state[t] = "LEASED"

\* A worker may still be at work under a lease until it expires or has an
\* attempt: two such leases never share a task or a resource, however stale
\* the time that reaped or granted one of them.
AtWork(l) == leases[l] # Nothing /\ attempts[l] = Nothing /\ clock < leases[l].expires

ExclusiveWork ==
  \A k, l \in Leases : AtWork(k) /\ AtWork(l) /\ k # l =>
    leases[k].task # leases[l].task /\ leases[k].resource # leases[l].resource

RetrySafeFailure(l) ==
  attempts[l].outcome \in {"FAILED", "REJECTED"} /\ attempts[l].retrySafe

\* Retries are bounded and need positive evidence (README of axiom-harness): a
\* task has at most retry_budget + 1 attempts, at most one of them is anything
\* else than a retry-safe failure, and after that one it is never leased.
RetriesNeedEvidence ==
  \A t \in Tasks :
    LET decisive == {l \in Tried(t) : ~RetrySafeFailure(l)} IN
      /\ Tried(t) # {} => Cardinality(Tried(t)) <= spec[t].retries + 1
      /\ Cardinality(decisive) <= 1
      /\ decisive # {} => state[t] \notin {"READY", "LEASED"}

\* The state of a task tells its attempts apart: BLOCKED holds exactly one
\* accepted attempt that is not canonical yet, COMMITTED one that is, UNKNOWN
\* an attempt with an unknown outcome.
StateTellsAttempts ==
  \A t \in Tasks :
    LET having(o) == {l \in Tried(t) : attempts[l].outcome = o} IN
      /\ canonical[t] # Nothing => having("ACCEPTED") = {canonical[t]}
      /\ state[t] = "COMMITTED" <=> canonical[t] # Nothing
      /\ state[t] = "BLOCKED" <=> having("ACCEPTED") # {} /\ canonical[t] = Nothing
      /\ state[t] = "UNKNOWN" <=> having("UNKNOWN") # {}

\* What is committed was produced within the task's limits: by a resource
\* whose registered spec costs nothing and has the task's capabilities and
\* mutation class, from a context within both budgets.
CommittedWithinLimits ==
  \A t \in Tasks : canonical[t] # Nothing =>
    LET lease == leases[canonical[t]]
        res == resource[lease.resource]
    IN /\ lease.task = t
       /\ res.zeroSpend /\ spec[t].caps \subseteq res.caps
       /\ spec[t].mutation <= res.mutation
       /\ Fits(lease.size, spec[t].budget) /\ Fits(lease.size, res.limit)

\* FAILED, UNKNOWN and COMMITTED are final, a BLOCKED task is only committed,
\* and a recorded attempt or a canonical result is never replaced, whatever
\* late workers and repeated calls do.
OutcomesAreFinal ==
  [][/\ \A t \in Tasks :
          /\ state[t] \in {"FAILED", "UNKNOWN", "COMMITTED"} => state'[t] = state[t]
          /\ state[t] = "BLOCKED" => state'[t] \in {"BLOCKED", "COMMITTED"}
          /\ canonical[t] # Nothing => canonical'[t] = canonical[t]
     /\ \A l \in Leases : attempts[l] # Nothing => attempts'[l] = attempts[l]]_vars

-----------------------------------------------------------------------------
\* The store implements TaskLifecycle

\* The resource at work on a task, the leases granted and those with an attempt,
\* the attempts a task may have, its accepted ones, and the canonical one.
Place(t) == IF active[t] = Nothing THEN Nothing ELSE leases[active[t]].resource
Given == {l \in Leases : leases[l] # Nothing}
Reported == {l \in Leases : attempts[l] # Nothing}
Allowed(t) == IF spec[t] = Nothing THEN 0 ELSE spec[t].retries + 1
Accepted(t) == {l \in Tried(t) : attempts[l].outcome = "ACCEPTED"}
Published(t) == IF canonical[t] = Nothing THEN {} ELSE {canonical[t]}

Life == INSTANCE TaskLifecycle WITH
  Grants <- Leases,
  phase <- state,
  holder <- active,
  place <- [t \in Tasks |-> Place(t)],
  given <- Given,
  reported <- Reported,
  reports <- [t \in Tasks |-> Cardinality(Tried(t))],
  allowed <- [t \in Tasks |-> Allowed(t)],
  accepted <- [t \in Tasks |-> Accepted(t)],
  published <- [t \in Tasks |-> Published(t)]

\* Whatever workers, coordinators and clocks do, and however late and often they
\* call, a task lives the life of TaskLifecycle: in particular a lease that was
\* reaped, also in the call that leases its task anew, never reports.
KeepsLifecycle == Life!Spec
=============================================================================
