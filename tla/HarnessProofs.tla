--------------------------- MODULE HarnessProofs ---------------------------
(***************************************************************************)
(* Proofs about HarnessStore, for any number of tasks, resources, leases   *)
(* and callers, any specs, any clock and any lock wait.                    *)
(*                                                                         *)
(* No property of the store is inductive alone: who may record an attempt  *)
(* depends on the lease that is active, and that on what was reaped.  The  *)
(* invariant says, row by row, how leases, task_state and attempts agree.  *)
(***************************************************************************)
EXTENDS HarnessStore, FiniteSetTheorems, TLAPS

\* A lease was granted for rows that exist, by a resource that was eligible.
GrantOf(l) ==
  /\ spec[leases[l].task] # Nothing /\ resource[leases[l].resource] # Nothing
  /\ Eligible(spec[leases[l].task], resource[leases[l].resource])
  /\ Fits(leases[l].size, spec[leases[l].task].budget)
  /\ Fits(leases[l].size, resource[leases[l].resource].limit)

GrantOK == \A l \in Leases : leases[l] # Nothing => GrantOf(l)

\* task_state has a row exactly for the tasks.
RowsOK == \A t \in Tasks : state[t] = Nothing <=> spec[t] = Nothing

\* An unreleased lease is the active lease of its task, and the other way round;
\* no two of them are for one resource.
ActiveOK ==
  /\ \A l \in Leases : Unreleased(l) =>
       state[leases[l].task] = "LEASED" /\ active[leases[l].task] = l
  /\ \A t \in Tasks : state[t] = "LEASED" =>
       active[t] \in Leases /\ Unreleased(active[t]) /\ leases[active[t]].task = t
  /\ \A t \in Tasks : active[t] # Nothing => state[t] = "LEASED"
  /\ \A k, l \in Leases : Unreleased(k) /\ Unreleased(l) /\ k # l =>
       leases[k].resource # leases[l].resource

\* A lease is released by its attempt, or because it has expired.
ReleaseOK ==
  \A l \in Leases :
    /\ attempts[l] # Nothing => leases[l] # Nothing /\ leases[l].released
    /\ leases[l] # Nothing /\ leases[l].released /\ attempts[l] = Nothing =>
         leases[l].expires <= clock

\* An attempt at t that is not a retry-safe failure.
Decisive(l, t) == attempts[l] # Nothing /\ leases[l].task = t /\ ~RetrySafeFailure(l)

\* The state in which a decisive attempt leaves its task.
TellsVerdict(l, t) ==
  /\ attempts[l].outcome = "ACCEPTED" => state[t] \in {"BLOCKED", "COMMITTED"}
  /\ attempts[l].outcome = "UNKNOWN" => state[t] = "UNKNOWN"
  /\ attempts[l].outcome \in {"FAILED", "REJECTED"} => state[t] = "FAILED"

\* A task has one decisive attempt at most, and its state follows from it.
VerdictOf(t) ==
  /\ \A k, l \in Leases : Decisive(k, t) /\ Decisive(l, t) => k = l
  /\ \A l \in Leases : Decisive(l, t) => TellsVerdict(l, t)
  /\ state[t] \in {"BLOCKED", "COMMITTED"} =>
       \E l \in Leases : Decisive(l, t) /\ attempts[l].outcome = "ACCEPTED"
  /\ state[t] = "UNKNOWN" =>
       \E l \in Leases : Decisive(l, t) /\ attempts[l].outcome = "UNKNOWN"
  /\ state[t] = "COMMITTED" <=> canonical[t] # Nothing
  /\ canonical[t] # Nothing =>
       Decisive(canonical[t], t) /\ attempts[canonical[t]].outcome = "ACCEPTED"

\* The attempts at a task are within its budget, with one to go while it is open.
CountOf(t) ==
  /\ IsFiniteSet(Tried(t))
  /\ Tried(t) # {} => Cardinality(Tried(t)) <= spec[t].retries + 1
  /\ Tried(t) # {} /\ state[t] \in {"READY", "LEASED"} =>
       Cardinality(Tried(t)) <= spec[t].retries

VerdictOK == \A t \in Tasks : VerdictOf(t)
CountOK == \A t \in Tasks : CountOf(t)

HInv == TypeOK /\ GrantOK /\ RowsOK /\ ActiveOK /\ ReleaseOK /\ VerdictOK /\ CountOK

USE SpecsAssumption, HarnessNumbers, HarnessSentinels

-----------------------------------------------------------------------------
\* What holds of every step

\* Attempts that stay, under leases whose tasks stay, are the same attempts.
LEMMA SameAttempts ==
  ASSUME UNCHANGED attempts, NEW t \in Tasks,
         \A l \in Leases : attempts[l] # Nothing => leases'[l].task = leases[l].task
  PROVE  /\ Tried(t)' = Tried(t)
         /\ \A l \in Leases : Decisive(l, t)' <=> Decisive(l, t)
  BY DEF Tried, Decisive, RetrySafeFailure

\* The invariant holds of the empty store.
LEMMA HarnessInit == Init => HInv
<1> SUFFICES ASSUME Init PROVE HInv
  OBVIOUS
<1>1. \A t \in Tasks : Tried(t) = {}
  BY DEF Init, Tried
<1>2. TypeOK
  BY DEF Init, TypeOK
<1>3. CountOK
  BY <1>1, FS_EmptySet DEF CountOK, CountOf
<1>4. GrantOK /\ RowsOK /\ ActiveOK /\ ReleaseOK /\ VerdictOK
  BY DEF Init, GrantOK, RowsOK, ActiveOK, ReleaseOK, VerdictOK, VerdictOf, Decisive, Unreleased,
      TaskStates
<1> QED
  BY <1>2, <1>3, <1>4 DEF HInv

\* Submitting, registering and the passing of time keep the invariant.
LEMMA QuietKeeps ==
  ASSUME HInv,
         \/ \E t \in Tasks, s \in TaskSpecs : SubmitTask(t, s)
         \/ \E r \in Resources, s \in ResourceSpecs : RegisterResource(r, s)
         \/ Tick
  PROVE  HInv'
<1> USE DEF HInv
<1>1. TypeOK'
  BY DEF TypeOK, SubmitTask, RegisterResource, Tick, TaskStates
<1>2. UNCHANGED <<leases, attempts, active, canonical>>
  BY DEF SubmitTask, RegisterResource, Tick
<1>3. \A t \in Tasks : Tried(t)' = Tried(t) /\ \A l \in Leases : Decisive(l, t)' <=> Decisive(l, t)
  BY <1>2, SameAttempts
<1>4. \A t \in Tasks : spec[t] # Nothing => spec'[t] = spec[t] /\ state'[t] = state[t]
  BY DEF SubmitTask, RegisterResource, Tick, TypeOK
<1>5. \A r \in Resources : resource[r] # Nothing => resource'[r] = resource[r]
  BY DEF SubmitTask, RegisterResource, Tick, TypeOK
<1>6. RowsOK'
  BY DEF SubmitTask, RegisterResource, Tick, TypeOK, RowsOK, TaskStates
<1>7. \A l \in Leases : leases[l] # Nothing => leases[l].task \in Tasks /\ leases[l].resource \in Resources
  BY DEF TypeOK, Lease
<1>8. GrantOK'
  BY <1>2, <1>4, <1>5, <1>7 DEF GrantOK, GrantOf, Eligible, Fits
<1>9. \A t \in Tasks : state'[t] # state[t] => spec[t] = Nothing /\ state[t] = Nothing /\ state'[t] = "READY"
  BY <1>4 DEF SubmitTask, RegisterResource, Tick, TypeOK, RowsOK
<1>10. ActiveOK'
  BY <1>2, <1>7, <1>9 DEF ActiveOK, Unreleased, GrantOK, GrantOf, TypeOK
<1>11. ReleaseOK'
  BY <1>2, <1>7 DEF ReleaseOK, SubmitTask, RegisterResource, Tick, TypeOK, Lease
<1>12. \A t \in Tasks : spec[t] = Nothing => Tried(t) = {} /\ \A l \in Leases : ~Decisive(l, t)
  BY <1>7 DEF Tried, Decisive, GrantOK, GrantOf, ReleaseOK
<1>13. VerdictOK'
  <2> SUFFICES ASSUME NEW t \in Tasks PROVE VerdictOf(t)'
    BY DEF VerdictOK
  <2>1. CASE state'[t] = state[t]
    BY <2>1, <1>2, <1>3 DEF VerdictOK, VerdictOf, TellsVerdict, TypeOK
  <2>2. CASE state'[t] # state[t]
    <3>1. canonical'[t] = Nothing /\ state'[t] = "READY"
      BY <2>2, <1>2, <1>9 DEF VerdictOK, VerdictOf, TaskStates
    <3>2. \A l \in Leases : ~Decisive(l, t)'
      BY <2>2, <1>3, <1>9, <1>12
    <3> QED
      BY <3>1, <3>2 DEF VerdictOf
  <2> QED
    BY <2>1, <2>2
<1>14. CountOK'
  BY <1>2, <1>3, <1>4, <1>9, <1>12 DEF CountOK, CountOf
<1> QED
  BY <1>1, <1>6, <1>8, <1>10, <1>11, <1>13, <1>14

-----------------------------------------------------------------------------
\* Reaping and leasing

\* What reaping does to one lease and to one task.
LEMMA Reaping ==
  ASSUME HInv, NEW now \in Now
  PROVE  /\ \A l \in Leases : leases[l] # Nothing => leases[l].expires \in Nat
         /\ \A l \in Expired(now) :
              /\ Unreleased(l) /\ leases[l].expires <= clock
              /\ leases[l].task \in Recovered(now)
         /\ \A t \in Recovered(now) : active[t] \in Expired(now) /\ state[t] = "LEASED"
         /\ \A t \in Tasks \ Recovered(now) :
              state[t] = "LEASED" => active[t] \notin Expired(now)
  BY DEF HInv, TypeOK, ActiveOK, Expired, Recovered, Unreleased, Lease, Now

\* Reaping changes nothing of a row but that it is released.
LEMMA ReapedRow ==
  ASSUME HInv, NEW now \in Now, NEW l \in Leases
  PROVE  /\ leases[l] = Nothing => ReapedLeases(now)[l] = Nothing
         /\ leases[l] # Nothing =>
              /\ leases[l] \in Lease /\ ReapedLeases(now)[l] \in Lease
              /\ ReapedLeases(now)[l].task = leases[l].task
              /\ ReapedLeases(now)[l].resource = leases[l].resource
              /\ ReapedLeases(now)[l].size = leases[l].size
              /\ ReapedLeases(now)[l].expires = leases[l].expires
              /\ ReapedLeases(now)[l].released = (leases[l].released \/ l \in Expired(now))
<1>1. CASE leases[l] = Nothing
  BY <1>1 DEF ReapedLeases, Expired, Unreleased
<1>2. CASE leases[l] # Nothing
  <2>1. leases[l] \in Lease
    BY <1>2 DEF HInv, TypeOK
  <2>2. CASE l \notin Expired(now)
    BY <2>1, <2>2, <1>2 DEF Lease, ReapedLeases
  <2>3. CASE l \in Expired(now)
    <3>1. ReapedLeases(now)[l] = [leases[l] EXCEPT !.released = TRUE]
      BY <2>3 DEF ReapedLeases
    <3> QED
      BY <2>1, <2>3, <3>1 DEF Lease
  <2> QED
    BY <2>2, <2>3
<1> QED
  BY <1>1, <1>2

\* Reaping keeps the invariant.
LEMMA ReapKeeps ==
  ASSUME HInv, NEW now \in Now, Reap(now)
  PROVE  HInv'
<1> USE DEF HInv
<1>1. UNCHANGED <<spec, resource, attempts, canonical, clock>>
  BY DEF Reap
<1>2. /\ \A t \in Tasks : state'[t] = IF t \in Recovered(now) THEN "READY" ELSE state[t]
      /\ \A t \in Tasks : active'[t] = IF t \in Recovered(now) THEN Nothing ELSE active[t]
  BY DEF Reap, ReapedState, ReapedActive
<1>3. \A l \in Leases : leases[l] # Nothing =>
        /\ leases[l] \in Lease /\ leases'[l] \in Lease
        /\ leases'[l].task = leases[l].task /\ leases'[l].resource = leases[l].resource
        /\ leases'[l].size = leases[l].size /\ leases'[l].expires = leases[l].expires
        /\ leases'[l].released = (leases[l].released \/ l \in Expired(now))
  BY ReapedRow DEF Reap
<1>4. \A l \in Leases : leases[l] = Nothing => leases'[l] = Nothing
  BY ReapedRow DEF Reap
<1>5. TypeOK'
  <2>1. leases' \in [Leases -> Lease \cup {Nothing}]
    BY <1>3, <1>4 DEF Reap, ReapedLeases
  <2> QED
    BY <1>1, <2>1 DEF TypeOK, Reap, ReapedState, ReapedActive, TaskStates
<1>6. \A l \in Leases : Unreleased(l)' <=> Unreleased(l) /\ l \notin Expired(now)
  BY <1>3, <1>4 DEF Unreleased
<1>7. GrantOK'
  BY <1>1, <1>3, <1>4 DEF GrantOK, GrantOf, Eligible, Fits
<1>8. RowsOK'
  BY <1>1, <1>2, Reaping DEF RowsOK, TaskStates
<1>9. ActiveOK'
  BY <1>2, <1>3, <1>4, <1>6, Reaping DEF ActiveOK, Unreleased, TaskStates, Lease
<1>10. ReleaseOK'
  BY <1>1, <1>3, <1>4, Reaping, ZenonT(60) DEF ReleaseOK
<1>11. \A t \in Tasks : Tried(t)' = Tried(t) /\ \A l \in Leases : Decisive(l, t)' <=> Decisive(l, t)
  BY <1>1, <1>3, SameAttempts DEF ReleaseOK
<1>12. VerdictOK'
  <2> SUFFICES ASSUME NEW t \in Tasks PROVE VerdictOf(t)'
    BY DEF VerdictOK
  <2>1. CASE t \in Recovered(now)
    <3>1. state[t] = "LEASED" /\ state'[t] = "READY"
      BY <2>1, <1>2, Reaping
    <3>2. \A l \in Leases : ~Decisive(l, t)
      BY <3>1 DEF VerdictOK, VerdictOf, TellsVerdict, Decisive, TypeOK, Attempt, Outcomes
    <3> QED
      BY <3>1, <3>2, <1>1, <1>11 DEF VerdictOK, VerdictOf
  <2>2. CASE t \notin Recovered(now)
    BY <2>2, <1>1, <1>2, <1>11 DEF VerdictOK, VerdictOf, TellsVerdict, TypeOK
  <2> QED
    BY <2>1, <2>2
<1>13. CountOK'
  BY <1>1, <1>2, <1>11, Reaping DEF CountOK, CountOf
<1> QED
  BY <1>5, <1>7, <1>8, <1>9, <1>10, <1>12, <1>13

\* Granting a lease, with the reaping before it, keeps the invariant.
LEMMA AcquireKeeps ==
  ASSUME HInv, NEW l \in Leases, NEW t \in Tasks, NEW r \in Resources, NEW size \in Sizes,
         NEW ttl \in Ttls, NEW now \in Now, Acquire(l, t, r, size, ttl, now)
  PROVE  HInv'
<1> USE DEF HInv
<1> DEFINE new == [task |-> t, resource |-> r, size |-> size, expires |-> now + ttl,
                   released |-> FALSE]
<1>1. /\ UNCHANGED <<spec, resource, attempts, canonical, clock>>
      /\ leases[l] = Nothing /\ attempts[l] = Nothing
      /\ l \notin Expired(now)
      /\ t \in Recovered(now) \/ state[t] = "READY"
  BY DEF Acquire, LeaseFree, ReapedState, ReleaseOK, Expired, Unreleased
<1>2. /\ \A u \in Tasks : state'[u] = IF u = t THEN "LEASED"
                                       ELSE IF u \in Recovered(now) THEN "READY" ELSE state[u]
      /\ \A u \in Tasks : active'[u] = IF u = t THEN l
                                        ELSE IF u \in Recovered(now) THEN Nothing ELSE active[u]
  BY DEF Acquire, ReapedState, ReapedActive
<1>3. new \in Lease
  BY DEF Lease, Now, TypeOK
<1>4. /\ leases'[l] = new
      /\ \A k \in Leases \ {l} : leases'[k] = ReapedLeases(now)[k]
      /\ leases' \in [Leases -> Lease \cup {Nothing}]
  BY <1>3, ReapedRow DEF Acquire, ReapedLeases
<1>5. \A k \in Leases : leases[k] # Nothing =>
        /\ k # l
        /\ leases[k] \in Lease /\ leases'[k] \in Lease
        /\ leases'[k].task = leases[k].task /\ leases'[k].resource = leases[k].resource
        /\ leases'[k].size = leases[k].size /\ leases'[k].expires = leases[k].expires
        /\ leases'[k].released = (leases[k].released \/ k \in Expired(now))
  BY <1>1, <1>4, ReapedRow
<1>6. \A k \in Leases : leases[k] = Nothing => k = l \/ leases'[k] = Nothing
  BY <1>4, ReapedRow
<1>7. /\ new # Nothing /\ new.task = t /\ new.resource = r /\ new.size = size
      /\ new.released = FALSE
  BY <1>3
<1> HIDE DEF new
<1>8. TypeOK'
  BY <1>1, <1>4 DEF TypeOK, Acquire, ReapedState, ReapedActive, TaskStates
<1>9. GrantOK'
  <2>1. /\ spec[t] # Nothing /\ resource[r] # Nothing
        /\ Eligible(spec[t], resource[r])
        /\ Fits(size, spec[t].budget) /\ Fits(size, resource[r].limit)
    BY DEF Acquire
  <2> SUFFICES ASSUME NEW k \in Leases, leases'[k] # Nothing PROVE GrantOf(k)'
    BY DEF GrantOK
  <2>2. CASE k = l
    BY <2>1, <2>2, <1>1, <1>4, <1>7 DEF GrantOf, Eligible, Fits
  <2>3. CASE k # l
    BY <2>3, <1>1, <1>5, <1>6 DEF GrantOK, GrantOf, Eligible, Fits
  <2> QED
    BY <2>2, <2>3
<1>10. RowsOK'
  BY <1>1, <1>2, Reaping DEF RowsOK, TaskStates, Acquire
<1>11. \A k \in Leases : Unreleased(k)' <=> k = l \/ (Unreleased(k) /\ k \notin Expired(now))
  BY <1>1, <1>4, <1>5, <1>6, <1>7 DEF Unreleased
<1>12. \A k \in Leases : Unreleased(k) /\ k \notin Expired(now) =>
         leases[k].task # t /\ leases[k].resource # r
  BY DEF Acquire, LeaseFree
<1>13. ActiveOK'
  BY <1>1, <1>2, <1>4, <1>5, <1>7, <1>11, <1>12, Reaping
     DEF ActiveOK, Unreleased, TaskStates, Lease
<1>14. ReleaseOK'
  <2> SUFFICES ASSUME NEW k \in Leases
               PROVE  /\ attempts'[k] # Nothing => leases'[k] # Nothing /\ leases'[k].released
                      /\ leases'[k] # Nothing /\ leases'[k].released /\ attempts'[k] = Nothing =>
                           leases'[k].expires <= clock'
    BY DEF ReleaseOK
  <2>1. CASE k = l
    BY <2>1, <1>1, <1>4, <1>7
  <2>2. CASE k # l /\ leases[k] = Nothing
    BY <2>2, <1>1, <1>6 DEF ReleaseOK
  <2>3. CASE leases[k] # Nothing
    <3>1. /\ attempts[k] # Nothing => leases[k].released
          /\ leases[k].released /\ attempts[k] = Nothing => leases[k].expires <= clock
      BY <2>3 DEF ReleaseOK
    <3>2. k \in Expired(now) => leases[k].expires <= clock
      BY Reaping
    <3>3. leases'[k] # Nothing
      BY <2>3, <1>5
    <3> HIDE DEF HInv
    <3> QED
      BY <2>3, <3>1, <3>2, <3>3, <1>1, <1>5
  <2> QED
    BY <2>1, <2>2, <2>3
<1>15. \A u \in Tasks : Tried(u)' = Tried(u) /\ \A k \in Leases : Decisive(k, u)' <=> Decisive(k, u)
  BY <1>1, <1>5, SameAttempts DEF ReleaseOK
<1>16. VerdictOK'
  <2> SUFFICES ASSUME NEW u \in Tasks PROVE VerdictOf(u)'
    BY DEF VerdictOK
  <2>1. CASE u = t \/ u \in Recovered(now)
    <3>1. state[u] \in {"READY", "LEASED"} /\ state'[u] \in {"READY", "LEASED"}
      BY <2>1, <1>1, <1>2, Reaping
    <3>2. \A k \in Leases : ~Decisive(k, u)
      BY <3>1 DEF VerdictOK, VerdictOf, TellsVerdict, Decisive, TypeOK, Attempt, Outcomes
    <3> QED
      BY <3>1, <3>2, <1>1, <1>15 DEF VerdictOK, VerdictOf
  <2>2. CASE u # t /\ u \notin Recovered(now)
    BY <2>2, <1>1, <1>2, <1>15 DEF VerdictOK, VerdictOf, TellsVerdict, TypeOK
  <2> QED
    BY <2>1, <2>2
<1>17. CountOK'
  BY <1>1, <1>2, <1>15, Reaping DEF CountOK, CountOf
<1> QED
  BY <1>8, <1>9, <1>10, <1>13, <1>14, <1>16, <1>17

-----------------------------------------------------------------------------
\* Recording and committing

\* Recording an attempt keeps the invariant: the task was leased, so none of
\* its attempts was decisive and its budget had one to go.
LEMMA RecordKeeps ==
  ASSUME HInv, NEW l \in Leases, NEW outcome \in Outcomes, NEW retrySafe \in BOOLEAN,
         NEW completed \in 0..clock, RecordAttempt(l, outcome, retrySafe, completed)
  PROVE  HInv'
<1> USE DEF HInv
<1> PICK t \in Tasks : t = leases[l].task
  BY DEF RecordAttempt, Unreleased, TypeOK, Lease
<1> DEFINE made == [outcome |-> outcome, retrySafe |-> retrySafe]
<1>1. /\ UNCHANGED <<spec, resource, canonical, clock>>
      /\ outcome = "UNKNOWN" => ~retrySafe
      /\ leases[l] # Nothing /\ leases[l] \in Lease /\ attempts[l] = Nothing
      /\ state[t] = "LEASED" /\ active[t] = l
  BY DEF RecordAttempt, Unreleased, TypeOK, Lease
<1>2. /\ made \in Attempt /\ made # Nothing
      /\ made.outcome = outcome /\ made.retrySafe = retrySafe
  BY DEF Attempt
<1>3. attempts' = [attempts EXCEPT ![l] = made]
  BY DEF RecordAttempt
<1>4. attempts'[l] = made /\ \A k \in Leases \ {l} : attempts'[k] = attempts[k]
  BY <1>3 DEF TypeOK
<1>5. /\ leases' = [leases EXCEPT ![l].released = TRUE]
      /\ \A k \in Leases \ {l} : leases'[k] = leases[k]
  BY DEF RecordAttempt, TypeOK
<1>6. /\ leases'[l] \in Lease /\ leases'[l] # Nothing /\ leases'[l].released
      /\ leases'[l].task = t /\ leases'[l].resource = leases[l].resource
      /\ leases'[l].size = leases[l].size /\ leases'[l].expires = leases[l].expires
  <2>1. leases'[l] = [leases[l] EXCEPT !.released = TRUE]
    BY <1>5 DEF TypeOK
  <2> QED
    BY <2>1, <1>1 DEF Lease
<1>7. /\ state' = [state EXCEPT ![t] = NextState(t, outcome, retrySafe)]
      /\ active' = [active EXCEPT ![t] = Nothing]
      /\ NextState(t, outcome, retrySafe) \in {"BLOCKED", "UNKNOWN", "READY", "FAILED"}
  BY DEF RecordAttempt, NextState
<1>8. /\ state'[t] = NextState(t, outcome, retrySafe) /\ active'[t] = Nothing
      /\ \A u \in Tasks \ {t} : state'[u] = state[u] /\ active'[u] = active[u]
  BY <1>1, <1>7 DEF TypeOK
<1> HIDE DEF made
<1>9. TypeOK'
  <2>1. leases' \in [Leases -> Lease \cup {Nothing}]
    BY <1>5, <1>6 DEF TypeOK
  <2>2. attempts' \in [Leases -> Attempt \cup {Nothing}]
    BY <1>2, <1>3 DEF TypeOK
  <2> QED
    BY <2>1, <2>2, <1>1, <1>7 DEF TypeOK, TaskStates
<1>10. GrantOK'
  <2> SUFFICES ASSUME NEW k \in Leases, leases'[k] # Nothing PROVE GrantOf(k)'
    BY DEF GrantOK
  <2>1. leases[k] # Nothing /\ leases'[k].task = leases[k].task
          /\ leases'[k].resource = leases[k].resource /\ leases'[k].size = leases[k].size
    BY <1>1, <1>5, <1>6
  <2> QED
    BY <2>1, <1>1 DEF GrantOK, GrantOf, Eligible, Fits
<1>11. RowsOK'
  BY <1>1, <1>7, <1>8 DEF RowsOK, TaskStates
<1>12. \A k \in Leases : Unreleased(k)' <=> k # l /\ Unreleased(k)
  BY <1>5, <1>6 DEF Unreleased
<1>13. ActiveOK'
  <2>1. \A k \in Leases \ {l} : Unreleased(k) => leases[k].task # t
    BY <1>1 DEF ActiveOK
  <2>2. \A k \in Leases : Unreleased(k) => leases[k].task \in Tasks
    BY DEF TypeOK, Lease, Unreleased
  <2> QED
    BY <2>1, <2>2, <1>1, <1>5, <1>7, <1>8, <1>12 DEF ActiveOK
<1>14. ReleaseOK'
  <2> SUFFICES ASSUME NEW k \in Leases
               PROVE  /\ attempts'[k] # Nothing => leases'[k] # Nothing /\ leases'[k].released
                      /\ leases'[k] # Nothing /\ leases'[k].released /\ attempts'[k] = Nothing =>
                           leases'[k].expires <= clock'
    BY DEF ReleaseOK
  <2>1. CASE k = l
    BY <2>1, <1>2, <1>4, <1>6
  <2>2. CASE k # l
    BY <2>2, <1>1, <1>4, <1>5 DEF ReleaseOK
  <2> QED
    BY <2>1, <2>2
<1>15. /\ l \notin Tried(t) /\ Tried(t)' = Tried(t) \cup {l}
       /\ \A u \in Tasks \ {t} : Tried(u)' = Tried(u)
  <2>1. l \notin Tried(t)
    BY <1>1 DEF Tried
  <2>2. \A k \in Leases \ {l}, u \in Tasks : k \in Tried(u)' <=> k \in Tried(u)
    BY <1>4, <1>5 DEF Tried
  <2>3. \A u \in Tasks : (l \in Tried(u)' <=> u = t) /\ l \notin Tried(u)
    BY <1>1, <1>2, <1>4, <1>6 DEF Tried
  <2>4. \A u \in Tasks : Tried(u) \subseteq Leases /\ Tried(u)' \subseteq Leases
    BY DEF Tried
  <2>5. Tried(t)' = Tried(t) \cup {l}
    BY <2>2, <2>3, <2>4, Zenon
  <2>6. ASSUME NEW u \in Tasks \ {t} PROVE Tried(u)' = Tried(u)
    <3>1. u \in Tasks /\ u # t
      OBVIOUS
    <3>2. \A k \in Leases : k \in Tried(u)' <=> k \in Tried(u)
      BY <3>1, <2>2, <2>3, Zenon
    <3> QED
      BY <3>1, <3>2, <2>4, Zenon
  <2> QED
    BY <2>1, <2>5, <2>6
<1>16. \A k \in Leases \ {l}, u \in Tasks : Decisive(k, u)' <=> Decisive(k, u)
  BY <1>4, <1>5 DEF Decisive, RetrySafeFailure
<1>17. \A u \in Tasks : Decisive(l, u)' <=>
         u = t /\ ~(outcome \in {"FAILED", "REJECTED"} /\ retrySafe)
  BY <1>2, <1>4, <1>6 DEF Decisive, RetrySafeFailure
<1>18. \A k \in Leases : ~Decisive(k, t)
  BY <1>1 DEF VerdictOK, VerdictOf, TellsVerdict, Decisive, TypeOK, Attempt, Outcomes
<1>19. VerdictOK'
  <2> SUFFICES ASSUME NEW u \in Tasks PROVE VerdictOf(u)'
    BY DEF VerdictOK
  <2>1. CASE u = t
    <3>1. canonical'[t] = Nothing
      BY <1>1 DEF VerdictOK, VerdictOf
    <3>2. \A k \in Leases : Decisive(k, t)' => k = l
      BY <1>1, <1>16, <1>18
    <3>3. Decisive(l, t)' <=> ~(outcome \in {"FAILED", "REJECTED"} /\ retrySafe)
      BY <1>1, <1>17
    <3>4. Decisive(l, t)' => TellsVerdict(l, t)'
      BY <3>3, <1>1, <1>2, <1>4, <1>8 DEF TellsVerdict, NextState, Outcomes
    <3>5. /\ state'[t] # "COMMITTED"
          /\ state'[t] = "BLOCKED" => outcome = "ACCEPTED"
          /\ state'[t] = "UNKNOWN" => outcome = "UNKNOWN"
      BY <1>8 DEF NextState
    <3> HIDE DEF HInv
    <3> QED
      BY <2>1, <3>1, <3>2, <3>3, <3>4, <3>5, <1>2, <1>4 DEF VerdictOf
  <2>2. CASE u # t
    <3>1. \A k \in Leases : Decisive(k, u)' <=> Decisive(k, u)
      BY <2>2, <1>1, <1>16, <1>17 DEF Decisive
    <3>2. \A k \in Leases : Decisive(k, u) => attempts'[k] = attempts[k]
      BY <1>1, <1>4 DEF Decisive
    <3>3. state'[u] = state[u] /\ canonical'[u] = canonical[u]
      BY <2>2, <1>1, <1>8
    <3> QED
      BY <3>1, <3>2, <3>3 DEF VerdictOK, VerdictOf, TellsVerdict, TypeOK
  <2> QED
    BY <2>1, <2>2
<1>20. CountOK'
  <2> SUFFICES ASSUME NEW u \in Tasks PROVE CountOf(u)'
    BY DEF CountOK
  <2>1. CASE u = t
    <3>1. spec[t] # Nothing /\ spec[t].retries \in Nat
      BY <1>1 DEF RowsOK, TypeOK, TaskSpec, TaskStates
    <3>2. IsFiniteSet(Tried(t)) /\ (Tried(t) # {} => Cardinality(Tried(t)) <= spec[t].retries)
      BY <1>1 DEF CountOK, CountOf
    <3>3. /\ IsFiniteSet(Tried(t)') /\ Cardinality(Tried(t)) \in Nat
          /\ Cardinality(Tried(t)') = Cardinality(Tried(t)) + 1
      BY <3>2, <1>15, FS_AddElement, FS_CardinalityType
    <3>4. Cardinality(Tried(t)) <= spec[t].retries
      BY <3>1, <3>2, FS_EmptySet
    <3>5. state'[t] \in {"READY", "LEASED"} => Cardinality(Tried(t)) + 1 <= spec[t].retries
      BY <1>8 DEF NextState
    <3> HIDE DEF HInv
    <3> QED
      BY <2>1, <3>1, <3>3, <3>4, <3>5, <1>1 DEF CountOf
  <2>2. CASE u # t
    BY <2>2, <1>1, <1>8, <1>15 DEF CountOK, CountOf
  <2> QED
    BY <2>1, <2>2
<1> QED
  BY <1>9, <1>10, <1>11, <1>13, <1>14, <1>19, <1>20

\* Committing keeps the invariant.
LEMMA CommitKeeps ==
  ASSUME HInv, NEW l \in Leases, CommitAccepted(l)
  PROVE  HInv'
<1> USE DEF HInv
<1>1. /\ UNCHANGED <<spec, resource, leases, attempts, clock>>
      /\ attempts[l] # Nothing /\ attempts[l].outcome = "ACCEPTED"
  BY DEF CommitAccepted
<1>2. leases[l] # Nothing /\ leases[l].task \in Tasks
  BY <1>1 DEF ReleaseOK, TypeOK, Lease
<1> PICK t \in Tasks : t = leases[l].task
  BY <1>2
<1>3. CASE UNCHANGED <<canonical, state, active>>
  BY <1>1, <1>3 DEF TypeOK, GrantOK, GrantOf, RowsOK, ActiveOK, ReleaseOK, VerdictOK, VerdictOf,
     CountOK, CountOf, Unreleased, Eligible, Fits, Decisive, RetrySafeFailure, TellsVerdict, Tried
<1>4. CASE /\ canonical[t] = Nothing /\ state[t] = "BLOCKED"
           /\ canonical' = [canonical EXCEPT ![t] = l]
           /\ state' = [state EXCEPT ![t] = "COMMITTED"]
           /\ active' = [active EXCEPT ![t] = Nothing]
  <2>1. /\ canonical'[t] = l /\ state'[t] = "COMMITTED" /\ active[t] = Nothing
        /\ \A u \in Tasks \ {t} : canonical'[u] = canonical[u] /\ state'[u] = state[u]
        /\ active' = active
    BY <1>2, <1>4 DEF TypeOK, ActiveOK
  <2>2. TypeOK'
    BY <1>1, <1>2, <1>4 DEF TypeOK, TaskStates
  <2>3. GrantOK' /\ ReleaseOK'
    BY <1>1 DEF GrantOK, GrantOf, Eligible, Fits, ReleaseOK
  <2>4. RowsOK'
    BY <1>1, <1>2, <1>4, <2>1 DEF RowsOK, TaskStates
  <2>5. \A k \in Leases : Unreleased(k) => leases[k].task \in Tasks
    BY DEF TypeOK, Lease, Unreleased
  <2>6. ActiveOK'
    BY <2>1, <2>5, <1>1, <1>2, <1>4 DEF ActiveOK, Unreleased
  <2>7. \A u \in Tasks : /\ Tried(u)' = Tried(u)
                         /\ \A k \in Leases : Decisive(k, u)' <=> Decisive(k, u)
    BY <1>1, SameAttempts
  <2>8. Decisive(l, t)
    BY <1>1 DEF Decisive, RetrySafeFailure
  <2>9. VerdictOK'
    <3> SUFFICES ASSUME NEW u \in Tasks PROVE VerdictOf(u)'
      BY DEF VerdictOK
    <3>1. CASE u = t
      <4>1. /\ \A k \in Leases : Decisive(k, t) <=> k = l
            /\ l # Nothing
        BY <2>8, <1>2 DEF VerdictOK, VerdictOf
      <4>2. TellsVerdict(l, t)'
        BY <2>1, <1>1 DEF TellsVerdict
      <4> HIDE DEF HInv
      <4> QED
        BY <4>1, <4>2, <3>1, <2>1, <2>7, <1>1, <1>2 DEF VerdictOf
    <3>2. CASE u # t
      BY <3>2, <2>1, <2>7, <1>1 DEF VerdictOK, VerdictOf, TellsVerdict, TypeOK
    <3> QED
      BY <3>1, <3>2
  <2>10. CountOK'
    BY <2>1, <2>7, <1>1, <1>2, <1>4 DEF CountOK, CountOf
  <2> QED
    BY <2>2, <2>3, <2>4, <2>6, <2>9, <2>10
<1> QED
  BY <1>3, <1>4 DEF CommitAccepted

-----------------------------------------------------------------------------
\* The invariant and what it says

\* Every step keeps the invariant.
LEMMA HarnessNext == HInv /\ [Next]_vars => HInv'
<1> SUFFICES ASSUME HInv, [Next]_vars PROVE HInv'
  OBVIOUS
<1>1. CASE UNCHANGED vars
  BY <1>1 DEF vars, HInv, TypeOK, GrantOK, GrantOf, RowsOK, ActiveOK, ReleaseOK, VerdictOK,
     VerdictOf, CountOK, CountOf, Unreleased, Eligible, Fits, Decisive, RetrySafeFailure,
     TellsVerdict, Tried
<1>2. CASE Next
  BY <1>2, QuietKeeps, ReapKeeps, AcquireKeeps, RecordKeeps, CommitKeeps DEF Next
<1> QED
  BY <1>1, <1>2

\* The rows of leases, task_state, attempts and canonical_results agree in
\* every state that any callers can bring the store to.
THEOREM HarnessInvariant == Spec => []HInv
  BY HarnessInit, HarnessNext, PTL DEF Spec

\* Every variable keeps its type.
THEOREM HarnessTyped == Spec => []TypeOK
<1>1. HInv => TypeOK
  BY DEF HInv
<1> QED
  BY <1>1, HarnessInvariant, PTL

\* A task is LEASED exactly while its active lease is its one unreleased lease.
THEOREM OneAuthorityHolds == Spec => []OneAuthority
<1>1. HInv => OneAuthority
  <2> SUFFICES ASSUME HInv PROVE OneAuthority
    OBVIOUS
  <2>1. ASSUME NEW t \in Tasks
        PROVE  {l \in Leases : Unreleased(l) /\ leases[l].task = t} =
                 IF state[t] = "LEASED" THEN {active[t]} ELSE {}
    BY DEF HInv, ActiveOK
  <2>2. \A t \in Tasks : active[t] # Nothing <=> state[t] = "LEASED"
    BY DEF HInv, ActiveOK
  <2> QED
    BY <2>1, <2>2 DEF OneAuthority
<1> QED
  BY <1>1, HarnessInvariant, PTL

\* Two workers that may still be at work share neither a task nor a resource.
THEOREM ExclusiveWorkHolds == Spec => []ExclusiveWork
<1>1. HInv => ExclusiveWork
  <2> SUFFICES ASSUME HInv, NEW k \in Leases, NEW l \in Leases, AtWork(k), AtWork(l), k # l
               PROVE  leases[k].task # leases[l].task /\ leases[k].resource # leases[l].resource
    BY DEF ExclusiveWork
  <2>1. \A m \in Leases : AtWork(m) => Unreleased(m)
    BY DEF HInv, TypeOK, Lease, ReleaseOK, AtWork, Unreleased
  <2> QED
    BY <2>1 DEF HInv, ActiveOK
<1> QED
  BY <1>1, HarnessInvariant, PTL

\* Attempts are bounded by the retry budget, and only retry-safe failures are retried.
THEOREM RetriesNeedEvidenceHolds == Spec => []RetriesNeedEvidence
<1>1. HInv => RetriesNeedEvidence
  <2> SUFFICES ASSUME HInv, NEW t \in Tasks
               PROVE  LET decisive == {l \in Tried(t) : ~RetrySafeFailure(l)} IN
                        /\ Tried(t) # {} => Cardinality(Tried(t)) <= spec[t].retries + 1
                        /\ Cardinality(decisive) <= 1
                        /\ decisive # {} => state[t] \notin {"READY", "LEASED"}
    BY DEF RetriesNeedEvidence
  <2> DEFINE decisive == {l \in Tried(t) : ~RetrySafeFailure(l)}
  <2>1. decisive = {l \in Leases : Decisive(l, t)}
    BY DEF Decisive, Tried
  <2>2. Tried(t) # {} => Cardinality(Tried(t)) <= spec[t].retries + 1
    BY DEF HInv, CountOK, CountOf
  <2>3. decisive = {} \/ \E l : decisive = {l}
    BY <2>1 DEF HInv, VerdictOK, VerdictOf
  <2>4. Cardinality(decisive) <= 1
    <3> HIDE DEF decisive, HInv
    <3>1. Cardinality({}) = 0 /\ \A l : Cardinality({l}) = 1
      BY FS_EmptySet, FS_Singleton
    <3>2. Cardinality(decisive) = 0 \/ Cardinality(decisive) = 1
      BY <2>3, <3>1, Zenon
    <3> QED
      BY <3>2
  <2>5. decisive # {} => state[t] \notin {"READY", "LEASED"}
    BY <2>1 DEF HInv, VerdictOK, VerdictOf, TellsVerdict, Decisive, TypeOK, Attempt, Outcomes
  <2> QED
    BY <2>2, <2>4, <2>5
<1> QED
  BY <1>1, HarnessInvariant, PTL

\* The state of a task tells which of its attempts was accepted or unknown.
THEOREM StateTellsAttemptsHolds == Spec => []StateTellsAttempts
<1>1. HInv => StateTellsAttempts
  <2> SUFFICES ASSUME HInv, NEW t \in Tasks
               PROVE  LET having(o) == {l \in Tried(t) : attempts[l].outcome = o} IN
                        /\ canonical[t] # Nothing => having("ACCEPTED") = {canonical[t]}
                        /\ state[t] = "COMMITTED" <=> canonical[t] # Nothing
                        /\ state[t] = "BLOCKED" <=> having("ACCEPTED") # {} /\ canonical[t] = Nothing
                        /\ state[t] = "UNKNOWN" <=> having("UNKNOWN") # {}
    BY DEF StateTellsAttempts
  <2> DEFINE having(o) == {l \in Tried(t) : attempts[l].outcome = o}
  <2>1. VerdictOf(t)
    BY DEF HInv, VerdictOK
  <2>2. \A o \in {"ACCEPTED", "UNKNOWN"} : \A l \in having(o) : Decisive(l, t)
    BY DEF Decisive, Tried, RetrySafeFailure
  <2>3. \A o \in {"ACCEPTED", "UNKNOWN"} : \A l \in Leases :
          Decisive(l, t) /\ attempts[l].outcome = o => l \in having(o)
    BY DEF Decisive, Tried
  <2>4. \A o : \A l \in having(o) : l \in Leases /\ attempts[l].outcome = o
    BY DEF Tried
  <2>5. canonical[t] # Nothing => canonical[t] \in Leases
    BY DEF HInv, TypeOK
  <2>6. canonical[t] # Nothing => having("ACCEPTED") = {canonical[t]}
    <3> HIDE DEF having
    <3> QED
      BY <2>1, <2>2, <2>3, <2>4, <2>5 DEF VerdictOf
  <2>7. state[t] = "COMMITTED" <=> canonical[t] # Nothing
    BY <2>1 DEF VerdictOf
  <2>8. having("ACCEPTED") # {} <=> state[t] \in {"BLOCKED", "COMMITTED"}
    <3> HIDE DEF having
    <3> QED
      BY <2>1, <2>2, <2>3, <2>4 DEF VerdictOf, TellsVerdict
  <2>9. having("UNKNOWN") # {} <=> state[t] = "UNKNOWN"
    <3> HIDE DEF having
    <3> QED
      BY <2>1, <2>2, <2>3, <2>4 DEF VerdictOf, TellsVerdict
  <2> QED
    BY <2>6, <2>7, <2>8, <2>9
<1> QED
  BY <1>1, HarnessInvariant, PTL

\* What is committed was produced within the limits of its task.
THEOREM CommittedWithinLimitsHolds == Spec => []CommittedWithinLimits
<1>1. HInv => CommittedWithinLimits
  <2> SUFFICES ASSUME HInv, NEW t \in Tasks, canonical[t] # Nothing
               PROVE  LET lease == leases[canonical[t]]
                          res == resource[lease.resource]
                      IN /\ lease.task = t
                         /\ res.zeroSpend /\ spec[t].caps \subseteq res.caps
                         /\ spec[t].mutation <= res.mutation
                         /\ Fits(lease.size, spec[t].budget) /\ Fits(lease.size, res.limit)
    BY DEF CommittedWithinLimits
  <2>1. /\ canonical[t] \in Leases /\ leases[canonical[t]].task = t
        /\ attempts[canonical[t]] # Nothing
    BY DEF HInv, TypeOK, VerdictOK, VerdictOf, Decisive
  <2>2. leases[canonical[t]] # Nothing
    BY <2>1 DEF HInv, ReleaseOK
  <2>3. GrantOf(canonical[t])
    BY <2>1, <2>2 DEF HInv, GrantOK
  <2>4. /\ spec[t] \in TaskSpec
        /\ resource[leases[canonical[t]].resource] \in ResourceSpec
    BY <2>1, <2>2, <2>3 DEF HInv, TypeOK, GrantOf, Lease
  <2> QED
    BY <2>1, <2>3, <2>4 DEF GrantOf, Eligible, TaskSpec, ResourceSpec
<1> QED
  BY <1>1, HarnessInvariant, PTL

\* Final states stay final; no attempt and no canonical result is replaced.
THEOREM OutcomesAreFinalHolds == Spec => OutcomesAreFinal
<1> DEFINE Kept ==
      /\ \A t \in Tasks :
           /\ state[t] \in {"FAILED", "UNKNOWN", "COMMITTED"} => state'[t] = state[t]
           /\ state[t] = "BLOCKED" => state'[t] \in {"BLOCKED", "COMMITTED"}
           /\ canonical[t] # Nothing => canonical'[t] = canonical[t]
      /\ \A l \in Leases : attempts[l] # Nothing => attempts'[l] = attempts[l]
<1>1. ASSUME HInv, Next PROVE Kept
  <2> USE DEF HInv
  <2>1. CASE \/ \E t \in Tasks, s \in TaskSpecs : SubmitTask(t, s)
             \/ \E r \in Resources, s \in ResourceSpecs : RegisterResource(r, s)
             \/ Tick
    <3>1. UNCHANGED <<attempts, canonical>>
      BY <2>1 DEF SubmitTask, RegisterResource, Tick
    <3>2. \A t \in Tasks : state[t] # Nothing => state'[t] = state[t]
      BY <1>1, <2>1 DEF SubmitTask, RegisterResource, Tick, TypeOK, RowsOK
    <3>3. \A t \in Tasks : state[t] \in {"FAILED", "UNKNOWN", "COMMITTED", "BLOCKED"} =>
            state[t] # Nothing
      BY DEF TaskStates
    <3> QED
      BY <3>1, <3>2, <3>3
  <2>2. ASSUME NEW now \in Now, Reap(now) PROVE Kept
    <3>1. UNCHANGED <<attempts, canonical>>
      BY <2>2 DEF Reap
    <3>2. \A u \in Tasks : state'[u] = state[u] \/ state[u] = "LEASED"
      BY <2>2 DEF Reap, ReapedState, Recovered
    <3> QED
      BY <3>1, <3>2
  <2>3. ASSUME NEW l \in Leases, NEW t \in Tasks, NEW r \in Resources, NEW size \in Sizes,
               NEW ttl \in Ttls, NEW now \in Now, Acquire(l, t, r, size, ttl, now)
        PROVE  Kept
    <3>1. UNCHANGED <<attempts, canonical>>
      BY <2>3 DEF Acquire
    <3>2. state' = [ReapedState(now) EXCEPT ![t] = "LEASED"] /\ ReapedState(now)[t] = "READY"
      BY <2>3 DEF Acquire, LeaseFree
    <3>3. \A u \in Tasks : ReapedState(now)[u] = state[u] \/ state[u] = "LEASED"
      BY DEF ReapedState, Recovered
    <3>4. \A u \in Tasks : u # t => state'[u] = ReapedState(now)[u]
      BY <3>2 DEF ReapedState
    <3> QED
      BY <3>1, <3>2, <3>3, <3>4
  <2>4. ASSUME NEW l \in Leases, NEW outcome \in Outcomes, NEW retrySafe \in BOOLEAN,
               NEW completed \in 0..clock, RecordAttempt(l, outcome, retrySafe, completed)
        PROVE  Kept
    <3>1. UNCHANGED canonical /\ state[leases[l].task] = "LEASED" /\ attempts[l] = Nothing
      BY <2>4 DEF RecordAttempt
    <3>2. \A k \in Leases : attempts[k] # Nothing => attempts'[k] = attempts[k]
      BY <1>1, <2>4, <3>1 DEF RecordAttempt, TypeOK
    <3>3. \A u \in Tasks : state[u] # "LEASED" => state'[u] = state[u]
      BY <1>1, <2>4, <3>1 DEF RecordAttempt, TypeOK
    <3> QED
      BY <3>1, <3>2, <3>3
  <2>5. ASSUME NEW l \in Leases, CommitAccepted(l) PROVE Kept
    <3>1. UNCHANGED attempts
      BY <2>5 DEF CommitAccepted
    <3>2. leases[l].task \in Tasks
      BY <1>1, <2>5 DEF CommitAccepted, ReleaseOK, TypeOK, Lease
    <3>3. CASE UNCHANGED <<canonical, state>>
      BY <3>1, <3>3
    <3>4. CASE /\ canonical[leases[l].task] = Nothing /\ state[leases[l].task] = "BLOCKED"
               /\ canonical' = [canonical EXCEPT ![leases[l].task] = l]
               /\ state' = [state EXCEPT ![leases[l].task] = "COMMITTED"]
      BY <1>1, <3>1, <3>2, <3>4 DEF TypeOK
    <3> QED
      BY <2>5, <3>3, <3>4 DEF CommitAccepted
  <2> QED
    BY <1>1, <2>1, <2>2, <2>3, <2>4, <2>5 DEF Next
<1>2. ASSUME HInv, UNCHANGED vars PROVE Kept
  BY <1>2 DEF vars
<1>3. HInv /\ [Next]_vars => [Kept]_vars
  BY <1>1
<1> QED
  BY <1>3, HarnessInvariant, PTL DEF Spec, OutcomesAreFinal

-----------------------------------------------------------------------------
\* The store implements TaskLifecycle, one step for each action

\* What the submitter of the tasks sees.
lifeSeen == <<state, active, [t \in Tasks |-> Place(t)], Given, Reported,
              [t \in Tasks |-> Cardinality(Tried(t))], [t \in Tasks |-> Allowed(t)],
              [t \in Tasks |-> Accepted(t)], [t \in Tasks |-> Published(t)]>>

\* The empty store has no task.
LEMMA InitLives == Init => Life!Init
<1> SUFFICES ASSUME Init PROVE Life!Init
  OBVIOUS
<1>1. \A t \in Tasks : /\ Place(t) = Nothing /\ Tried(t) = {} /\ Allowed(t) = 0
                        /\ Accepted(t) = {} /\ Published(t) = {}
  BY DEF Init, Place, Tried, Allowed, Accepted, Published
<1>2. Given = {} /\ Reported = {}
  BY DEF Init, Given, Reported
<1> QED
  BY <1>1, <1>2, FS_EmptySet DEF Init, Life!Init

\* Attempts that stay are the same attempts for a submitter, too.
LEMMA SameReports ==
  ASSUME HInv, UNCHANGED <<attempts, canonical>>,
         \A l \in Leases : leases[l] # Nothing => leases'[l].task = leases[l].task
  PROVE  /\ Reported' = Reported
         /\ \A t \in Tasks :
              Tried(t)' = Tried(t) /\ Accepted(t)' = Accepted(t) /\ Published(t)' = Published(t)
<1>1. \A l \in Leases : attempts[l] # Nothing => leases'[l].task = leases[l].task
  BY DEF HInv, ReleaseOK
<1>2. \A t \in Tasks : Tried(t)' = Tried(t)
  BY <1>1, SameAttempts
<1> QED
  BY <1>2 DEF Accepted, Published, Reported

\* A first submission is Submit; a repeated one changes nothing.
LEMMA SubmitLives ==
  ASSUME HInv, NEW t \in Tasks, NEW s \in TaskSpecs, SubmitTask(t, s)
  PROVE  Life!Submit(t) \/ UNCHANGED lifeSeen
<1> USE DEF HInv
<1>1. UNCHANGED <<active, leases, attempts, canonical>>
  BY DEF SubmitTask
<1>2. Given' = Given /\ \A u \in Tasks : Place(u)' = Place(u)
  BY <1>1 DEF Given, Place
<1>3. Reported' = Reported /\ \A u \in Tasks :
        Tried(u)' = Tried(u) /\ Accepted(u)' = Accepted(u) /\ Published(u)' = Published(u)
  BY <1>1, SameReports
<1>4. CASE spec[t] # Nothing
  <2>1. spec' = spec /\ state' = state
    BY <1>4 DEF SubmitTask, TypeOK
  <2> QED
    BY <2>1, <1>1, <1>2, <1>3 DEF lifeSeen, Allowed
<1>5. CASE spec[t] = Nothing
  <2>1. state[t] = Nothing /\ state' = [state EXCEPT ![t] = "READY"]
    BY <1>5 DEF SubmitTask, RowsOK
  <2>2. /\ spec'[t] = s /\ s.retries \in Nat /\ s # Nothing
        /\ \A u \in Tasks \ {t} : spec'[u] = spec[u]
    BY DEF SubmitTask, TypeOK, TaskSpec
  <2>3. \A u \in Tasks : spec[u] # Nothing => spec[u].retries \in Nat
    BY DEF TypeOK, TaskSpec
  <2>4. /\ Allowed(t)' = s.retries + 1
        /\ \A u \in Tasks : Allowed(u) \in Nat
        /\ \A u \in Tasks \ {t} : Allowed(u)' = Allowed(u)
    BY <2>2, <2>3 DEF Allowed
  <2>5. /\ [u \in Tasks |-> Allowed(u)]' \in [Tasks -> Nat]
        /\ [u \in Tasks |-> Allowed(u)]'[t] > 0
        /\ \A u \in Tasks \ {t} :
             [v \in Tasks |-> Allowed(v)]'[u] = [v \in Tasks |-> Allowed(v)][u]
    BY <2>2, <2>4
  <2> QED
    BY <2>1, <2>5, <1>1, <1>2, <1>3 DEF Life!Submit
<1> QED
  BY <1>4, <1>5

\* What reaping leaves of a task that was not recovered, and of one that was.
LEMMA ReapedTask ==
  ASSUME HInv, NEW now \in Now, NEW t \in Tasks
  PROVE  /\ ReapedState(now)[t] = IF t \in Recovered(now) THEN "READY" ELSE state[t]
         /\ ReapedActive(now)[t] = IF t \in Recovered(now) THEN Nothing ELSE active[t]
         /\ t \notin Recovered(now) /\ active[t] # Nothing =>
              /\ active[t] \in Leases /\ Unreleased(active[t]) /\ active[t] \notin Expired(now)
              /\ ReapedLeases(now)[active[t]].resource = Place(t)
  BY ReapedRow, Reaping DEF HInv, ActiveOK, ReapedState, ReapedActive, Place, Unreleased

\* Reaping takes grants back.
LEMMA ReapLives ==
  ASSUME HInv, NEW now \in Now, Reap(now)
  PROVE  Life!TakeBack(Recovered(now))
<1>1. UNCHANGED <<spec, attempts, canonical>>
  BY DEF Reap
<1>2. \A l \in Leases : leases[l] # Nothing => leases'[l] # Nothing /\ leases'[l].task = leases[l].task
  BY ReapedRow DEF Reap, HInv, TypeOK
<1>3. \A l \in Leases : leases[l] = Nothing => leases'[l] = Nothing
  BY ReapedRow DEF Reap
<1>4. Given' = Given
  BY <1>2, <1>3 DEF Given
<1>5. \A t \in Tasks : Place(t)' = IF t \in Recovered(now) THEN Nothing ELSE Place(t)
  BY ReapedTask DEF Reap, Place
<1>6. /\ state' = [t \in Tasks |-> IF t \in Recovered(now) THEN "READY" ELSE state[t]]
      /\ active' = [t \in Tasks |-> IF t \in Recovered(now) THEN Nothing ELSE active[t]]
  BY DEF Reap, ReapedState, ReapedActive
<1>7. Reported' = Reported /\ \A t \in Tasks :
        Tried(t)' = Tried(t) /\ Accepted(t)' = Accepted(t) /\ Published(t)' = Published(t)
  BY <1>1, <1>2, SameReports
<1>8. \A t \in Tasks : Allowed(t)' = Allowed(t)
  BY <1>1 DEF Allowed
<1> QED
  BY <1>4, <1>5, <1>6, <1>7, <1>8 DEF Life!TakeBack

\* Granting a lease gives a grant, behind the reaping in the same call.
LEMMA AcquireLives ==
  ASSUME HInv, NEW l \in Leases, NEW t \in Tasks, NEW r \in Resources, NEW size \in Sizes,
         NEW ttl \in Ttls, NEW now \in Now, Acquire(l, t, r, size, ttl, now)
  PROVE  Life!Give(Recovered(now), t, l, r)
<1> DEFINE new == [task |-> t, resource |-> r, size |-> size, expires |-> now + ttl,
                   released |-> FALSE]
<1>1. UNCHANGED <<spec, attempts, canonical>> /\ leases[l] = Nothing
  BY DEF Acquire, LeaseFree
<1>2. /\ leases'[l] = new
      /\ \A k \in Leases \ {l} : leases'[k] = ReapedLeases(now)[k]
  BY DEF Acquire, ReapedLeases
<1>3. new # Nothing /\ new.resource = r
  <2>1. new \in Lease
    BY DEF HInv, TypeOK, Lease, Now
  <2> QED
    BY <2>1
<1> HIDE DEF new
<1>4. \A k \in Leases : leases[k] # Nothing =>
        k # l /\ leases'[k] # Nothing /\ leases'[k].task = leases[k].task
  BY <1>1, <1>2, ReapedRow DEF HInv, TypeOK
<1>5. \A k \in Leases : leases[k] = Nothing => k = l \/ leases'[k] = Nothing
  BY <1>2, ReapedRow
<1>6. l \notin Given /\ Given' = Given \cup {l}
  BY <1>1, <1>2, <1>3, <1>4, <1>5 DEF Given
<1>7. /\ state' = [u \in Tasks |->
           IF u = t THEN "LEASED" ELSE IF u \in Recovered(now) THEN "READY" ELSE state[u]]
      /\ active' = [u \in Tasks |->
           IF u = t THEN l ELSE IF u \in Recovered(now) THEN Nothing ELSE active[u]]
  BY DEF Acquire, ReapedState, ReapedActive
<1>8. \A u \in Tasks : Place(u)' =
        IF u = t THEN r ELSE IF u \in Recovered(now) THEN Nothing ELSE Place(u)
  <2> SUFFICES ASSUME NEW u \in Tasks
               PROVE  Place(u)' =
                 IF u = t THEN r ELSE IF u \in Recovered(now) THEN Nothing ELSE Place(u)
    OBVIOUS
  <2>1. CASE u = t
    BY <2>1, <1>2, <1>3, <1>7 DEF Place, HInv, HarnessSentinels
  <2>2. CASE u # t /\ u \in Recovered(now)
    BY <2>2, <1>7 DEF Place
  <2>3. CASE u # t /\ u \notin Recovered(now)
    <3>1. active'[u] = active[u]
      BY <2>3, <1>7
    <3>2. active[u] # Nothing => active[u] \in Leases \ {l} /\ leases'[active[u]].resource = Place(u)
      BY <2>3, <1>1, <1>2, ReapedTask DEF Unreleased
    <3> QED
      BY <2>3, <3>1, <3>2 DEF Place
  <2> QED
    BY <2>1, <2>2, <2>3
<1>9. state[t] = "READY" \/ t \in Recovered(now)
  BY ReapedTask DEF Acquire, LeaseFree
<1>10. \A u \in Tasks \ Recovered(now) : Place(u) # r
  BY ReapedTask DEF Acquire, LeaseFree, Place
<1>11. Reported' = Reported /\ \A u \in Tasks :
        Tried(u)' = Tried(u) /\ Accepted(u)' = Accepted(u) /\ Published(u)' = Published(u)
  BY <1>1, <1>4, SameReports
<1>12. \A u \in Tasks : Allowed(u)' = Allowed(u)
  BY <1>1 DEF Allowed
<1> QED
  BY <1>6, <1>7, <1>8, <1>9, <1>10, <1>11, <1>12 DEF Life!Give

\* An attempt is one more at its task, and leaves the others what they were.
LEMMA RecordTries ==
  ASSUME HInv, NEW l \in Leases, NEW outcome \in Outcomes, NEW retrySafe \in BOOLEAN,
         NEW completed \in 0..clock, RecordAttempt(l, outcome, retrySafe, completed),
         NEW t \in Tasks, t = leases[l].task
  PROVE  /\ Unreleased(l) /\ attempts[l] = Nothing /\ state[t] = "LEASED" /\ active[t] = l
         /\ \A u \in Tasks : l \notin Tried(u)
         /\ \A u \in Tasks : Tried(u)' = IF u = t THEN Tried(u) \cup {l} ELSE Tried(u)
         /\ \A u \in Tasks : \A k \in Tried(u) : attempts'[k] = attempts[k]
         /\ attempts'[l].outcome = outcome
         /\ Given' = Given /\ l \notin Reported /\ Reported' = Reported \cup {l}
         /\ \A k \in Leases : leases[k] # Nothing => leases'[k].resource = leases[k].resource
<1> USE DEF HInv
<1>1. Unreleased(l) /\ attempts[l] = Nothing /\ state[t] = "LEASED" /\ active[t] = l
  BY DEF RecordAttempt
<1>2. /\ attempts' = [attempts EXCEPT ![l] = [outcome |-> outcome, retrySafe |-> retrySafe]]
      /\ leases' = [leases EXCEPT ![l].released = TRUE]
  BY DEF RecordAttempt
<1>3. /\ attempts'[l] = [outcome |-> outcome, retrySafe |-> retrySafe]
      /\ attempts'[l] \in Attempt /\ attempts'[l] # Nothing
      /\ \A k \in Leases \ {l} : attempts'[k] = attempts[k]
  BY <1>2 DEF TypeOK, Attempt
<1>4. \A k \in Leases \ {l} : leases'[k] = leases[k]
  BY <1>2 DEF TypeOK
<1>5. leases[l] \in Lease /\ leases'[l] = [leases[l] EXCEPT !.released = TRUE]
  BY <1>1, <1>2 DEF TypeOK, Unreleased
<1>6. /\ leases'[l] \in Lease /\ leases'[l] # Nothing
      /\ leases'[l].task = leases[l].task /\ leases'[l].resource = leases[l].resource
  BY <1>5 DEF Lease
<1>7. Given' = Given /\ l \notin Reported /\ Reported' = Reported \cup {l}
  BY <1>1, <1>3, <1>4, <1>6 DEF Given, Reported, Unreleased
<1>8. \A k \in Leases, u \in Tasks :
        k \in Tried(u)' <=> k \in Tried(u) \/ (k = l /\ u = t)
  BY <1>1, <1>3, <1>4, <1>6 DEF Tried
<1>9. \A u \in Tasks : /\ l \notin Tried(u)
                        /\ Tried(u) \subseteq Leases /\ Tried(u)' \subseteq Leases
  BY <1>1 DEF Tried
<1>10. \A u \in Tasks : Tried(u)' = IF u = t THEN Tried(u) \cup {l} ELSE Tried(u)
  BY <1>8, <1>9, Zenon
<1> QED
  BY <1>1, <1>3, <1>4, <1>6, <1>7, <1>9, <1>10

\* An attempt is the report of the grant that is held.
LEMMA RecordLives ==
  ASSUME HInv, NEW l \in Leases, NEW outcome \in Outcomes, NEW retrySafe \in BOOLEAN,
         NEW completed \in 0..clock, RecordAttempt(l, outcome, retrySafe, completed),
         NEW t \in Tasks, t = leases[l].task
  PROVE  Life!Report(t, NextState(t, outcome, retrySafe))
<1> DEFINE next == NextState(t, outcome, retrySafe)
<1> USE DEF HInv
<1>1. /\ state' = [state EXCEPT ![t] = next] /\ active' = [active EXCEPT ![t] = Nothing]
      /\ UNCHANGED <<spec, canonical>>
  BY DEF RecordAttempt
<1>2. l \in Given /\ Given' = Given /\ state[t] = "LEASED" /\ active[t] = l
  BY RecordTries DEF Given, Unreleased
<1>3. l \notin Reported /\ Reported' = Reported \cup {l}
  BY RecordTries
<1>4. \A u \in Tasks : Accepted(u)' = IF u = t
                                      THEN Accepted(t) \cup (IF outcome = "ACCEPTED" THEN {l} ELSE {})
                                      ELSE Accepted(u)
  <2> SUFFICES ASSUME NEW u \in Tasks
               PROVE  Accepted(u)' = IF u = t
                                    THEN Accepted(t) \cup (IF outcome = "ACCEPTED" THEN {l} ELSE {})
                                    ELSE Accepted(u)
    OBVIOUS
  <2>1. /\ Tried(u)' = IF u = t THEN Tried(u) \cup {l} ELSE Tried(u)
        /\ \A k \in Tried(u) : attempts'[k] = attempts[k]
        /\ attempts'[l].outcome = outcome
    BY RecordTries
  <2> QED
    BY <2>1 DEF Accepted
<1>5. Accepted(t) = {}
  <2>1. \A k \in Accepted(t) : Decisive(k, t) /\ TellsVerdict(k, t)
    BY DEF Accepted, Tried, Decisive, RetrySafeFailure, VerdictOK, VerdictOf
  <2> QED
    BY <2>1, <1>2 DEF TellsVerdict, Accepted
<1>6. next = "BLOCKED" <=> outcome = "ACCEPTED"
  BY DEF NextState
<1>7. \A u \in Tasks : Place(u)' = IF u = t THEN Nothing ELSE Place(u)
  <2>1. \A u \in Tasks : active[u] # Nothing => active[u] \in Leases /\ leases[active[u]] # Nothing
    BY DEF ActiveOK, Unreleased
  <2>2. \A k \in Leases : leases[k] # Nothing => leases'[k].resource = leases[k].resource
    BY RecordTries
  <2>3. active'[t] = Nothing /\ \A u \in Tasks \ {t} : active'[u] = active[u]
    BY <1>1 DEF TypeOK
  <2> QED
    BY <2>1, <2>2, <2>3 DEF Place
<1>8. Cardinality(Tried(t)) + (IF next = "READY" THEN 1 ELSE 0) < Allowed(t)
  <2>1. spec[t] # Nothing /\ spec[t].retries \in Nat
    BY <1>2 DEF RowsOK, TypeOK, TaskSpec, TaskStates
  <2>2. IsFiniteSet(Tried(t)) /\ (Tried(t) # {} => Cardinality(Tried(t)) <= spec[t].retries)
    BY <1>2 DEF CountOK, CountOf
  <2>3. Cardinality(Tried(t)) \in Nat /\ Cardinality(Tried(t)) <= spec[t].retries
    BY <2>1, <2>2, FS_CardinalityType, FS_EmptySet
  <2>4. next = "READY" => Cardinality(Tried(t)) + 1 <= spec[t].retries
    BY DEF NextState
  <2> HIDE DEF next, HInv
  <2> QED
    BY <2>1, <2>3, <2>4 DEF Allowed
<1>9. \A u \in Tasks :
        Cardinality(Tried(u)') = IF u = t THEN Cardinality(Tried(t)) + 1 ELSE Cardinality(Tried(u))
  <2>1. /\ l \notin Tried(t) /\ Tried(t)' = Tried(t) \cup {l}
        /\ \A u \in Tasks \ {t} : Tried(u)' = Tried(u)
    BY RecordTries
  <2>2. IsFiniteSet(Tried(t))
    BY DEF CountOK, CountOf
  <2> QED
    BY <2>1, <2>2, FS_AddElement
<1>12. \A u \in Tasks : Allowed(u)' = Allowed(u) /\ Published(u)' = Published(u)
  BY <1>1 DEF Allowed, Published
<1> HIDE DEF next, HInv
<1>10. /\ state[t] = "LEASED" /\ active[t] \in Given \ Reported
       /\ Reported' = Reported \cup {active[t]} /\ Given' = Given
  BY <1>2, <1>3
<1>11. /\ [u \in Tasks |-> Cardinality(Tried(u))][t] + (IF next = "READY" THEN 1 ELSE 0)
           < [u \in Tasks |-> Allowed(u)][t]
       /\ [u \in Tasks |-> Accepted(u)][t] = {}
  BY <1>5, <1>8
<1>13. [u \in Tasks |-> Cardinality(Tried(u))]' =
         [[u \in Tasks |-> Cardinality(Tried(u))] EXCEPT ![t] = @ + 1]
  BY <1>9
<1>14. [u \in Tasks |-> Accepted(u)]' =
         [[u \in Tasks |-> Accepted(u)] EXCEPT ![t] = IF next = "BLOCKED" THEN {active[t]} ELSE {}]
  BY <1>2, <1>4, <1>5, <1>6
<1>15. [u \in Tasks |-> Place(u)]' = [[u \in Tasks |-> Place(u)] EXCEPT ![t] = Nothing]
  BY <1>7
<1>16. UNCHANGED <<[u \in Tasks |-> Allowed(u)], [u \in Tasks |-> Published(u)]>>
  BY <1>12
<1> QED
  BY <1>1, <1>10, <1>11, <1>13, <1>14, <1>15, <1>16, Zenon DEF Life!Report, next

\* A first commit publishes; a repeated one changes nothing.
LEMMA CommitLives ==
  ASSUME HInv, NEW l \in Leases, CommitAccepted(l), NEW t \in Tasks, t = leases[l].task
  PROVE  Life!Publish(t) \/ UNCHANGED lifeSeen
<1> USE DEF HInv
<1>1. /\ UNCHANGED <<spec, leases, attempts>>
      /\ attempts[l] # Nothing /\ attempts[l].outcome = "ACCEPTED"
  BY DEF CommitAccepted
<1>2. Given' = Given /\ Reported' = Reported /\ \A u \in Tasks :
        Tried(u)' = Tried(u) /\ Accepted(u)' = Accepted(u) /\ Allowed(u)' = Allowed(u)
  BY <1>1 DEF Given, Reported, Tried, Accepted, Allowed
<1>3. CASE UNCHANGED <<canonical, state, active>>
  BY <1>1, <1>2, <1>3 DEF lifeSeen, Place, Published
<1>4. CASE /\ canonical[t] = Nothing /\ state[t] = "BLOCKED"
           /\ canonical' = [canonical EXCEPT ![t] = l]
           /\ state' = [state EXCEPT ![t] = "COMMITTED"]
           /\ active' = [active EXCEPT ![t] = Nothing]
  <2>1. active' = active
    BY <1>4 DEF TypeOK, ActiveOK
  <2>2. \A u \in Tasks : Place(u)' = Place(u)
    BY <2>1, <1>1 DEF Place
  <2>3. l \in Tried(t) /\ \A k \in Accepted(t) : Decisive(k, t) /\ k \in Leases
    BY <1>1 DEF Tried, Accepted, Decisive, RetrySafeFailure
  <2>4. Accepted(t) = {l}
    BY <2>3, <1>1 DEF Accepted, Decisive, RetrySafeFailure, VerdictOK, VerdictOf
  <2>6. \A u \in Tasks : Published(u)' = IF u = t THEN Accepted(t) ELSE Published(u)
    BY <1>4, <2>4 DEF Published, TypeOK
  <2> QED
    BY <2>1, <2>2, <2>4, <2>6, <1>2, <1>4 DEF Life!Publish
<1> QED
  BY <1>3, <1>4 DEF CommitAccepted

\* Whatever workers, coordinators and clocks do, a task lives the life of
\* TaskLifecycle: one grant at a time, and only the grant held reports.
THEOREM KeepsLifecycleHolds == Spec => KeepsLifecycle
<1>1. HInv /\ [Next]_vars => [Life!Next]_(Life!lifeVars)
  <2> SUFFICES ASSUME HInv, [Next]_vars PROVE Life!Next \/ UNCHANGED lifeSeen
    BY DEF Life!lifeVars, lifeSeen
  <2>1. ASSUME NEW t \in Tasks, NEW s \in TaskSpecs, SubmitTask(t, s)
        PROVE  Life!Next \/ UNCHANGED lifeSeen
    BY <2>1, SubmitLives DEF Life!Next
  <2>2. ASSUME \/ \E r \in Resources, s \in ResourceSpecs : RegisterResource(r, s)
               \/ Tick
               \/ UNCHANGED vars
        PROVE  UNCHANGED lifeSeen
    <3>1. UNCHANGED <<spec, state, active, leases, attempts, canonical>>
      BY <2>2 DEF RegisterResource, Tick, vars
    <3> QED
      BY <3>1 DEF lifeSeen, Given, Reported, Place, Tried, Allowed, Accepted, Published
  <2>3. ASSUME NEW now \in Now, Reap(now) PROVE Life!Next
    BY <2>3, ReapLives DEF Life!Next, Life!Held, Recovered
  <2>4. ASSUME NEW l \in Leases, NEW t \in Tasks, NEW r \in Resources, NEW size \in Sizes,
               NEW ttl \in Ttls, NEW now \in Now, Acquire(l, t, r, size, ttl, now)
        PROVE  Life!Next
    <3>1. Life!Give(Recovered(now), t, l, r) /\ Recovered(now) \in SUBSET Life!Held
      BY <2>4, AcquireLives DEF Life!Held, Recovered
    <3> QED
      BY <3>1 DEF Life!Next
  <2>5. ASSUME NEW l \in Leases, NEW outcome \in Outcomes, NEW retrySafe \in BOOLEAN,
               NEW completed \in 0..clock, RecordAttempt(l, outcome, retrySafe, completed)
        PROVE  Life!Next
    <3>1. leases[l].task \in Tasks
      BY <2>5 DEF RecordAttempt, Unreleased, HInv, TypeOK, Lease
    <3>2. NextState(leases[l].task, outcome, retrySafe) \in {"READY", "BLOCKED", "UNKNOWN", "FAILED"}
      BY DEF NextState
    <3>3. Life!Report(leases[l].task, NextState(leases[l].task, outcome, retrySafe))
      BY <2>5, <3>1, RecordLives
    <3> QED
      BY <3>1, <3>2, <3>3 DEF Life!Next
  <2>6. ASSUME NEW l \in Leases, CommitAccepted(l) PROVE Life!Next \/ UNCHANGED lifeSeen
    <3>1. leases[l].task \in Tasks
      BY <2>6 DEF CommitAccepted, HInv, ReleaseOK, TypeOK, Lease
    <3> QED
      BY <2>6, <3>1, CommitLives DEF Life!Next
  <2> QED
    BY <2>1, <2>2, <2>3, <2>4, <2>5, <2>6 DEF Next
<1> QED
  BY <1>1, InitLives, HarnessInvariant, PTL DEF Spec, KeepsLifecycle, Life!Spec
=============================================================================
