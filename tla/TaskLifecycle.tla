--------------------------- MODULE TaskLifecycle ---------------------------
(***************************************************************************)
(* What the harness store promises about the life of a task (README of     *)
(* axiom-harness), without rows, clocks or transactions.  A task is worked *)
(* on under one grant at a time and a resource serves one grant at a time; *)
(* a grant is given once, may be taken back, and only the grant that is    *)
(* held reports an outcome.  Reports are bounded, work that was taken back *)
(* does not count as one; the first report that is not a retry ends the    *)
(* work, and what is published is the one accepted candidate.              *)
(***************************************************************************)
EXTENDS Naturals

CONSTANTS Tasks, Resources, Grants, Nothing

VARIABLES
  phase,     \* phase[t]: where the task stands, Nothing before it is submitted
  holder,    \* holder[t]: the grant under which it is worked on, or Nothing
  place,     \* place[t]: the resource of that grant, or Nothing
  given,     \* the grants given so far
  reported,  \* the grants that reported an outcome
  reports,   \* reports[t]: how many of them were for this task
  allowed,   \* allowed[t]: how many may be
  accepted,  \* accepted[t]: the accepted candidate, a set of at most one grant
  published  \* published[t]: the canonical result, likewise

lifeVars ==
  <<phase, holder, place, given, reported, reports, allowed, accepted, published>>

Init ==
  /\ phase = [t \in Tasks |-> Nothing]
  /\ holder = [t \in Tasks |-> Nothing]
  /\ place = [t \in Tasks |-> Nothing]
  /\ given = {}
  /\ reported = {}
  /\ reports = [t \in Tasks |-> 0]
  /\ allowed = [t \in Tasks |-> 0]
  /\ accepted = [t \in Tasks |-> {}]
  /\ published = [t \in Tasks |-> {}]

Submit(t) ==
  /\ phase[t] = Nothing
  /\ phase' = [phase EXCEPT ![t] = "READY"]
  /\ allowed' \in [Tasks -> Nat] /\ allowed'[t] > 0
  /\ \A u \in Tasks \ {t} : allowed'[u] = allowed[u]
  /\ UNCHANGED <<holder, place, given, reported, reports, accepted, published>>

Held == {t \in Tasks : phase[t] = "LEASED"}

\* The grants of some tasks are taken back: nothing else is lost or counted.
TakeBack(back) ==
  /\ phase' = [t \in Tasks |-> IF t \in back THEN "READY" ELSE phase[t]]
  /\ holder' = [t \in Tasks |-> IF t \in back THEN Nothing ELSE holder[t]]
  /\ place' = [t \in Tasks |-> IF t \in back THEN Nothing ELSE place[t]]
  /\ UNCHANGED <<given, reported, reports, allowed, accepted, published>>

\* A new grant for a task that is ready, or has just become so.
Give(back, t, g, r) ==
  /\ phase[t] = "READY" \/ t \in back
  /\ g \notin given
  /\ \A u \in Tasks \ back : place[u] # r
  /\ phase' = [u \in Tasks |->
       IF u = t THEN "LEASED" ELSE IF u \in back THEN "READY" ELSE phase[u]]
  /\ holder' = [u \in Tasks |->
       IF u = t THEN g ELSE IF u \in back THEN Nothing ELSE holder[u]]
  /\ place' = [u \in Tasks |->
       IF u = t THEN r ELSE IF u \in back THEN Nothing ELSE place[u]]
  /\ given' = given \cup {g}
  /\ UNCHANGED <<reported, reports, allowed, accepted, published>>

\* The holder reports: a failure to be tried again while reports are left, or
\* one of the outcomes that end the work.
Report(t, next) ==
  /\ phase[t] = "LEASED" /\ holder[t] \in given \ reported
  /\ reports[t] + (IF next = "READY" THEN 1 ELSE 0) < allowed[t]
  /\ accepted[t] = {}
  /\ phase' = [phase EXCEPT ![t] = next]
  /\ reported' = reported \cup {holder[t]}
  /\ reports' = [reports EXCEPT ![t] = @ + 1]
  /\ accepted' = [accepted EXCEPT ![t] = IF next = "BLOCKED" THEN {holder[t]} ELSE {}]
  /\ holder' = [holder EXCEPT ![t] = Nothing]
  /\ place' = [place EXCEPT ![t] = Nothing]
  /\ UNCHANGED <<given, allowed, published>>

Publish(t) ==
  /\ phase[t] = "BLOCKED" /\ accepted[t] # {}
  /\ phase' = [phase EXCEPT ![t] = "COMMITTED"]
  /\ published' = [published EXCEPT ![t] = accepted[t]]
  /\ UNCHANGED <<holder, place, given, reported, reports, allowed, accepted>>

Next ==
  \/ \E t \in Tasks : Submit(t) \/ Publish(t)
  \/ \E back \in SUBSET Held : TakeBack(back)
  \/ \E back \in SUBSET Held, t \in Tasks, g \in Grants, r \in Resources : Give(back, t, g, r)
  \/ \E t \in Tasks, next \in {"READY", "BLOCKED", "UNKNOWN", "FAILED"} : Report(t, next)

Spec == Init /\ [][Next]_lifeVars
=============================================================================
