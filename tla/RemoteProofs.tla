---------------------------- MODULE RemoteProofs ----------------------------
(***************************************************************************)
(* A proof about the calls of RemoteTools, for any number of requests, any *)
(* methods and any number of retries.                                      *)
(*                                                                         *)
(* That a request is applied so often at most depends on the copies that   *)
(* are still under way and on the retries that are left: the invariant     *)
(* balances them while the client is connecting, sending or done.          *)
(***************************************************************************)
EXTENDS RemoteTools, TLAPS

Client == [kind : {"api", "mcp"}, method : {"GET", "POST"}, methods : (SUBSET {"GET", "POST"}) \ {{}},
           retries : 0..MaxRetries]

CallsTyped ==
  /\ at \in [Requests -> {"none", "connecting", "sent", "ok", "error"}]
  /\ client \in [Requests -> Client]
  /\ budget \in [Requests -> Nat] /\ copies \in [Requests -> Nat] /\ applied \in [Requests -> Nat]

Repeatable(r) == client[r].method \in client[r].methods

\* What r has cost so far: the attempts that were, or may yet be, applied.
Cost(r) == applied[r] + copies[r]

\* The retries that are used up, where they may repeat what was applied.
Used(r) == IF Repeatable(r) THEN client[r].retries - budget[r] ELSE 0

Balanced(r) ==
  /\ budget[r] <= client[r].retries
  /\ at[r] = "none" => Cost(r) = 0
  /\ at[r] = "connecting" => Cost(r) <= Used(r)
  /\ Cost(r) <= 1 + Used(r)
  /\ at[r] = "ok" => applied[r] > 0

CallInv == CallsTyped /\ \A r \in Requests : Balanced(r)

\* To be in S and not empty is to be in S without the empty set.
LEMMA NonEmpty == \A x, S : x \in S \ {{}} <=> x \in S /\ x # {}
  OBVIOUS

\* requests.post and APIClient send as they are made to.
LEMMA ClientsTyped == McpClient \in Client /\ ApiClients \subseteq Client
  BY NonEmpty, RemoteAssumption DEF McpClient, ApiClients, Client, DefaultMethods

\* Nothing has been asked for yet.
LEMMA CallInit == Init => CallInv
<1>1. McpClient \in Client
  BY ClientsTyped
<1> QED
  BY <1>1 DEF Init, CallInv, CallsTyped, Balanced, Cost, Used, Client, McpClient

\* What happens to one request leaves the others as they are.
LEMMA OneRequest ==
  ASSUME CallInv, NEW r \in Requests, CallsTyped', Balanced(r)',
         \A s \in Requests \ {r} :
           /\ at'[s] = at[s] /\ client'[s] = client[s] /\ budget'[s] = budget[s]
           /\ copies'[s] = copies[s] /\ applied'[s] = applied[s]
  PROVE  CallInv'
<1>1. ASSUME NEW s \in Requests \ {r} PROVE Balanced(s)'
  BY <1>1 DEF CallInv, Balanced, Cost, Used, Repeatable
<1> QED
  BY <1>1 DEF CallInv

\* A request is started.
LEMMA StartKeeps ==
  ASSUME CallInv, NEW r \in Requests, NEW c \in Client, Start(r, c)
  PROVE  CallInv'
<1>1. CallsTyped'
  BY DEF CallInv, CallsTyped, Start, Client
<1>2. at'[r] = "connecting" /\ budget'[r] = c.retries /\ client'[r] = c /\ Cost(r)' = 0
  BY DEF Start, CallInv, CallsTyped, Balanced, Cost
<1>3. Balanced(r)'
  BY <1>1, <1>2 DEF Balanced, Used, CallsTyped, Client, Cost
<1> QED
  BY <1>1, <1>3, OneRequest DEF Start, CallInv, CallsTyped

\* A failed attempt is repeated out of the budget, if what it did may be repeated
\* or it did nothing.
LEMMA AgainKeeps ==
  ASSUME CallInv, NEW r \in Requests, NEW again \in BOOLEAN, AgainOrGiveUp(r, again),
         UNCHANGED <<client, copies, applied>>, at[r] \in {"connecting", "sent"},
         at[r] = "sent" /\ again => Repeatable(r)
  PROVE  CallInv'
<1>1. CallsTyped'
  BY DEF CallInv, CallsTyped, AgainOrGiveUp
<1>2. Balanced(r)'
  <2>1. CASE again /\ budget[r] > 0
    BY <2>1 DEF AgainOrGiveUp, CallInv, CallsTyped, Balanced, Cost, Used, Repeatable, Client
  <2>2. CASE ~(again /\ budget[r] > 0)
    BY <2>2 DEF AgainOrGiveUp, CallInv, CallsTyped, Balanced, Cost, Used, Repeatable, Client
  <2> QED
    BY <2>1, <2>2
<1> QED
  BY <1>1, <1>2, OneRequest DEF AgainOrGiveUp, CallInv, CallsTyped

\* Every step of a call keeps the balance.
LEMMA CallKeeps ==
  ASSUME CallInv, NEW r \in Requests, Call(r)
  PROVE  CallInv'
<1> USE DEF CallInv
<1>1. CASE CallTool(r) \/ CallApi(r)
  BY <1>1, ClientsTyped, StartKeeps DEF CallTool, CallApi
<1>2. CASE ConnectFails(r)
  BY <1>2, AgainKeeps DEF ConnectFails
<1>3. CASE Busy(r) \/ AnswerLost(r)
  <2>1. Retryable(r) \in BOOLEAN
    BY DEF Retryable
  <2>2. client[r].methods # {}
    <3>1. client[r].methods \in (SUBSET {"GET", "POST"}) \ {{}}
      BY DEF CallsTyped, Client
    <3> QED
      BY <3>1, NonEmpty
  <2>3. Retryable(r) => Repeatable(r)
    BY <2>2 DEF Retryable, Repeatable
  <2> QED
    BY <1>3, <2>1, <2>3, AgainKeeps DEF Busy, AnswerLost
<1>4. CASE Send(r)
  <2>1. CallsTyped'
    BY <1>4 DEF Send, CallsTyped
  <2>2. Balanced(r)'
    BY <1>4, <2>1 DEF Send, CallsTyped, Balanced, Cost, Used, Repeatable, Client
  <2> QED
    BY <1>4, <2>1, <2>2, OneRequest DEF Send, CallsTyped
<1>5. CASE Apply(r) \/ Succeed(r)
  <2>1. CallsTyped'
    BY <1>5 DEF Apply, Succeed, CallsTyped
  <2>2. Balanced(r)'
    BY <1>5, <2>1 DEF Apply, Succeed, CallsTyped, Balanced, Cost, Used, Repeatable, Client
  <2> QED
    BY <1>5, <2>1, <2>2, OneRequest DEF Apply, Succeed, CallsTyped
<1>6. CASE Fail(r)
  <2>1. CallsTyped'
    BY <1>6 DEF Fail, CallsTyped
  <2>2. Balanced(r)'
    BY <1>6, <2>1 DEF Fail, CallsTyped, Balanced, Cost, Used, Repeatable, Client
  <2> QED
    BY <1>6, <2>1, <2>2, OneRequest DEF Fail, CallsTyped
<1>7. CASE Redirect(r)
  <2>1. CallsTyped'
    BY <1>7 DEF Redirect, CallsTyped
  <2>2. Balanced(r)'
    BY <1>7, <2>1 DEF Redirect, CallsTyped, Balanced, Cost, Used, Repeatable, Client
  <2> QED
    BY <1>7, <2>1, <2>2, OneRequest DEF Redirect, CallsTyped
<1> QED
  BY <1>1, <1>2, <1>3, <1>4, <1>5, <1>6, <1>7 DEF Call

\* Every step keeps the balance: start-up does not touch the calls.
LEMMA CallNext == CallInv /\ [Next]_vars => CallInv'
<1> SUFFICES ASSUME CallInv, [Next]_vars PROVE CallInv'
  OBVIOUS
<1>1. CASE \E r \in Requests : Call(r)
  BY <1>1, CallKeeps
<1>2. CASE UNCHANGED callVars
  BY <1>2 DEF callVars, CallInv, CallsTyped, Balanced, Cost, Used, Repeatable
<1>3. CASE LoadFiles \/ RefuseConfigs \/ SkipServer \/ PageArrives \/ ListingFails
  BY <1>2, <1>3 DEF LoadFiles, RefuseConfigs, SkipServer, PageArrives, Register, GoTo, ListingFails
<1> QED
  BY <1>1, <1>2, <1>3 DEF Next, vars

\* Whatever is lost, late, busy or redirected, a request is applied no more often
\* than its method and its client allow, for every number of retries.
THEOREM AppliedAsAllowedHolds == Spec => []AppliedAsAllowed
<1>1. CallInv => AppliedAsAllowed
  BY DEF CallInv, CallsTyped, Balanced, Cost, Used, Repeatable, Client, AppliedAsAllowed
<1> QED
  BY <1>1, CallInit, CallNext, PTL DEF Spec
=============================================================================
