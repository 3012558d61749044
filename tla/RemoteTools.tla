---------------------------- MODULE RemoteTools ----------------------------
(***************************************************************************)
(* What APEX asks of services over HTTP: apex/core/toolloader.py and       *)
(* apex/mcp.py build the registry from built-in tools, the files of the    *)
(* user and the listings of MCP servers, page by page; a tool of an MCP    *)
(* server is called through requests.post, and the clients of packages/api *)
(* through a session that retries.                                         *)
(*                                                                         *)
(* A service is external.  What it lists is fixed when the model starts;   *)
(* it may fail at any point, apply a request without its answer arriving,  *)
(* and apply a request that its client has given up.                       *)
(***************************************************************************)
EXTENDS Naturals, Sequences, FiniteSets, FiniteSetsExt

CONSTANTS
  BuiltIns,    \* keys of the built-in and memory tools
  UserFiles,   \* the keys each file in the tools directory defines, in order
  Servers,     \* the configured MCP servers, in order
  ToolNames,   \* the tools MCP servers list
  Endpoints,
  Offers,      \* what an endpoint may list
  Pages, FirstPage, NoCursor,
  Requests,
  MaxRetries   \* the largest max_retries of a client

\* A tool of an MCP server is registered as mcp__<server>__<tool>.
Key(server, tool) == [server |-> server, tool |-> tool]

\* A definition without a name or a schema, or whose headers may not be bound, is
\* skipped; one whose schema gives a list or an object for a `type` that is looked
\* up in a table raises TypeError.
Definition == [tool : ToolNames, kind : {"valid", "skipped", "raises"}]

\* A page that drips goes on sending bytes and never ends.
Page == [tools : SUBSET Definition, next : {NoCursor} \cup Pages, drips : BOOLEAN]

ASSUME RemoteAssumption ==
  /\ \A i \in DOMAIN Servers : Servers[i].endpoint \in Endpoints
  /\ FirstPage \in Pages /\ NoCursor \notin Pages /\ IsFiniteSet(Pages)
  /\ Offers \subseteq [Pages -> Page]
  /\ MaxRetries \in Nat

VARIABLES
  phase,     \* "files", "servers", "loaded", "refused" or "aborted"
  server,    \* position of the server being listed
  cursor,    \* the page of it that is asked for
  listed,    \* tools of _list_tools
  registry,  \* where the tool of a key comes from
  offer,     \* what each endpoint lists
  at,        \* at[r]: where request r stands
  client,    \* client[r]: who sends it, and how it is retried
  budget,    \* Retry.total that is left
  copies,    \* sent copies of r that the service has not applied yet
  applied    \* how often the service has applied r

loadVars == <<phase, server, cursor, listed, registry, offer>>
callVars == <<at, client, budget, copies, applied>>
vars == <<loadVars, callVars>>

-----------------------------------------------------------------------------
\* apex/core/toolloader.py

Overlay(f, keys, source) ==
  [k \in DOMAIN f \cup keys |-> IF k \in keys THEN source ELSE f[k]]

\* The server at position i is the next, if there is one.
GoTo(i) ==
  /\ server' = i
  /\ cursor' = FirstPage /\ listed' = {}
  /\ phase' = IF i > Len(Servers) THEN "loaded" ELSE "servers"

\* load_tools_dir: a file that fails to load contributes nothing.
LoadFiles ==
  /\ phase = "files"
  /\ \E good \in SUBSET DOMAIN UserFiles :
       registry' = Overlay(registry, UNION {UserFiles[f] : f \in good}, "user")
  /\ GoTo(1)
  /\ UNCHANGED <<offer, callVars>>

\* _mcp_configs_from_env: APEX_MCP_SERVERS is not an array of objects.
RefuseConfigs ==
  /\ phase = "files"
  /\ phase' = "refused"
  /\ UNCHANGED <<server, cursor, listed, registry, offer, callVars>>

-----------------------------------------------------------------------------
\* apex/mcp.py: listing

Endpoint == Servers[server].endpoint
Asked == offer[Endpoint][cursor]

KeysOf(name, definitions) ==
  {Key(name, d.tool) : d \in {x \in definitions : x.kind = "valid"}}

Raises(definitions) == \E d \in definitions : d.kind = "raises"

\* No url, or headers that are not pairs of strings.
SkipServer ==
  /\ phase = "servers" /\ ~Servers[server].usable
  /\ GoTo(server + 1)
  /\ UNCHANGED <<registry, offer, callVars>>

\* The whole listing is registered, over what earlier servers registered; this is
\* outside the try statement, and an exception ends the program.
Register(definitions) ==
  \/ /\ ~Raises(definitions)
     /\ registry' = Overlay(registry, KeysOf(Servers[server].name, definitions), Endpoint)
     /\ GoTo(server + 1)
  \/ /\ Raises(definitions)
     /\ phase' = "aborted"
     /\ UNCHANGED <<server, cursor, listed, registry>>

\* One turn of the loop of _list_tools.
PageArrives ==
  /\ phase = "servers" /\ Servers[server].usable /\ ~Asked.drips
  /\ LET all == listed \cup Asked.tools IN
       \/ Asked.next = NoCursor /\ Register(all)
       \/ /\ Asked.next # NoCursor
          /\ cursor' = Asked.next /\ listed' = all
          /\ UNCHANGED <<phase, server, registry>>
  /\ UNCHANGED <<offer, callVars>>

\* MUTANT of ListingFails: the pages that arrived are registered.
ListingFailsPartly ==
  /\ phase = "servers" /\ Servers[server].usable
  /\ registry' = Overlay(registry, KeysOf(Servers[server].name, listed), Endpoint)
  /\ GoTo(server + 1)
  /\ UNCHANGED <<offer, callVars>>

\* Any exception of _list_tools: a timeout, a JSON-RPC error, an invalid page.
ListingFails ==
  /\ phase = "servers" /\ Servers[server].usable
  /\ GoTo(server + 1)
  /\ UNCHANGED <<registry, offer, callVars>>

-----------------------------------------------------------------------------
\* Calls: apex/mcp.py and packages/api

\* Retry.DEFAULT_ALLOWED_METHODS, with one name for all idempotent methods.
DefaultMethods == {"GET"}

\* requests.post mounts an adapter with Retry(0, read=False).
McpClient == [kind |-> "mcp", method |-> "POST", methods |-> DefaultMethods, retries |-> 0]

\* MUTANT of ApiClients: retry_methods may be empty, which urllib3 takes for "all".
ApiClientsAny ==
  [kind : {"api"}, method : {"GET", "POST"}, methods : SUBSET {"GET", "POST"},
   retries : 0..MaxRetries]

\* APIClient(retry_methods, max_retries), with the method of one request.
ApiClients ==
  [kind : {"api"}, method : {"GET", "POST"}, methods : (SUBSET {"GET", "POST"}) \ {{}},
   retries : 0..MaxRetries]

Start(r, c) ==
  /\ at[r] = "none"
  /\ at' = [at EXCEPT ![r] = "connecting"]
  /\ client' = [client EXCEPT ![r] = c]
  /\ budget' = [budget EXCEPT ![r] = c.retries]
  /\ UNCHANGED <<loadVars, copies, applied>>

\* The effect of a tool that came from a server.
CallTool(r) ==
  /\ phase = "loaded" /\ \E k \in DOMAIN registry : registry[k] \in Endpoints
  /\ Start(r, McpClient)

CallApi(r) == \E c \in ApiClients : Start(r, c)

\* Retry.increment: another attempt, or the error goes to the caller.
AgainOrGiveUp(r, again) ==
  IF again /\ budget[r] > 0
  THEN /\ at' = [at EXCEPT ![r] = "connecting"]
       /\ budget' = [budget EXCEPT ![r] = @ - 1]
  ELSE at' = [at EXCEPT ![r] = "error"] /\ UNCHANGED budget

\* Retry._is_method_retryable: an empty set allows every method.
Retryable(r) == client[r].methods = {} \/ client[r].method \in client[r].methods

\* The connection is not made: any method is tried again.
ConnectFails(r) ==
  /\ at[r] = "connecting"
  /\ AgainOrGiveUp(r, TRUE)
  /\ UNCHANGED <<loadVars, client, copies, applied>>

Send(r) ==
  /\ at[r] = "connecting"
  /\ at' = [at EXCEPT ![r] = "sent"]
  /\ copies' = [copies EXCEPT ![r] = @ + 1]
  /\ UNCHANGED <<loadVars, client, budget, applied>>

\* The service does what was asked, whether or not the client still waits.
Apply(r) ==
  /\ copies[r] > 0
  /\ copies' = [copies EXCEPT ![r] = @ - 1]
  /\ applied' = [applied EXCEPT ![r] = @ + 1]
  /\ UNCHANGED <<loadVars, at, client, budget>>

\* The service has done what was asked, and says so.
Succeed(r) ==
  /\ at[r] = "sent" /\ copies[r] > 0
  /\ copies' = [copies EXCEPT ![r] = @ - 1]
  /\ applied' = [applied EXCEPT ![r] = @ + 1]
  /\ at' = [at EXCEPT ![r] = "ok"]
  /\ UNCHANGED <<loadVars, client, budget>>

\* The answer is an error for good: a JSON-RPC error, isError, a handle of a
\* task, input_required, 4xx, or a redirect that APIClient refuses.
Fail(r) ==
  /\ at[r] = "sent"
  /\ at' = [at EXCEPT ![r] = "error"]
  /\ UNCHANGED <<loadVars, client, budget, copies, applied>>

\* MUTANT of Busy: the last response is returned without raise_for_status.
BusyUnraised(r) ==
  /\ at[r] = "sent"
  /\ IF Retryable(r) /\ budget[r] > 0
     THEN AgainOrGiveUp(r, TRUE)
     ELSE at' = [at EXCEPT ![r] = "ok"] /\ UNCHANGED budget
  /\ UNCHANGED <<loadVars, client, copies, applied>>

\* 429, 500, 502, 503 or 504
Busy(r) ==
  /\ at[r] = "sent"
  /\ AgainOrGiveUp(r, Retryable(r))
  /\ UNCHANGED <<loadVars, client, copies, applied>>

\* MUTANT of AnswerLost: a lost answer counts as a connection that was not made.
AnswerLostRetried(r) ==
  /\ at[r] = "sent"
  /\ AgainOrGiveUp(r, TRUE)
  /\ UNCHANGED <<loadVars, client, copies, applied>>

\* The read times out, or the connection breaks.
AnswerLost(r) ==
  /\ at[r] = "sent"
  /\ AgainOrGiveUp(r, Retryable(r))
  /\ UNCHANGED <<loadVars, client, copies, applied>>

\* 307 or 308: the service has not applied the request, and requests.post sends
\* it to the new location.
Redirect(r) ==
  /\ at[r] = "sent" /\ client[r].kind = "mcp" /\ copies[r] > 0
  /\ copies' = [copies EXCEPT ![r] = @ - 1]
  /\ at' = [at EXCEPT ![r] = "connecting"]
  /\ UNCHANGED <<loadVars, client, budget, applied>>

-----------------------------------------------------------------------------

Init ==
  /\ phase = "files" /\ server = 1 /\ cursor = FirstPage /\ listed = {}
  /\ registry = [k \in BuiltIns |-> "built_in"]
  /\ offer \in [Endpoints -> Offers]
  /\ at = [r \in Requests |-> "none"]
  /\ client = [r \in Requests |-> McpClient]
  /\ budget = [r \in Requests |-> 0]
  /\ copies = [r \in Requests |-> 0]
  /\ applied = [r \in Requests |-> 0]

Call(r) ==
  \/ CallTool(r) \/ CallApi(r) \/ ConnectFails(r) \/ Send(r) \/ Redirect(r)
  \/ Apply(r) \/ Succeed(r) \/ Fail(r) \/ Busy(r) \/ AnswerLost(r)

Next ==
  \/ LoadFiles \/ RefuseConfigs \/ SkipServer \/ PageArrives \/ ListingFails
  \/ \E r \in Requests : Call(r)

\* A service that is silent for fifteen seconds fails; one that drips need not.
Listing == PageArrives \/ (phase = "servers" /\ ~Asked.drips /\ ListingFails)

Spec == Init /\ [][Next]_vars

FairSpec == Spec /\ WF_vars(LoadFiles \/ SkipServer \/ Listing)

-----------------------------------------------------------------------------
\* Properties

\* The page after n pages of a listing.
PageAfter(e) ==
  LET page[n \in Nat] ==
        IF n = 0 THEN FirstPage
        ELSE IF page[n - 1] = NoCursor THEN NoCursor ELSE offer[e][page[n - 1]].next
  IN page

PagesOf(e) == {PageAfter(e)[n] : n \in 0..Cardinality(Pages)} \ {NoCursor}

\* The listing of e ends, and so does each of its pages.
Ends(e) ==
  /\ PageAfter(e)[Cardinality(Pages)] = NoCursor
  /\ \A p \in PagesOf(e) : ~offer[e][p].drips

Usable == {i \in DOMAIN Servers : Servers[i].usable}

\* What the server at position i lists on all its pages, and the keys of it.
Listed(i) ==
  LET e == Servers[i].endpoint IN UNION {offer[e][p].tools : p \in PagesOf(e)}

Whole(i) == KeysOf(Servers[i].name, Listed(i))

\* The tools of the files F and of the servers S, a later one over an earlier one.
Layers(F, S) ==
  LET files == UNION {UserFiles[f] : f \in F}
      from(k) == {i \in S : k \in Whole(i)}
  IN [k \in BuiltIns \cup files \cup UNION {Whole(i) : i \in S} |->
        IF from(k) # {} THEN Servers[Max(from(k))].endpoint
        ELSE IF k \in files THEN "user" ELSE "built_in"]

\* Every server whose listing ended contributes all of its valid tools, and one
\* whose listing failed at any page contributes none.
RegistryIsWhole ==
  \E F \in SUBSET DOMAIN UserFiles, S \in SUBSET {i \in Usable : ~Raises(Listed(i))} :
    registry = Layers(F, S)

\* If the listings and their pages end, then so does start-up, whatever fails, with
\* whole listings in the registry, unless a definition of the server at hand makes
\* it raise.  The antecedent is needed: build_registry puts no bound of its own on
\* the number of pages, nor on the time a page may take.
StartupCompletes ==
  (\A i \in Usable : Ends(Servers[i].endpoint)) =>
    <>[](\/ phase \in {"loaded", "refused"} /\ RegistryIsWhole
         \/ phase = "aborted" /\ server \in Usable /\ Raises(Listed(server)))

\* A request whose method the client may not repeat is applied at most once, also
\* when its answer is lost and when it is applied after its client gave up; the
\* others at most once per attempt; and success means that it was applied.
AppliedAsAllowed ==
  \A r \in Requests :
    /\ applied[r] + copies[r] <=
         1 + (IF client[r].method \in client[r].methods THEN client[r].retries ELSE 0)
    /\ at[r] = "ok" => applied[r] > 0

=============================================================================
