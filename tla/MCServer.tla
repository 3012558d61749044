------------------------------ MODULE MCServer ------------------------------
(***************************************************************************)
(* Values for the constants of ApexServer.  "get" may call the server      *)
(* itself; "shell" is never approved; "nan" is no JSON.                    *)
(***************************************************************************)
EXTENDS ApexServer

Get(args) == [tool |-> "get", args |-> args]
Shell == [tool |-> "shell", args |-> "url"]

MCPlans == {<<Get("url")>>}
MCClass == [get |-> "network", shell |-> "shell"]

Full ==
  [tools |-> {"get", "shell"}, accepts |-> {Get("url"), Shell}, retrySafe |-> {}, impl |-> 1]

\* "get" was given another schema, which refuses the url.
Retyped == [Full EXCEPT !.accepts = {Shell}]
MCRegistries == {Full, Retyped}

MCRequest(plan, radius) ==
  [plan |-> plan, policy |-> [maxSteps |-> 2, allowed |-> {}, radius |-> radius]]

MCAsonRequests ==
  {MCRequest(<<Get("url")>>, "network"), MCRequest(<<Get("url")>>, "none"),
   MCRequest(<<Shell>>, "network"), MCRequest(<<Get("url"), Get("url")>>, "network"),
   MCRequest(<<Get("nan")>>, "network")}

=============================================================================
