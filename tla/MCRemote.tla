------------------------------ MODULE MCRemote ------------------------------
(***************************************************************************)
(* Values for the constants of RemoteTools: two servers that share a name  *)
(* and one without a url; listings of one page, of two pages, without end, *)
(* one that drips, and one whose second page defines a tool that cannot be *)
(* registered.                                                             *)
(***************************************************************************)
EXTENDS RemoteTools

CONSTANTS e1, e2

MCBuiltIns == {Key("local", "shell"), Key("local", "read_file")}
MCUserFiles == <<{Key("local", "shell")}, {Key("mcp", "find")}>>

MCServers ==
  <<[name |-> "mcp", endpoint |-> e1, usable |-> TRUE],
    [name |-> "docs", endpoint |-> e1, usable |-> FALSE],
    [name |-> "mcp", endpoint |-> e2, usable |-> TRUE]>>

MCPage(tools, next, drips) ==
  [tools |-> {[tool |-> t, kind |-> CASE t = "broken" -> "skipped"
                                      [] t = "listtype" -> "raises"
                                      [] OTHER -> "valid"] : t \in tools},
   next |-> next, drips |-> drips]

Second == MCPage({"find", "broken"}, NoCursor, FALSE)

MCOffers ==
  {<<MCPage({"find"}, NoCursor, FALSE), Second>>,
   <<MCPage({"copy"}, 2, FALSE), Second>>,
   <<MCPage({"copy"}, 2, FALSE), MCPage({"find", "listtype"}, NoCursor, FALSE)>>,
   <<MCPage({"copy"}, 2, FALSE), MCPage({"find"}, 1, FALSE)>>,
   <<MCPage({"copy"}, 2, FALSE), MCPage({"find"}, NoCursor, TRUE)>>}

=============================================================================
