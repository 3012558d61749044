CONSTANTS
  BuiltIns <- MCBuiltIns
  UserFiles <- MCUserFiles
  Servers <- MCServers
  ToolNames = {"find", "copy", "broken", "listtype"}
  e1 = e1
  e2 = e2
  Endpoints = {e1, e2}
  Offers <- MCOffers
  Pages = {1, 2}
  FirstPage = 1
  NoCursor = NoCursor
  Requests = {r1}
  MaxRetries = 2
SPECIFICATION FairSpec
INVARIANTS AppliedAsAllowed
PROPERTIES StartupCompletes
CHECK_DEADLOCK FALSE
