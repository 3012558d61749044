CONSTANTS
  RunIds = {1, 2}
  Tools = {"get", "shell"}
  Args = {"url", "nan"}
  NonJson = {"nan"}
  MaxSteps = 1
  Plans <- MCPlans
  Registries <- MCRegistries
  AuthIds = {a}
  Clients = {b}
  LegacyRuns = {}
  Executors = {server, cli}
  Server = server
  Retries = 2
  WriteFile = "write_file"
  AsonRequests <- MCAsonRequests
  Class <- MCClass
  SelfTools = {"get"}
  NoRow = NoRow
  NoPlan = NoPlan
  NoContract = NoContract
  NoAuth = NoAuth
  NoRequest = NoRequest
  NoRun = NoRun
  NoCaller = NoCaller
  Nothing = Nothing
  Down = Down
SPECIFICATION FairServerSpec
INVARIANTS ServerTypeOK OneRunPerAuthorization AnswerTellsRun
PROPERTIES ImplementsExecutor RequestsLeave
